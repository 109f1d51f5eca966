------------------------------ MODULE CopyOnWrite ------------------------------
(***************************************************************************)
(* CopyOnWriteSlice (ag/ag_ext/copy_on_write.go): writers build a new      *)
(* slice under the lock and publish it; readers get the published one      *)
(* itself and go on reading it without the lock.  (CopyOnWriteMap copies   *)
(* the whole map in its one writing operation.)                            *)
(*                                                                         *)
(* Memory is explicit: an array is a sequence of cells, as long as its     *)
(* capacity, a slice is an array and a length.  Every operation runs under *)
(* the lock, so it is one step.                                            *)
(***************************************************************************)
EXTENDS Naturals, Sequences, FiniteSets

CONSTANTS
    Elems,    \* elements
    Readers,  \* goroutines that hold on to what they read
    MaxCap    \* bound: largest capacity

ASSUME SliceAssumption == IsFiniteSet(Readers) /\ MaxCap \in Nat

VARIABLES
    heap,   \* the arrays somebody can still reach
    slice,  \* the published slice: its array and its length
    list,   \* what the slice should hold: the abstract sequence
    view    \* each reader: the slice it holds, and what it saw in it

sliceVars == <<heap, slice, list, view>>

Zero == "zero"
NoSlice == [arr |-> 0, len |-> 0]   \* nil: no array

\* One array for the published slice, one for each reader, one to build.
Arrays == 1..(Cardinality(Readers) + 2)

SliceInit ==
    /\ heap = [a \in Arrays |-> <<>>]
    /\ slice = NoSlice
    /\ list = <<>>
    /\ view = [r \in Readers |-> [s |-> NoSlice, saw |-> <<>>]]

Content(s) == IF s.arr = 0 THEN <<>> ELSE SubSeq(heap[s.arr], 1, s.len)

\* Arrays nobody can reach: readers hold slices, and the published one is current.
Garbage == Arrays \ ({slice.arr} \cup {view[r].s.arr : r \in Readers})

\* The elements s in a new array of the given capacity; arrays that nobody reaches
\* any more are collected.
Publish(s, cap) ==
    LET new == CHOOSE a \in Garbage : TRUE IN
    /\ slice' = [arr |-> new, len |-> Len(s)]
    /\ heap' = [a \in Arrays |->
                  IF a = new THEN [i \in 1..cap |-> IF i <= Len(s) THEN s[i] ELSE Zero]
                  ELSE IF \E r \in Readers : view[r].s.arr = a THEN heap[a] ELSE <<>>]

Becomes(abstract) == list' = abstract /\ UNCHANGED view

\* append: into the spare capacity of the published array if it has any, else
\* into a larger one.
Add(e) ==
    /\ slice.len < MaxCap
    /\ IF slice.arr # 0 /\ slice.len < Len(heap[slice.arr])
       THEN /\ heap' = [heap EXCEPT ![slice.arr][slice.len + 1] = e]
            /\ slice' = [slice EXCEPT !.len = @ + 1]
       ELSE \E cap \in (slice.len + 1)..MaxCap : Publish(Append(Content(slice), e), cap)
    /\ Becomes(Append(list, e))

\* An index below 0 or past the end is brought back to the ends.
AddIndex(i, e) ==
    /\ slice.len < MaxCap
    /\ LET s == Content(slice)
           at == IF i > Len(s) THEN Len(s) ELSE i
       IN  Publish(SubSeq(s, 1, at) \o <<e>> \o SubSeq(s, at + 1, Len(s)), Len(s) + 1)
    /\ Becomes(LET at == IF i > Len(list) THEN Len(list) ELSE i
               IN  SubSeq(list, 1, at) \o <<e>> \o SubSeq(list, at + 1, Len(list)))

\* The elements of s other than e: Delete's loop.
Without(s, e) ==
    LET kept[i \in 0..Len(s)] ==
            IF i = 0 THEN <<>>
            ELSE IF s[i] = e THEN kept[i - 1] ELSE Append(kept[i - 1], s[i])
    IN  kept[Len(s)]

\* Mutant of Delete: the filtered elements are written over the old array.
DeleteInPlace(e) ==
    LET keep == Without(Content(slice), e) IN
    /\ slice.arr # 0
    /\ heap' = [heap EXCEPT ![slice.arr] =
                  [i \in DOMAIN @ |-> IF i <= Len(keep) THEN keep[i] ELSE @[i]]]
    /\ slice' = [slice EXCEPT !.len = Len(keep)]
    /\ Becomes(Without(list, e))

\* All elements equal to e go; the new array keeps the old length as capacity.
Delete(e) ==
    /\ Publish(Without(Content(slice), e), slice.len)
    /\ Becomes(Without(list, e))

DeleteIndex(i) ==
    /\ i \in 1..slice.len
    /\ LET s == Content(slice)
       IN  Publish(SubSeq(s, 1, i - 1) \o SubSeq(s, i + 1, Len(s)), slice.len - 1)
    /\ Becomes(SubSeq(list, 1, i - 1) \o SubSeq(list, i + 1, Len(list)))

Set(i, e) ==
    /\ i \in 1..slice.len
    /\ Publish([Content(slice) EXCEPT ![i] = e], slice.len)
    /\ Becomes([list EXCEPT ![i] = e])

\* Value hands out the published slice itself.
Value(r) ==
    /\ view' = [view EXCEPT ![r] = [s |-> slice, saw |-> Content(slice)]]
    /\ UNCHANGED <<heap, slice, list>>

SliceNext ==
    \/ \E e \in Elems : \/ Add(e) \/ Delete(e)
                        \/ \E i \in 0..MaxCap : AddIndex(i, e) \/ Set(i, e)
    \/ \E i \in 1..MaxCap : DeleteIndex(i)
    \/ \E r \in Readers : Value(r)

SliceSpec == SliceInit /\ [][SliceNext]_sliceVars

------------------------------------------------------------------------------
\* What a reader holds never changes under it, although Add writes into the spare
\* capacity of the array it holds, and the published slice is always the sequence
\* the operations describe (copy_on_write.go:32-198).
SnapshotsStable ==
    /\ Content(slice) = list
    /\ \A r \in Readers : Content(view[r].s) = view[r].saw
===============================================================================
