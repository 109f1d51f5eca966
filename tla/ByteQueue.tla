------------------------------ MODULE ByteQueue ------------------------------
(***************************************************************************)
(* What the ring buffer of agonet (pkg/buffer/ring) promises its users: a  *)
(* first-in first-out queue of bytes of unlimited capacity.  op is the     *)
(* last call as the caller sees it: how many bytes it asked for, and the   *)
(* bytes it handed over or got back.                                       *)
(***************************************************************************)
EXTENDS Integers, Sequences

CONSTANT Byte

VARIABLES q, op

vars == <<q, op>>

Smaller(a, b) == IF a < b THEN a ELSE b

\* The first n bytes of a queue, and what is left without them.
Front(s, n) == SubSeq(s, 1, n)
Rest(s, n)  == SubSeq(s, n + 1, Len(s))

Idle == [kind |-> "none", ask |-> 0, data |-> <<>>]

Init == q = <<>> /\ op = Idle

\* Write, WriteString, WriteByte and each Read call ReadFrom makes.
Put ==
    /\ op'.data \in Seq(Byte)
    /\ op' = [kind |-> "put", ask |-> Len(op'.data), data |-> op'.data]
    /\ q' = q \o op'.data

\* Read, ReadByte and WriteTo hand out the oldest bytes, never more than
\* asked for and never fewer than are there.
Take ==
    LET n == Smaller(op'.ask, Len(q))
    IN  /\ op'.ask \in Nat
        /\ op' = [kind |-> "take", ask |-> op'.ask, data |-> Front(q, n)]
        /\ q' = Rest(q, n)

\* Discard consumes without handing out.
Drop ==
    LET n == Smaller(op'.ask, Len(q))
    IN  /\ op'.ask \in Nat
        /\ op' = [kind |-> "drop", ask |-> op'.ask, data |-> <<>>]
        /\ q' = Rest(q, n)

\* Peek and Bytes look and consume nothing; asking for 0 asks for all.
Look ==
    LET n == IF op'.ask = 0 THEN Len(q) ELSE Smaller(op'.ask, Len(q))
    IN  /\ op'.ask \in Nat
        /\ op' = [kind |-> "look", ask |-> op'.ask, data |-> Front(q, n)]
        /\ q' = q

\* Reset, and the return of the buffer to its pool.
Clear == q' = <<>> /\ op' = Idle

Next == Put \/ Take \/ Drop \/ Look \/ Clear

Spec == Init /\ [][Next]_vars
==============================================================================
