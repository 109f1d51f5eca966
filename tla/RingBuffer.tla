------------------------------ MODULE RingBuffer ------------------------------
(***************************************************************************)
(* The circular byte buffer of agonet: contribute/agonet/pkg/buffer/ring.  *)
(* A connection keeps the bytes its handler has not consumed in one.  The  *)
(* buffer has one owner (the event loop of its connection), so every       *)
(* method is one action; only ReadFrom is split, at its calls of the       *)
(* reader, because the reader decides how much each call delivers.         *)
(***************************************************************************)
EXTENDS Integers, Sequences

CONSTANTS
    Byte,                \* the values a byte can have
    Junk,                \* what a slot of a fresh slice holds
    DefaultBufferSize,   \* first allocation (1024 in the code)
    bufferGrowThreshold, \* from here grow adds quarters (4096 in the code)
    MinRead,             \* room ReadFrom wants before it calls the reader (512)
    MaxExp,              \* capacities are rounded up to 2^k, k <= MaxExp
    InitSizes,           \* arguments of New
    MaxAsk,              \* bound: the largest count passed to a method
    MaxBytes,            \* bound: the most bytes a buffer is made to hold
    ShortReads,          \* may a reader return less than it was offered room for?
    Refusals             \* may a writer refuse everything it is offered?

ASSUME SizeAssumption ==
    /\ DefaultBufferSize \in Nat \ {0}
    /\ bufferGrowThreshold \in Nat /\ bufferGrowThreshold >= 4
    /\ MinRead \in Nat \ {0}
    /\ MaxAsk \in Nat /\ MaxBytes \in Nat
    /\ InitSizes \subseteq 0..(MaxBytes + MinRead)
    /\ ShortReads \in BOOLEAN /\ Refusals \in BOOLEAN

\* The rounding has a power of two to round to (CeilToPowerOfTwo panics
\* otherwise, at 2^62).
ASSUME PowerAssumption ==
    /\ MaxExp \in Nat \ {0}
    /\ \A k \in 1..MaxExp : 2^k \in Nat \ {0}
    /\ 2^MaxExp >= MaxBytes + MinRead

ASSUME JunkAssumption == Junk \notin Byte

VARIABLES
    rb,     \* the Buffer: buf, size, r, w, isEmpty
    mode,   \* "idle", inside ReadFrom ("first" or "second" read), or "panicked"
    op      \* the last call and its result

vars == <<rb, mode, op>>

-------------------------------------------------------------------------------
(* Slices: buf[lo:hi], and copy(buf[at:], s) *)

Slice(buf, lo, hi) == [i \in 1..(hi - lo) |-> buf[lo + i - 1]]

Copy(buf, at, s) ==
    [k \in DOMAIN buf |-> IF k >= at /\ k < at + Len(s) THEN s[k - at + 1] ELSE buf[k]]

Lesser(a, b) == IF a < b THEN a ELSE b

-------------------------------------------------------------------------------
(* The methods as functions of the buffer *)

Buffered(b) ==
    IF b.r = b.w THEN IF b.isEmpty THEN 0 ELSE b.size
    ELSE IF b.w > b.r THEN b.w - b.r
    ELSE b.size - b.r + b.w

Available(b) ==
    IF b.r = b.w THEN IF b.isEmpty THEN b.size ELSE 0
    ELSE IF b.w < b.r THEN b.r - b.w
    ELSE b.size - b.w + b.r

\* Fresh slice of n slots from the byte-slice pool.
NewSlice(n) == [k \in 0..(n - 1) |-> Junk]

CeilToPowerOfTwo(n) ==
    CHOOSE p \in {2^k : k \in 1..MaxExp} :
        /\ p >= n
        /\ \A k \in 1..MaxExp : 2^k >= n => p <= 2^k

New(size) ==
    LET n == IF size = 0 THEN 0 ELSE CeilToPowerOfTwo(size)
    IN  [buf |-> NewSlice(n), size |-> n, r |-> 0, w |-> 0, isEmpty |-> TRUE]

Reset(b) == [b EXCEPT !.isEmpty = TRUE, !.r = 0, !.w = 0]

\* The two pieces Peek(n) returns, joined.
Peek(b, n) ==
    LET m == Lesser(n, Buffered(b))
    IN  IF b.isEmpty THEN <<>>
        ELSE IF b.w > b.r \/ b.r + m <= b.size THEN Slice(b.buf, b.r, b.r + m)
        ELSE Slice(b.buf, b.r, b.size) \o Slice(b.buf, 0, m - (b.size - b.r))

\* Mutant of PeekAll: forgets the part that wrapped.
PeekAllHeadOnly(b) == IF b.isEmpty THEN <<>> ELSE Slice(b.buf, b.r, b.size)

\* peekAll and Bytes.
PeekAll(b) ==
    IF b.isEmpty THEN <<>>
    ELSE IF b.w > b.r THEN Slice(b.buf, b.r, b.w)
    ELSE Slice(b.buf, b.r, b.size) \o Slice(b.buf, 0, b.w)

\* Mutant of AfterRead: forgets to rewind the emptied buffer.
AfterReadNoReset(b, n) == [b EXCEPT !.r = (b.r + n) % b.size]

\* The buffer after Read has read n > 0 of its bytes ...
AfterRead(b, n) ==
    LET r == IF b.w > b.r THEN b.r + n ELSE (b.r + n) % b.size
    IN  IF r = b.w THEN Reset(b) ELSE [b EXCEPT !.r = r]

\* ... after ReadByte ...
AfterReadByte(b) ==
    LET r == IF b.r + 1 = b.size THEN 0 ELSE b.r + 1
    IN  IF r = b.w THEN Reset(b) ELSE [b EXCEPT !.r = r]

\* ... after a writer accepted m of the bytes WriteTo offered: in one call, or
\* in two when they wrap, the second only after the first was accepted whole ...
AfterWriteTo(b, m) ==
    LET c1 == b.size - b.r
    IN  IF b.w > b.r \/ b.w = 0 THEN AfterRead(b, m)
        ELSE IF m < c1 THEN [b EXCEPT !.r = b.r + m]
        ELSE IF m - c1 = b.w THEN Reset(b)
        ELSE [b EXCEPT !.r = m - c1]

\* ... and after Discard(n), n > 0.
AfterDiscard(b, n) ==
    IF n < Buffered(b) THEN [b EXCEPT !.r = (b.r + n) % b.size] ELSE Reset(b)

\* grow's loop from n >= bufferGrowThreshold up to newCap <= 2n: at most four
\* additions of a quarter.
Quarter(n) == n + n \div 4

GrowByQuarters(n, newCap) ==
    LET q1 == Quarter(n)
        q2 == Quarter(q1)
        q3 == Quarter(q2)
        q4 == Quarter(q3)
    IN  CHOOSE c \in {n, q1, q2, q3, q4} :
            /\ c >= newCap
            /\ \A d \in {n, q1, q2, q3, q4} : d >= newCap => c <= d

GrownCap(n, newCap) ==
    IF n = 0
    THEN IF newCap <= DefaultBufferSize THEN DefaultBufferSize ELSE CeilToPowerOfTwo(newCap)
    ELSE IF newCap > n + n THEN newCap
    ELSE IF n < bufferGrowThreshold THEN n + n
    ELSE GrowByQuarters(n, newCap)

\* grow moves the bytes to the front of the new slice.
Grow(b, newCap) ==
    LET cap == GrownCap(b.size, newCap)
        len == Buffered(b)
    IN  [buf     |-> Copy(NewSlice(cap), 0, Peek(b, cap)),
         size    |-> cap,
         r       |-> 0,
         w       |-> len,
         isEmpty |-> len = 0]

\* Mutant of WrapW: leaves w at the end of the slice.
NoWrapW(w, size) == w

\* Where w goes when it reaches the end of the slice.
WrapW(w, size) == IF w = size THEN 0 ELSE w

Write(b, p) ==
    LET n    == Len(p)
        free == Available(b)
        g    == IF n > free THEN Grow(b, b.size + n - free) ELSE b
        c1   == g.size - g.w
        over == g.w >= g.r /\ c1 < n
    IN  [g EXCEPT !.buf     = IF over
                              THEN Copy(Copy(g.buf, g.w, SubSeq(p, 1, c1)), 0,
                                        SubSeq(p, c1 + 1, n))
                              ELSE Copy(g.buf, g.w, p),
                  !.w       = IF over THEN n - c1 ELSE WrapW(g.w + n, g.size),
                  !.isEmpty = FALSE]

-------------------------------------------------------------------------------
(* Calls *)

Called(kind, ask, data) == op' = [kind |-> kind, ask |-> ask, data |-> data]

Init ==
    /\ \E size \in InitSizes : rb = New(size)
    /\ mode = "idle"
    /\ op = [kind |-> "none", ask |-> 0, data |-> <<>>]

DoPeek(n) ==
    /\ mode = "idle"
    /\ Called("look", n, IF n = 0 THEN PeekAll(rb) ELSE Peek(rb, n))
    /\ UNCHANGED <<rb, mode>>

DoDiscard(n) ==
    /\ mode = "idle"
    /\ rb' = IF n = 0 THEN rb ELSE AfterDiscard(rb, n)
    /\ Called("drop", n, <<>>)
    /\ UNCHANGED mode

\* ErrIsEmpty is the empty result.
DoRead(n) ==
    /\ mode = "idle"
    /\ rb' = IF n = 0 \/ rb.isEmpty THEN rb ELSE AfterRead(rb, Lesser(n, Buffered(rb)))
    /\ Called("take", n, Peek(rb, n))
    /\ UNCHANGED mode

DoReadByte ==
    /\ mode = "idle"
    /\ rb' = IF rb.isEmpty THEN rb ELSE AfterReadByte(rb)
    /\ Called("take", 1, IF rb.isEmpty THEN <<>> ELSE <<rb.buf[rb.r]>>)
    /\ UNCHANGED mode

\* The writer accepts m of the bytes; less than all is io.ErrShortWrite or the
\* writer's own error.
DoWriteTo(m) ==
    /\ mode = "idle"
    /\ m <= Buffered(rb)
    /\ m > 0 \/ Refusals \/ rb.isEmpty
    /\ rb' = IF rb.isEmpty THEN rb ELSE AfterWriteTo(rb, m)
    /\ Called("take", m, Peek(rb, m))
    /\ UNCHANGED mode

DoWrite(p) ==
    /\ mode = "idle"
    /\ Buffered(rb) + Len(p) <= MaxBytes
    /\ rb' = IF p = <<>> THEN rb ELSE Write(rb, p)
    /\ Called("put", Len(p), p)
    /\ UNCHANGED mode

\* WriteByte grows a full buffer with grow(1); when that adds no slot, the
\* store is out of range and the method panics.
DoWriteByte(c) ==
    /\ mode = "idle"
    /\ Buffered(rb) < MaxBytes
    /\ LET g == IF Available(rb) < 1 THEN Grow(rb, 1) ELSE rb
       IN  IF g.w < g.size
           THEN /\ rb' = [g EXCEPT !.buf = Copy(g.buf, g.w, <<c>>),
                                   !.w = WrapW(g.w + 1, g.size),
                                   !.isEmpty = FALSE]
                /\ Called("put", 1, <<c>>)
                /\ UNCHANGED mode
           ELSE rb' = g /\ mode' = "panicked" /\ UNCHANGED op

DoReset ==
    /\ mode = "idle"
    /\ rb' = Reset(rb)
    /\ op' = [kind |-> "none", ask |-> 0, data |-> <<>>]
    /\ UNCHANGED mode

\* A connection whose handler panicked is closed and its buffer goes back to
\* the pool, which resets it for the next owner.
Release ==
    /\ mode = "panicked"
    /\ rb' = Reset(rb)
    /\ mode' = "idle"
    /\ op' = [kind |-> "none", ask |-> 0, data |-> <<>>]

-------------------------------------------------------------------------------
(* ReadFrom *)

\* A reader offered room for k bytes delivers p, and ends the stream or not.
\* Without ShortReads it fills the room or ends the stream, and it never ends
\* an empty stream into an empty buffer.
Delivers(p, k, ends, empty) ==
    /\ Len(p) <= k
    /\ Buffered(rb) + Len(p) <= MaxBytes
    /\ \/ ShortReads
       \/ Len(p) = k
       \/ ends /\ (Len(p) > 0 \/ ~empty)

\* One call of the reader into buf[at:at+k].
ReadInto(g, at, p) ==
    [g EXCEPT !.buf = Copy(g.buf, at, p),
              !.w = (g.w + Len(p)) % g.size]

ReadFromStart ==
    /\ mode = "idle"
    /\ mode' = "first"
    /\ UNCHANGED <<rb, op>>

\* The room ReadFrom makes before it reads.
Roomy(b) == IF Available(b) < MinRead THEN Grow(b, Buffered(b) + MinRead) ELSE b

\* Read into buf[w:] and go on with the second read, or into buf[w:r] and
\* loop.
ReadFromFirst(p, ends) ==
    LET g == Roomy(rb)
    IN  /\ mode = "first"
        /\ Delivers(p, (IF g.w >= g.r THEN g.size ELSE g.r) - g.w, ends, g.isEmpty)
        /\ rb' = [ReadInto(g, g.w, p) EXCEPT !.isEmpty = FALSE]
        /\ mode' = IF ends THEN "idle" ELSE IF g.w >= g.r THEN "second" ELSE "first"
        /\ Called("put", Len(p), p)

\* The second read goes to buf[:r] wherever w is.
ReadFromSecond(p, ends) ==
    /\ mode = "second"
    /\ Delivers(p, rb.r, ends, FALSE)
    /\ rb' = ReadInto(rb, 0, p)
    /\ mode' = IF ends THEN "idle" ELSE "first"
    /\ Called("put", Len(p), p)

-------------------------------------------------------------------------------
\* What is written: any sequence of up to MaxAsk bytes.
Chunks == UNION {[1..n -> Byte] : n \in 0..MaxAsk}

Call ==
    \/ \E n \in 0..MaxAsk : DoPeek(n)
    \/ \E n \in 0..MaxAsk : DoDiscard(n)
    \/ \E n \in 0..MaxAsk : DoRead(n)
    \/ DoReadByte
    \/ \E m \in 0..MaxAsk : DoWriteTo(m)
    \/ \E p \in Chunks : DoWrite(p)
    \/ \E c \in Byte : DoWriteByte(c)
    \/ DoReset
    \/ Release

ReadFrom ==
    \/ ReadFromStart
    \/ \E p \in Chunks, ends \in BOOLEAN : ReadFromFirst(p, ends)
    \/ \E p \in Chunks, ends \in BOOLEAN : ReadFromSecond(p, ends)

Next == Call \/ ReadFrom

Spec == Init /\ [][Next]_vars

-------------------------------------------------------------------------------
(* Properties *)

\* The bytes the buffer holds, oldest first.
Content == [i \in 1..Buffered(rb) |-> rb.buf[(rb.r + i - 1) % rb.size]]

\* A buffer as its methods leave it: both positions inside the slice, and an
\* empty buffer rewound to the front (Reset).
Valid(b) ==
    /\ b.size \in Nat
    /\ b.buf \in [0..(b.size - 1) -> Byte \cup {Junk}]
    /\ b.isEmpty \in BOOLEAN
    /\ b.size = 0 => b.isEmpty
    /\ b.r \in Nat /\ b.w \in Nat
    /\ b.size > 0 => b.r < b.size /\ b.w < b.size
    /\ b.isEmpty => b.r = 0 /\ b.w = 0

\* Type invariant, with the bounds on r and w every slice expression needs.
TypeOK ==
    /\ mode \in {"idle", "first", "second", "panicked"}
    /\ rb = [buf |-> rb.buf, size |-> rb.size, r |-> rb.r, w |-> rb.w,
             isEmpty |-> rb.isEmpty]
    /\ mode # "panicked" => Valid(rb)

\* What Buffered and Available say adds up to the capacity, and no slot that
\* counts as holding a byte is one nobody wrote: readers never see Junk.
NoJunkIsReadable ==
    mode # "panicked" =>
        /\ Buffered(rb) + Available(rb) = rb.size
        /\ \A i \in 1..Buffered(rb) : Content[i] \in Byte

\* The buffer implements the unbounded first-in first-out queue: every method
\* returns and removes the bytes the queue would, growing included.
Queue == INSTANCE ByteQueue WITH q <- Content, op <- op
ImplementsQueue == Queue!Spec

\* The ring buffer is a queue of bytes: any calls in any order, through wrapping
\* and growth, return what was written and nothing else (ring.Buffer).
RingIsQueue == ImplementsQueue /\ [](TypeOK /\ NoJunkIsReadable)
==============================================================================
