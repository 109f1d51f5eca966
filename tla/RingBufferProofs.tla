--------------------------- MODULE RingBufferProofs ---------------------------
(***************************************************************************)
(* The ring buffer implements the unbounded queue of bytes.  Each method   *)
(* is a lemma about what it does to Held, the bytes a buffer holds; the    *)
(* theorem puts them together, action by action.                           *)
(***************************************************************************)
EXTENDS RingBuffer, Facts

Slot == Byte \cup {Junk}
Rings == [buf : UNION {[0..(n - 1) -> Slot] : n \in Nat}, size : Nat, r : Nat, w : Nat,
          isEmpty : BOOLEAN]

Empty(b) == b.isEmpty = TRUE

\* Valid, with the flag's two values told apart.
Sound(b) ==
    /\ b \in Rings /\ b.buf \in [0..(b.size - 1) -> Slot]
    /\ Empty(b) => b.r = 0 /\ b.w = 0
    /\ ~Empty(b) => b.r < b.size /\ b.w < b.size

\* Where the i-th byte from a position is, around the end of the slice.
Around(at, i, size) == IF at + i - 1 < size THEN at + i - 1 ELSE at + i - 1 - size

\* The bytes a buffer holds, oldest first.
Held(b) == [i \in 1..Buffered(b) |-> b.buf[(b.r + i - 1) % b.size]]

-------------------------------------------------------------------------------
(* What a sound buffer holds *)

\* The flag has two values.
LEMMA NotEmpty ==
    ASSUME NEW b, b \in Rings
    PROVE  ~Empty(b) <=> b.isEmpty = FALSE
BY Zenon DEF Rings, Empty

\* Buffered and Available, without the flag.
LEMMA Counts ==
    ASSUME NEW b, Sound(b)
    PROVE  /\ b.size \in Nat /\ b.r \in Nat /\ b.w \in Nat
           /\ Empty(b) => Buffered(b) = 0
           /\ ~Empty(b) =>
                /\ b.w > b.r => Buffered(b) = b.w - b.r
                /\ b.w <= b.r => Buffered(b) = b.size - b.r + b.w
                /\ Buffered(b) > 0
           /\ Buffered(b) \in 0..b.size /\ Buffered(b) + Available(b) = b.size
<1>1. b.size \in Nat /\ b.r \in Nat /\ b.w \in Nat
  BY DEF Sound, Rings
<1>2. CASE Empty(b)
  <2>1. b.r = 0 /\ b.w = 0
    BY <1>2 DEF Sound
  <2>2. Buffered(b) = 0 /\ Available(b) = b.size
    <3>1. b.isEmpty
      BY <1>2 DEF Empty
    <3> QED BY <2>1, <3>1, Zenon DEF Buffered, Available
  <2> QED BY <1>1, <1>2, <2>1, <2>2
<1>3. CASE ~Empty(b)
  <2>1. b.r < b.size /\ b.w < b.size
    BY <1>3 DEF Sound
  <2>2. /\ Buffered(b) = IF b.r = b.w THEN b.size
                         ELSE IF b.w > b.r THEN b.w - b.r ELSE b.size - b.r + b.w
        /\ Available(b) = IF b.r = b.w THEN 0
                          ELSE IF b.w < b.r THEN b.r - b.w ELSE b.size - b.w + b.r
    <3>1. ~b.isEmpty
      BY <1>3, NotEmpty, Zenon DEF Sound
    <3> QED BY <3>1, Zenon DEF Buffered, Available
  <2> QED BY <1>1, <1>3, <2>1, <2>2
<1> QED BY <1>2, <1>3

\* The division with remainder by which positions wrap.
LEMMA Wraps ==
    ASSUME NEW size \in Nat, NEW at \in Nat, NEW i \in Nat, i > 0, at < size, i <= size
    PROVE  /\ (at + i - 1) % size = Around(at, i, size)
           /\ Around(at, i, size) \in 0..(size - 1)
<1>1. CASE at + i - 1 < size
  <2>1. at + i - 1 \in Nat
    OBVIOUS
  <2>2. (at + i - 1) % size = at + i - 1
    BY <1>1, <2>1
  <2> QED BY <1>1, <2>1, <2>2 DEF Around
<1>2. CASE ~(at + i - 1 < size)
  <2>1. at + i - 1 \in Nat /\ size <= at + i - 1 /\ at + i - 1 < 2 * size
    BY <1>2
  <2>2. (at + i - 1) % size = at + i - 1 - size
    BY <2>1
  <2> QED BY <1>2, <2>1, <2>2 DEF Around
<1> QED BY <1>1, <1>2

\* What is held, position by position.
LEMMA HeldAt ==
    ASSUME NEW b, Sound(b)
    PROVE  /\ Held(b) \in Seq(Slot) /\ Len(Held(b)) = Buffered(b)
           /\ \A i \in 1..Buffered(b) :
                /\ Around(b.r, i, b.size) \in 0..(b.size - 1)
                /\ Held(b)[i] = b.buf[Around(b.r, i, b.size)]
<1>1. b.size \in Nat /\ b.r \in Nat /\ Buffered(b) \in 0..b.size
  BY Counts
<1>2. ASSUME NEW i \in 1..Buffered(b)
      PROVE  /\ (b.r + i - 1) % b.size = Around(b.r, i, b.size)
             /\ Around(b.r, i, b.size) \in 0..(b.size - 1)
  <2>1. ~Empty(b)
    BY <1>2, Counts
  <2>2. b.r < b.size
    BY <2>1 DEF Sound
  <2>3. i \in Nat /\ i > 0 /\ i <= b.size
    BY <1>1
  <2> QED BY <1>1, <2>2, <2>3, Wraps
<1>3. \A i \in 1..Buffered(b) : Held(b)[i] = b.buf[Around(b.r, i, b.size)]
  BY <1>2 DEF Held
<1>4. \A i \in 1..Buffered(b) : Held(b)[i] \in Slot
  BY <1>2, <1>3 DEF Sound
<1>5. Held(b) \in [1..Buffered(b) -> Slot]
  BY <1>4 DEF Held
<1>6. Held(b) \in Seq(Slot) /\ Len(Held(b)) = Buffered(b)
  BY <1>1, <1>5
<1> QED BY <1>2, <1>3, <1>6

-------------------------------------------------------------------------------
(* Consuming *)

\* A buffer with the same slice whose first byte is the old one's m + 1st.
LEMMA Dropped ==
    ASSUME NEW b, NEW c, Sound(b), Sound(c), c.buf = b.buf, NEW m \in Nat,
           m <= Buffered(b), Buffered(c) = Buffered(b) - m,
           \A i \in 1..Buffered(c) : Around(c.r, i, c.size) = Around(b.r, m + i, b.size)
    PROVE  Held(c) = SubSeq(Held(b), m + 1, Len(Held(b)))
<1> DEFINE s == SubSeq(Held(b), m + 1, Len(Held(b)))
<1>1. Buffered(b) \in Nat /\ Buffered(c) \in Nat
  BY Counts
<1>2. /\ Held(b) \in Seq(Slot) /\ Len(Held(b)) = Buffered(b)
      /\ Held(c) \in Seq(Slot) /\ Len(Held(c)) = Buffered(c)
  BY HeldAt
<1>3. s \in Seq(Slot) /\ Len(s) = Buffered(c) /\ \A i \in 1..Buffered(c) : s[i] = Held(b)[m + i]
  <2> DEFINE h == Held(b)
  <2> HIDE DEF h
  <2>1. h \in Seq(Slot) /\ Len(h) = Buffered(b)
    BY <1>2 DEF h
  <2>2. SubSeq(h, m + 1, Len(h)) \in Seq(Slot) /\ Len(SubSeq(h, m + 1, Len(h))) = Len(h) - m
    BY <1>1, <2>1
  <2>3. \A i \in 1..(Len(h) - m) : SubSeq(h, m + 1, Len(h))[i] = h[m + i]
    BY <1>1, <2>1
  <2> QED BY <1>1, <2>1, <2>2, <2>3 DEF h
<1> HIDE DEF s
<1>4. ASSUME NEW i \in 1..Buffered(c) PROVE Held(c)[i] = s[i]
  <2>1. m + i \in 1..Buffered(b)
    BY <1>1
  <2>2. Held(c)[i] = c.buf[Around(c.r, i, c.size)] /\ Held(b)[m + i] = b.buf[Around(b.r, m + i, b.size)]
    BY <2>1, HeldAt
  <2> QED BY <1>3, <2>2
<1>5. Held(c) = s
  BY <1>2, <1>3, <1>4, SeqEqual
<1> QED BY <1>5 DEF s

\* Reset leaves a sound and empty buffer.
LEMMA ResetSound ==
    ASSUME NEW b, b \in Rings, b.buf \in [0..(b.size - 1) -> Slot]
    PROVE  Sound(Reset(b)) /\ Held(Reset(b)) = <<>> /\ Empty(Reset(b))
           /\ Reset(b).size = b.size /\ Reset(b).buf = b.buf
<1>1. /\ Reset(b).isEmpty = TRUE /\ Reset(b).r = 0 /\ Reset(b).w = 0
      /\ Reset(b).buf = b.buf /\ Reset(b).size = b.size
      /\ Reset(b) \in Rings
  BY DEF Reset, Rings
<1>2. Sound(Reset(b))
  BY <1>1 DEF Sound, Empty
<1>3. Buffered(Reset(b)) = 0
  BY <1>1, <1>2, Counts DEF Empty
<1>4. Held(Reset(b)) = <<>>
  BY <1>3, <1>2, HeldAt
<1> QED BY <1>1, <1>2, <1>4 DEF Empty

\* The read position moves on by m < Buffered bytes, around the end.
LEMMA Advanced ==
    ASSUME NEW b, Sound(b), NEW m \in Nat, m < Buffered(b)
    PROVE  LET c == [b EXCEPT !.r = Around(b.r, m + 1, b.size)]
           IN  Sound(c) /\ Held(c) = SubSeq(Held(b), m + 1, Len(Held(b))) /\ ~Empty(c)
<1> DEFINE x == Around(b.r, m + 1, b.size)
           c == [b EXCEPT !.r = x]
<1>1. ~Empty(b) /\ b.size \in Nat /\ b.r \in Nat /\ b.w \in Nat /\ Buffered(b) \in 0..b.size
  BY Counts
<1>2. b.r < b.size /\ b.w < b.size
  BY <1>1 DEF Sound
<1>3. x \in Nat /\ x < b.size
  <2>1. m + 1 \in Nat /\ m + 1 > 0 /\ m + 1 <= b.size
    BY <1>1
  <2>2. x \in 0..(b.size - 1)
    BY <1>1, <1>2, <2>1, Wraps
  <2> HIDE DEF x
  <2> QED BY <1>1, <2>2
<1>4. /\ c.r = x /\ c.buf = b.buf /\ c.size = b.size /\ c.w = b.w /\ ~Empty(c)
      /\ c \in Rings
  <2> HIDE DEF x
  <2>1. b \in Rings
    BY DEF Sound
  <2>2. /\ c.r = x /\ c.buf = b.buf /\ c.size = b.size /\ c.w = b.w /\ c.isEmpty = b.isEmpty
        /\ c \in Rings
    BY <1>3, <2>1 DEF Rings
  <2> HIDE DEF c
  <2> QED BY <1>1, <2>2, Zenon DEF Empty
<1> HIDE DEF c
<1>5. Sound(c)
  BY <1>1, <1>2, <1>3, <1>4 DEF Sound
<1>6. Buffered(c) = Buffered(b) - m
  <2>1. /\ b.w > b.r => Buffered(b) = b.w - b.r
        /\ b.w <= b.r => Buffered(b) = b.size - b.r + b.w
        /\ b.w > x => Buffered(c) = b.w - x
        /\ b.w <= x => Buffered(c) = b.size - x + b.w
    BY <1>1, <1>4, <1>5, Counts
  <2> QED BY <1>1, <1>2, <1>3, <2>1 DEF Around
<1>7. ASSUME NEW i \in 1..Buffered(c) PROVE Around(c.r, i, c.size) = Around(b.r, m + i, b.size)
  <2>1. i \in Nat /\ i > 0 /\ m + i <= b.size
    BY <1>1, <1>6
  <2> QED BY <1>1, <1>2, <1>3, <1>4, <2>1 DEF Around
<1>8. Held(c) = SubSeq(Held(b), m + 1, Len(Held(b)))
  BY <1>1, <1>4, <1>5, <1>6, <1>7, Dropped, SMTT(30)
<1> QED BY <1>4, <1>5, <1>8 DEF c

\* The buffer after m of its bytes were consumed, on every path: emptied and
\* rewound, or moved on.
LEMMA Consumed ==
    ASSUME NEW b, Sound(b), NEW m \in Nat, 0 < m, m <= Buffered(b), NEW c,
           m = Buffered(b) => c = Reset(b),
           m < Buffered(b) => c = [b EXCEPT !.r = Around(b.r, m + 1, b.size)]
    PROVE  Sound(c) /\ Held(c) = SubSeq(Held(b), m + 1, Len(Held(b)))
<1>1. Buffered(b) \in Nat /\ Held(b) \in Seq(Slot) /\ Len(Held(b)) = Buffered(b)
  BY Counts, HeldAt
<1>2. CASE m = Buffered(b)
  <2>1. SubSeq(Held(b), m + 1, Len(Held(b))) = <<>>
    BY <1>1, <1>2
  <2> QED BY <1>2, <2>1, ResetSound DEF Sound
<1>3. CASE m < Buffered(b)
  BY <1>3, Advanced
<1> QED BY <1>1, <1>2, <1>3

\* Read consumes m bytes.
LEMMA ReadConsumes ==
    ASSUME NEW b, Sound(b), NEW m \in Nat, 0 < m, m <= Buffered(b)
    PROVE  Sound(AfterRead(b, m)) /\ Held(AfterRead(b, m)) = SubSeq(Held(b), m + 1, Len(Held(b)))
<1> DEFINE x == IF b.w > b.r THEN b.r + m ELSE (b.r + m) % b.size
<1>1. ~Empty(b) /\ b.size \in Nat /\ b.r \in Nat /\ b.w \in Nat /\ Buffered(b) \in 0..b.size
  BY Counts
<1>2. b.r < b.size /\ b.w < b.size
  BY <1>1 DEF Sound
<1>3. /\ b.w > b.r => Buffered(b) = b.w - b.r
      /\ b.w <= b.r => Buffered(b) = b.size - b.r + b.w
  BY <1>1, Counts
<1>4. (b.r + m) % b.size = Around(b.r, m + 1, b.size) \/ m = b.size
  <2>1. CASE m < b.size
    <3>1. m + 1 \in Nat /\ m + 1 > 0 /\ m + 1 <= b.size /\ b.r + (m + 1) - 1 = b.r + m
      BY <1>1, <2>1
    <3> QED BY <1>1, <1>2, <3>1, Wraps
  <2> QED BY <1>1, <2>1
<1>5. m = b.size => (b.r + m) % b.size = b.r
  BY <1>1, <1>2
<1>6. /\ m = Buffered(b) <=> x = b.w
      /\ m < Buffered(b) => x = Around(b.r, m + 1, b.size)
  <2>1. CASE b.w > b.r
    BY <1>1, <1>2, <1>3, <2>1 DEF Around
  <2>2. CASE b.w <= b.r
    <3> DEFINE y == (b.r + m) % b.size
    <3>1. x = y
      BY <1>1, <2>2
    <3> HIDE DEF y, x
    <3>2. y = Around(b.r, m + 1, b.size) \/ (m = b.size /\ y = b.r)
      BY <1>4, <1>5 DEF y
    <3> QED BY <1>1, <1>2, <1>3, <2>2, <3>1, <3>2 DEF Around
  <2> QED BY <1>1, <2>1, <2>2
<1>7. AfterRead(b, m) = IF x = b.w THEN Reset(b) ELSE [b EXCEPT !.r = x]
  BY DEF AfterRead
<1> HIDE DEF x
<1>8. /\ m = Buffered(b) => AfterRead(b, m) = Reset(b)
      /\ m < Buffered(b) => AfterRead(b, m) = [b EXCEPT !.r = Around(b.r, m + 1, b.size)]
  BY <1>1, <1>6, <1>7
<1> QED BY <1>8, Consumed

\* ReadByte consumes one.
LEMMA ReadByteConsumes ==
    ASSUME NEW b, Sound(b), ~Empty(b)
    PROVE  /\ Sound(AfterReadByte(b))
           /\ Held(AfterReadByte(b)) = SubSeq(Held(b), 2, Len(Held(b)))
           /\ Buffered(b) > 0 /\ b.buf[b.r] = Held(b)[1]
<1> DEFINE x == IF b.r + 1 = b.size THEN 0 ELSE b.r + 1
<1>1. b.size \in Nat /\ b.r \in Nat /\ b.w \in Nat /\ Buffered(b) \in 0..b.size /\ Buffered(b) > 0
  BY Counts
<1>2. b.r < b.size /\ b.w < b.size
  BY DEF Sound
<1>3. /\ b.w > b.r => Buffered(b) = b.w - b.r
      /\ b.w <= b.r => Buffered(b) = b.size - b.r + b.w
  BY Counts
<1>4. x = Around(b.r, 2, b.size) /\ (1 = Buffered(b) <=> x = b.w)
  BY <1>1, <1>2, <1>3 DEF Around
<1>5. AfterReadByte(b) = IF x = b.w THEN Reset(b) ELSE [b EXCEPT !.r = x]
  BY DEF AfterReadByte
<1> HIDE DEF x
<1>6. /\ 1 = Buffered(b) => AfterReadByte(b) = Reset(b)
      /\ 1 < Buffered(b) => AfterReadByte(b) = [b EXCEPT !.r = Around(b.r, 1 + 1, b.size)]
  BY <1>1, <1>4, <1>5
<1>7. Sound(AfterReadByte(b)) /\ Held(AfterReadByte(b)) = SubSeq(Held(b), 1 + 1, Len(Held(b)))
  <2> DEFINE c == AfterReadByte(b)
  <2>1. /\ 1 \in Nat /\ 0 < 1 /\ 1 <= Buffered(b)
        /\ 1 = Buffered(b) => c = Reset(b)
        /\ 1 < Buffered(b) => c = [b EXCEPT !.r = Around(b.r, 1 + 1, b.size)]
    BY <1>1, <1>6
  <2> HIDE DEF c
  <2>2. Sound(c) /\ Held(c) = SubSeq(Held(b), 1 + 1, Len(Held(b)))
    BY <2>1, Consumed, Zenon
  <2> QED BY <2>2 DEF c
<1>8. Held(b)[1] = b.buf[Around(b.r, 1, b.size)] /\ Around(b.r, 1, b.size) = b.r
  BY <1>1, <1>2, HeldAt DEF Around
<1> QED BY <1>1, <1>7, <1>8

\* WriteTo consumes the m bytes the writer accepted, in one piece or two.
LEMMA WriteToConsumes ==
    ASSUME NEW b, Sound(b), NEW m \in Nat, 0 < m, m <= Buffered(b)
    PROVE  Sound(AfterWriteTo(b, m)) /\ Held(AfterWriteTo(b, m)) = SubSeq(Held(b), m + 1, Len(Held(b)))
<1>1. ~Empty(b) /\ b.size \in Nat /\ b.r \in Nat /\ b.w \in Nat /\ Buffered(b) \in 0..b.size
  BY Counts
<1>2. b.r < b.size /\ b.w < b.size
  BY <1>1 DEF Sound
<1>3. CASE b.w > b.r \/ b.w = 0
  BY <1>3, ReadConsumes DEF AfterWriteTo
<1>4. CASE ~(b.w > b.r \/ b.w = 0)
  <2>1. Buffered(b) = b.size - b.r + b.w
    BY <1>1, <1>4, Counts
  <2>2. AfterWriteTo(b, m) = IF m < b.size - b.r THEN [b EXCEPT !.r = b.r + m]
                             ELSE IF m - (b.size - b.r) = b.w THEN Reset(b)
                             ELSE [b EXCEPT !.r = m - (b.size - b.r)]
    BY <1>4 DEF AfterWriteTo
  <2>3. m < b.size - b.r => Around(b.r, m + 1, b.size) = b.r + m /\ m < Buffered(b)
    BY <1>1, <1>2, <1>4, <2>1 DEF Around
  <2>4. ~(m < b.size - b.r) =>
            /\ Around(b.r, m + 1, b.size) = m - (b.size - b.r)
            /\ m - (b.size - b.r) = b.w <=> m = Buffered(b)
    BY <1>1, <1>2, <1>4, <2>1 DEF Around
  <2>5. /\ m = Buffered(b) => AfterWriteTo(b, m) = Reset(b)
        /\ m < Buffered(b) => AfterWriteTo(b, m) = [b EXCEPT !.r = Around(b.r, m + 1, b.size)]
    BY <1>1, <2>2, <2>3, <2>4
  <2> QED BY <2>5, Consumed
<1> QED BY <1>3, <1>4

\* Discard consumes n bytes, or all of them.
LEMMA DiscardConsumes ==
    ASSUME NEW b, Sound(b), NEW n \in Nat, 0 < n
    PROVE  /\ Sound(AfterDiscard(b, n))
           /\ Held(AfterDiscard(b, n)) = SubSeq(Held(b), Lesser(n, Buffered(b)) + 1, Len(Held(b)))
<1>1. b.size \in Nat /\ b.r \in Nat /\ Buffered(b) \in 0..b.size
  BY Counts
<1>2. CASE n < Buffered(b)
  <2>1. ~Empty(b)
    BY <1>2, Counts
  <2>2. b.r < b.size
    BY <2>1 DEF Sound
  <2>3. n + 1 \in Nat /\ n + 1 > 0 /\ n + 1 <= b.size /\ b.r + (n + 1) - 1 = b.r + n
    BY <1>1, <1>2
  <2>4. (b.r + n) % b.size = Around(b.r, n + 1, b.size)
    BY <1>1, <2>2, <2>3, Wraps
  <2>5. AfterDiscard(b, n) = [b EXCEPT !.r = Around(b.r, n + 1, b.size)]
    BY <1>2, <2>4 DEF AfterDiscard
  <2>6. Lesser(n, Buffered(b)) = n
    BY <1>2 DEF Lesser
  <2> QED BY <1>2, <2>5, <2>6, Advanced
<1>3. CASE ~(n < Buffered(b))
  <2>1. AfterDiscard(b, n) = Reset(b) /\ Lesser(n, Buffered(b)) = Buffered(b)
    BY <1>3 DEF AfterDiscard, Lesser
  <2>2. Held(b) \in Seq(Slot) /\ Len(Held(b)) = Buffered(b)
    BY HeldAt
  <2>3. SubSeq(Held(b), Buffered(b) + 1, Len(Held(b))) = <<>>
    BY <1>1, <2>2
  <2> QED BY <2>1, <2>3, ResetSound DEF Sound
<1> QED BY <1>2, <1>3

-------------------------------------------------------------------------------
(* Looking *)

\* A piece of the slice.
LEMMA SliceAt ==
    ASSUME NEW buf, NEW lo \in Nat, NEW hi \in Nat, lo <= hi,
           \A k \in lo..(hi - 1) : buf[k] \in Slot
    PROVE  /\ Slice(buf, lo, hi) \in Seq(Slot) /\ Len(Slice(buf, lo, hi)) = hi - lo
           /\ \A i \in 1..(hi - lo) : Slice(buf, lo, hi)[i] = buf[lo + i - 1]
<1>1. hi - lo \in Nat
  OBVIOUS
<1>2. \A i \in 1..(hi - lo) : lo + i - 1 \in lo..(hi - 1)
  OBVIOUS
<1>3. Slice(buf, lo, hi) \in [1..(hi - lo) -> Slot]
  BY <1>2 DEF Slice
<1>4. Slice(buf, lo, hi) \in Seq(Slot) /\ Len(Slice(buf, lo, hi)) = hi - lo
  BY <1>1, <1>3
<1> QED BY <1>4 DEF Slice

\* The first m bytes from the read position, in one piece or two.
LEMMA Pieces ==
    ASSUME NEW b, Sound(b), ~Empty(b), NEW m \in Nat, m <= Buffered(b)
    PROVE  /\ b.r + m <= b.size => Slice(b.buf, b.r, b.r + m) = SubSeq(Held(b), 1, m)
           /\ b.r + m > b.size =>
                Slice(b.buf, b.r, b.size) \o Slice(b.buf, 0, m - (b.size - b.r))
                    = SubSeq(Held(b), 1, m)
<1>1. b.size \in Nat /\ b.r \in Nat /\ b.w \in Nat /\ Buffered(b) \in 0..b.size
  BY Counts
<1>2. b.r < b.size
  BY DEF Sound
<1>3. \A k \in 0..(b.size - 1) : b.buf[k] \in Slot
  BY DEF Sound
<1> DEFINE h == SubSeq(Held(b), 1, m)
<1>4. h \in Seq(Slot) /\ Len(h) = m /\ \A i \in 1..m : h[i] = b.buf[Around(b.r, i, b.size)]
  <2>1. Held(b) \in Seq(Slot) /\ Len(Held(b)) = Buffered(b)
    BY HeldAt
  <2>2. h \in Seq(Slot) /\ Len(h) = m /\ \A i \in 1..m : h[i] = Held(b)[i]
    BY <1>1, <2>1
  <2>3. \A i \in 1..m : i \in 1..Buffered(b)
    BY <1>1
  <2> QED BY <2>2, <2>3, HeldAt
<1> HIDE DEF h
<1>5. CASE b.r + m <= b.size
  <2> DEFINE s == Slice(b.buf, b.r, b.r + m)
  <2>1. b.r + m \in Nat /\ b.r <= b.r + m /\ \A k \in b.r..(b.r + m - 1) : k \in 0..(b.size - 1)
    BY <1>1, <1>5
  <2>2. s \in Seq(Slot) /\ Len(s) = m /\ \A i \in 1..m : s[i] = b.buf[b.r + i - 1]
    <3> DEFINE hi == b.r + m
    <3>1. hi \in Nat /\ b.r <= hi /\ hi <= b.size /\ hi - b.r = m
      BY <1>1, <1>5
    <3>2. s = Slice(b.buf, b.r, hi)
      OBVIOUS
    <3> HIDE DEF hi, s
    <3>3. ASSUME NEW k \in b.r..(hi - 1) PROVE b.buf[k] \in Slot
      <4>1. k \in 0..(b.size - 1)
        BY <1>1, <3>1
      <4> QED BY <1>3, <4>1
    <3>4. /\ s \in Seq(Slot) /\ Len(s) = hi - b.r
          /\ \A i \in 1..(hi - b.r) : s[i] = b.buf[b.r + i - 1]
      <4>1. \A k \in b.r..(hi - 1) : b.buf[k] \in Slot
        BY <3>3
      <4>2. /\ Slice(b.buf, b.r, hi) \in Seq(Slot) /\ Len(Slice(b.buf, b.r, hi)) = hi - b.r
            /\ \A i \in 1..(hi - b.r) : Slice(b.buf, b.r, hi)[i] = b.buf[b.r + i - 1]
        <5> DEFINE lo == b.r
                   buf == b.buf
        <5>1. lo \in Nat /\ hi \in Nat /\ lo <= hi /\ \A k \in lo..(hi - 1) : buf[k] \in Slot
          BY <1>1, <3>1, <4>1
        <5> HIDE DEF lo, buf
        <5>2. /\ Slice(buf, lo, hi) \in Seq(Slot) /\ Len(Slice(buf, lo, hi)) = hi - lo
              /\ \A i \in 1..(hi - lo) : Slice(buf, lo, hi)[i] = buf[lo + i - 1]
          BY <5>1, SliceAt, Zenon
        <5> QED BY <5>2 DEF lo, buf
      <4> QED BY <3>2, <4>2, Zenon
    <3> QED BY <3>1, <3>4
  <2> HIDE DEF s
  <2>3. \A i \in 1..m : b.r + i - 1 = Around(b.r, i, b.size)
    BY <1>1, <1>5 DEF Around
  <2>4. s = h
    BY <1>4, <2>2, <2>3, SeqEqual
  <2> QED BY <1>5, <1>1, <2>4 DEF s, h
<1>6. CASE b.r + m > b.size
  <2> DEFINE s == Slice(b.buf, b.r, b.size)
             t == Slice(b.buf, 0, m - (b.size - b.r))
             n == b.size - b.r
  <2>1. n \in Nat /\ n > 0 /\ n < m /\ m - n \in Nat /\ m - n <= b.size
    BY <1>1, <1>2, <1>6
  <2>2. s \in Seq(Slot) /\ Len(s) = n /\ \A i \in 1..n : s[i] = b.buf[b.r + i - 1]
    <3>1. \A k \in b.r..(b.size - 1) : b.buf[k] \in Slot
      BY <1>1, <1>3
    <3>2. b.r <= b.size
      BY <1>1, <1>2
    <3> QED BY <1>1, <3>1, <3>2, SliceAt, Zenon
  <2>3. t \in Seq(Slot) /\ Len(t) = m - n /\ \A i \in 1..(m - n) : t[i] = b.buf[i - 1]
    <3>1. \A k \in 0..((m - n) - 1) : k \in 0..(b.size - 1)
      BY <1>1, <2>1
    <3>2. /\ t \in Seq(Slot) /\ Len(t) = (m - n) - 0
          /\ \A i \in 1..((m - n) - 0) : t[i] = b.buf[0 + i - 1]
      <4> DEFINE k == m - n
      <4>1. \A j \in 0..(k - 1) : b.buf[j] \in Slot
        BY <1>3, <3>1
      <4>2. k \in Nat /\ 0 <= k /\ 0 \in Nat
        BY <2>1
      <4> HIDE DEF k
      <4>3. /\ Slice(b.buf, 0, k) \in Seq(Slot) /\ Len(Slice(b.buf, 0, k)) = k - 0
            /\ \A i \in 1..(k - 0) : Slice(b.buf, 0, k)[i] = b.buf[0 + i - 1]
        BY <4>1, <4>2, SliceAt, ZenonT(30)
      <4> QED BY <4>3 DEF k
    <3> HIDE DEF n, t
    <3>3. (m - n) - 0 = m - n /\ \A i \in 1..(m - n) : 0 + i - 1 = i - 1
      BY <2>1
    <3> QED BY <3>2, <3>3
  <2>4. /\ \A i \in 1..n : b.r + i - 1 = Around(b.r, i, b.size)
        /\ \A i \in (n + 1)..m : i - n \in 1..(m - n) /\ (i - n) - 1 = Around(b.r, i, b.size)
    BY <1>1, <1>2, <2>1 DEF Around
  <2> HIDE DEF s, t, n
  <2>5. s \o t \in Seq(Slot) /\ Len(s \o t) = m
    <3>1. s \o t \in Seq(Slot) /\ Len(s \o t) = Len(s) + Len(t)
      BY <2>2, <2>3, ConcatAt
    <3> QED BY <2>1, <2>2, <2>3, <3>1
  <2>6. ASSUME NEW i \in 1..m PROVE (s \o t)[i] = h[i]
    <3>1. CASE i <= n
      <4>1. i \in 1..n
        BY <2>1, <3>1
      <4>2. (s \o t)[i] = s[i]
        BY <2>2, <2>3, <4>1, ConcatAt
      <4> QED BY <1>4, <2>2, <2>4, <4>1, <4>2
    <3>2. CASE i > n
      <4>1. i \in (n + 1)..m
        BY <2>1, <3>2
      <4>2. i - n \in 1..(m - n) /\ n + (i - n) = i
        BY <2>1, <4>1
      <4>3. (s \o t)[i] = t[i - n]
        BY <2>2, <2>3, <4>2, ConcatAt
      <4>4. t[i - n] = b.buf[Around(b.r, i, b.size)]
        BY <2>3, <2>4, <4>1, <4>2
      <4>5. i \in 1..m
        OBVIOUS
      <4> QED BY <1>4, <4>3, <4>4, <4>5
    <3>3. i <= n \/ i > n
      BY <2>1
    <3> QED BY <3>1, <3>2, <3>3
  <2>7. s \o t = h
    BY <1>4, <2>5, <2>6, SeqEqual
  <2> QED BY <1>6, <1>1, <2>7, SMTT(30) DEF s, t, h, n
<1> QED BY <1>1, <1>5, <1>6 DEF h

\* Peek shows the first bytes, PeekAll all of them.
LEMMA PeekShows ==
    ASSUME NEW b, Sound(b), NEW n \in Nat
    PROVE  /\ Peek(b, n) = SubSeq(Held(b), 1, Lesser(n, Buffered(b)))
           /\ PeekAll(b) = SubSeq(Held(b), 1, Buffered(b))
<1> DEFINE m == Lesser(n, Buffered(b))
<1>1. b.size \in Nat /\ b.r \in Nat /\ b.w \in Nat /\ Buffered(b) \in 0..b.size
      /\ Held(b) \in Seq(Slot) /\ Len(Held(b)) = Buffered(b)
  BY Counts, HeldAt
<1>2. m \in Nat /\ m <= Buffered(b)
  BY <1>1 DEF Lesser
<1> HIDE DEF m
<1>3. CASE Empty(b)
  <2>1. Peek(b, n) = <<>> /\ PeekAll(b) = <<>>
    <3>1. b.isEmpty
      BY <1>3 DEF Empty
    <3> QED BY <3>1, Zenon DEF Peek, PeekAll
  <2>2. Buffered(b) = 0 /\ m = 0
    BY <1>1, <1>2, <1>3, Counts
  <2>3. SubSeq(Held(b), 1, 0) = <<>>
    BY <1>1
  <2> QED BY <2>1, <2>2, <2>3 DEF m
<1>4. CASE ~Empty(b)
  <2>1. /\ Peek(b, n) = IF b.w > b.r \/ b.r + m <= b.size THEN Slice(b.buf, b.r, b.r + m)
                        ELSE Slice(b.buf, b.r, b.size) \o Slice(b.buf, 0, m - (b.size - b.r))
        /\ PeekAll(b) = IF b.w > b.r THEN Slice(b.buf, b.r, b.w)
                        ELSE Slice(b.buf, b.r, b.size) \o Slice(b.buf, 0, b.w)
    <3>1. ~b.isEmpty
      BY <1>4, NotEmpty, Zenon DEF Sound
    <3> QED BY <3>1, Zenon DEF Peek, PeekAll, m
  <2>2. b.r < b.size /\ b.w < b.size
    BY <1>4 DEF Sound
  <2>3. /\ b.w > b.r => Buffered(b) = b.w - b.r
        /\ b.w <= b.r => Buffered(b) = b.size - b.r + b.w
    BY <1>4, Counts
  <2>4. Peek(b, n) = SubSeq(Held(b), 1, m)
    <3>1. CASE b.r + m <= b.size
      BY <1>2, <1>4, <2>1, <3>1, Pieces
    <3>2. CASE ~(b.r + m <= b.size)
      <4>1. ~(b.w > b.r) /\ b.r + m > b.size
        BY <1>1, <1>2, <2>2, <2>3, <3>2
      <4> QED BY <1>2, <1>4, <2>1, <4>1, <3>2, Pieces
    <3> QED BY <3>1, <3>2
  <2>5. PeekAll(b) = SubSeq(Held(b), 1, Buffered(b))
    <3>1. CASE b.w > b.r
      <4>3. Buffered(b) \in Nat /\ Buffered(b) <= Buffered(b)
        BY <1>1
      <4>1. b.r + Buffered(b) = b.w /\ b.r + Buffered(b) <= b.size
        BY <1>1, <2>2, <2>3, <3>1
      <4>2. Slice(b.buf, b.r, b.r + Buffered(b)) = SubSeq(Held(b), 1, Buffered(b))
        BY <1>4, <4>1, <4>3, Pieces
      <4> QED BY <2>1, <3>1, <4>1, <4>2
    <3>2. CASE b.w <= b.r /\ b.w # 0
      <4>3. Buffered(b) \in Nat /\ Buffered(b) <= Buffered(b)
        BY <1>1
      <4>1. b.r + Buffered(b) > b.size /\ Buffered(b) - (b.size - b.r) = b.w /\ ~(b.w > b.r)
        BY <1>1, <2>2, <2>3, <3>2
      <4>2. Slice(b.buf, b.r, b.size) \o Slice(b.buf, 0, Buffered(b) - (b.size - b.r))
                = SubSeq(Held(b), 1, Buffered(b))
        BY <1>4, <4>3, <4>1, Pieces
      <4> QED BY <2>1, <4>1, <4>2
    <3>3. CASE b.w = 0
      <4>1. b.r + Buffered(b) = b.size /\ ~(b.w > b.r)
        BY <1>1, <2>2, <2>3, <3>3
      <4>2. Slice(b.buf, 0, 0) = <<>>
        BY DEF Slice
      <4>3. Slice(b.buf, b.r, b.size) = SubSeq(Held(b), 1, Buffered(b))
        <5>1. Buffered(b) \in Nat /\ b.r + Buffered(b) <= b.size
          BY <1>1, <4>1
        <5>2. Slice(b.buf, b.r, b.r + Buffered(b)) = SubSeq(Held(b), 1, Buffered(b))
          BY <1>4, <5>1, Pieces
        <5> QED BY <4>1, <5>2
      <4>4. SubSeq(Held(b), 1, Buffered(b)) \in Seq(Slot)
        BY <1>1
      <4> QED BY <2>1, <3>3, <4>1, <4>2, <4>3, <4>4
    <3> QED BY <1>1, <3>1, <3>2, <3>3
  <2> QED BY <2>4, <2>5 DEF m
<1> QED BY <1>3, <1>4

-------------------------------------------------------------------------------
(* Capacities *)

\* CeilToPowerOfTwo does not panic below the largest power, and rounds up.
LEMMA CeilBound ==
    ASSUME NEW n \in Nat, n <= MaxBytes + MinRead
    PROVE  CeilToPowerOfTwo(n) \in Nat /\ CeilToPowerOfTwo(n) >= n
<1> DEFINE P == {2^k : k \in 1..MaxExp}
           T == {p \in P : p >= n}
           Least(p) == p >= n /\ \A k \in 1..MaxExp : 2^k >= n => p <= 2^k
<1>1. P \subseteq Nat /\ MaxExp \in 1..MaxExp
  BY PowerAssumption
<1>2. 2^MaxExp \in T
  <2>1. 2^MaxExp \in P
    BY <1>1
  <2>2. 2^MaxExp \in Nat /\ 2^MaxExp >= MaxBytes + MinRead /\ MaxBytes + MinRead \in Nat
    BY <1>1, <2>1, PowerAssumption, SizeAssumption
  <2>3. 2^MaxExp >= n
    BY <2>2
  <2> QED BY <2>1, <2>3
<1>3. \A k \in 1..MaxExp : 2^k \in P
  OBVIOUS
<1> HIDE DEF P
<1>4. T \in SUBSET Nat /\ T # {}
  BY <1>1, <1>2
<1>5. PICK p \in T : \A q \in T : p <= q
  <2> HIDE DEF T
  <2> QED BY <1>4, Smallest
<1>6. p \in P /\ Least(p)
  <2>1. \A k \in 1..MaxExp : 2^k >= n => 2^k \in T
    BY <1>3
  <2> QED BY <1>5, <2>1
<1>7. CeilToPowerOfTwo(n) = CHOOSE x \in P : Least(x)
  BY DEF CeilToPowerOfTwo, P
<1> HIDE DEF Least, T
<1>8. CeilToPowerOfTwo(n) \in P /\ Least(CeilToPowerOfTwo(n))
  BY <1>6, <1>7
<1> QED BY <1>1, <1>8 DEF Least

\* Four quarters reach any capacity up to twice the old one.
LEMMA QuartersReach ==
    ASSUME NEW n \in Nat, n >= 4, NEW newCap \in Nat, newCap <= n + n
    PROVE  /\ GrowByQuarters(n, newCap) \in Nat
           /\ GrowByQuarters(n, newCap) >= newCap /\ GrowByQuarters(n, newCap) >= n
<1> DEFINE q1 == Quarter(n)
           q2 == Quarter(q1)
           q3 == Quarter(q2)
           q4 == Quarter(q3)
           Q == {n, q1, q2, q3, q4}
           Least(c) == c >= newCap /\ \A d \in Q : d >= newCap => c <= d
<1>1. \A k \in Nat : Quarter(k) \in Nat /\ Quarter(k) >= k
  BY DEF Quarter
<1>2. q1 \in Nat /\ q2 \in Nat /\ q3 \in Nat /\ q4 \in Nat
  BY <1>1
<1>3. n <= q1 /\ q1 <= q2 /\ q2 <= q3 /\ q3 <= q4
  BY <1>1, <1>2
<1>4. q4 >= n + n
  <2>1. /\ q1 = n + n \div 4 /\ q2 = q1 + q1 \div 4
        /\ q3 = q2 + q2 \div 4 /\ q4 = q3 + q3 \div 4
    BY DEF Quarter
  <2> HIDE DEF q1, q2, q3, q4
  <2> QED BY <1>2, <2>1
<1>5. GrowByQuarters(n, newCap) = CHOOSE c \in Q : Least(c)
  BY DEF GrowByQuarters
<1> HIDE DEF q1, q2, q3, q4
<1>6. \E c \in Q : Least(c)
  BY <1>2, <1>3, <1>4
<1>7. \A c \in Q : c \in Nat /\ c >= n
  BY <1>2, <1>3
<1> HIDE DEF Q, Least
<1>8. GrowByQuarters(n, newCap) \in Q /\ Least(GrowByQuarters(n, newCap))
  BY <1>5, <1>6
<1> QED BY <1>7, <1>8 DEF Least

\* grow never shrinks, and makes the room it is asked for.
LEMMA GrownBound ==
    ASSUME NEW n \in Nat, NEW newCap \in Nat, n = 0 => newCap <= MaxBytes + MinRead
    PROVE  GrownCap(n, newCap) \in Nat /\ GrownCap(n, newCap) >= newCap /\ GrownCap(n, newCap) >= n
<1>1. DefaultBufferSize \in Nat /\ bufferGrowThreshold \in Nat /\ bufferGrowThreshold >= 4
  BY SizeAssumption
<1>2. CASE n = 0
  BY <1>1, <1>2, CeilBound DEF GrownCap
<1>3. CASE n # 0 /\ (newCap > n + n \/ n < bufferGrowThreshold)
  BY <1>1, <1>3 DEF GrownCap
<1>4. CASE n # 0 /\ ~(newCap > n + n) /\ ~(n < bufferGrowThreshold)
  <2>1. GrownCap(n, newCap) = GrowByQuarters(n, newCap)
    BY <1>4 DEF GrownCap
  <2>2. n >= 4 /\ newCap <= n + n
    BY <1>1, <1>4
  <2> QED BY <2>1, <2>2, QuartersReach
<1> QED BY <1>1, <1>2, <1>3, <1>4

-------------------------------------------------------------------------------
(* Filling *)

\* copy writes s at a position and leaves the rest alone.
LEMMA CopyAt ==
    ASSUME NEW size \in Nat, NEW buf \in [0..(size - 1) -> Slot], NEW at \in Nat,
           NEW s \in Seq(Slot)
    PROVE  /\ Copy(buf, at, s) \in [0..(size - 1) -> Slot]
           /\ \A k \in 0..(size - 1) :
                /\ k >= at /\ k < at + Len(s) => Copy(buf, at, s)[k] = s[k - at + 1]
                /\ k < at \/ k >= at + Len(s) => Copy(buf, at, s)[k] = buf[k]
<1>1. DOMAIN buf = 0..(size - 1) /\ Len(s) \in Nat
  OBVIOUS
<1>2. ASSUME NEW k \in 0..(size - 1), k >= at, k < at + Len(s) PROVE s[k - at + 1] \in Slot
  <2>1. k - at + 1 \in 1..Len(s)
    BY <1>1, <1>2
  <2> QED BY <2>1
<1>3. \A k \in 0..(size - 1) :
        Copy(buf, at, s)[k] = IF k >= at /\ k < at + Len(s) THEN s[k - at + 1] ELSE buf[k]
  BY <1>1 DEF Copy
<1>4. Copy(buf, at, s) \in [0..(size - 1) -> Slot]
  <2>1. \A k \in 0..(size - 1) : Copy(buf, at, s)[k] \in Slot
    BY <1>2, <1>3
  <2> QED BY <1>1, <2>1 DEF Copy
<1>5. \A k \in 0..(size - 1) : k < at \/ k >= at + Len(s) => ~(k >= at /\ k < at + Len(s))
  BY <1>1
<1> QED BY <1>3, <1>4, <1>5

\* How many bytes lie between two positions of a buffer that may be empty.
Counted(B, size, r, w) ==
    \/ B = 0 /\ r = 0 /\ w = 0
    \/ w > r /\ B = w - r
    \/ w <= r /\ B = size - r + w

\* The write position and the count after n bytes more.
LEMMA WriteArithmetic ==
    ASSUME NEW size \in Nat, NEW r \in Nat, NEW w \in Nat, NEW B \in Nat, NEW n \in Nat,
           n > 0, B + n <= size, r < size, w < size, Counted(B, size, r, w),
           NEW x, x = Around(w, n + 1, size)
    PROVE  /\ x \in Nat /\ x < size
           /\ x > r => x - r = B + n
           /\ x <= r => size - r + x = B + n
           /\ \A j \in 1..n : Around(r, B + j, size) = Around(w, j, size)
<1>1. x = IF w + n < size THEN w + n ELSE w + n - size
  BY DEF Around
<1>2. x \in Nat /\ x < size /\ (x > r => x - r = B + n) /\ (x <= r => size - r + x = B + n)
  BY <1>1 DEF Counted
<1>3. ASSUME NEW j \in 1..n PROVE Around(r, B + j, size) = Around(w, j, size)
  BY DEF Around, Counted
<1> QED BY <1>2, <1>3

\* What a writer must do: put the bytes p behind the last one held, around the
\* end, and touch no slot that holds one.
FilledWith(g, p, c) ==
    /\ p \in Seq(Byte) /\ Len(p) > 0 /\ Len(p) <= Available(g)
    /\ c \in Rings /\ c.buf \in [0..(g.size - 1) -> Slot] /\ c.size = g.size /\ c.r = g.r
    /\ ~Empty(c) /\ c.w = Around(g.w, Len(p) + 1, g.size)
    /\ \A j \in 1..Len(p) : c.buf[Around(g.w, j, g.size)] = p[j]
    /\ \A i \in 1..Buffered(g) :
            c.buf[Around(g.r, i, g.size)] = g.buf[Around(g.r, i, g.size)]

\* Then the queue grows by p at its end.
LEMMA Filled ==
    ASSUME NEW g, Sound(g), NEW p, NEW c, FilledWith(g, p, c)
    PROVE  Sound(c) /\ Held(c) = Held(g) \o p
<1> DEFINE n == Len(p)
           B == Buffered(g)
<1>1. /\ g.size \in Nat /\ g.r \in Nat /\ g.w \in Nat /\ B \in 0..g.size
      /\ B + Available(g) = g.size /\ n \in Nat /\ n > 0
  BY Counts DEF FilledWith
<1>2. B + n <= g.size
  <2>1. Available(g) = g.size - B
    <3>1. Available(g) \in Int
      BY <1>1, Counts DEF Available
    <3> QED BY <1>1, <3>1
  <2> QED BY <1>1, <2>1 DEF FilledWith
<1>3. g.r < g.size /\ g.w < g.size
  BY <1>1, <1>2 DEF Sound
<1>4. /\ Empty(g) => B = 0 /\ g.r = 0 /\ g.w = 0
      /\ ~Empty(g) => /\ g.w > g.r => B = g.w - g.r
                      /\ g.w <= g.r => B = g.size - g.r + g.w
  BY Counts DEF Sound
<1> HIDE DEF n, B
<1>5. c.w = Around(g.w, n + 1, g.size)
  BY DEF n, FilledWith
<1>6. /\ c.w \in Nat /\ c.w < g.size
      /\ c.w > g.r => c.w - g.r = B + n
      /\ c.w <= g.r => g.size - g.r + c.w = B + n
      /\ \A j \in 1..n : Around(g.r, B + j, g.size) = Around(g.w, j, g.size)
  <2> DEFINE size == g.size
             r == g.r
             w == g.w
             x == c.w
  <2>1. size \in Nat /\ r \in Nat /\ w \in Nat /\ B \in Nat /\ n \in Nat /\ n > 0
        /\ B + n <= size /\ r < size /\ w < size /\ x = Around(w, n + 1, size)
    BY <1>1, <1>2, <1>3, <1>5
  <2>2. Counted(B, size, r, w)
    BY <1>1, <1>4 DEF Counted
  <2> HIDE DEF size, r, w, x
  <2>3. /\ x \in Nat /\ x < size
        /\ x > r => x - r = B + n
        /\ x <= r => size - r + x = B + n
        /\ \A j \in 1..n : Around(r, B + j, size) = Around(w, j, size)
    BY <2>1, <2>2, WriteArithmetic
  <2> QED BY <2>3 DEF size, r, w, x
<1>7. Sound(c)
  BY <1>3, <1>6 DEF Sound, FilledWith
<1>8. Buffered(c) = B + n
  <2>1. /\ c.w > g.r => Buffered(c) = c.w - g.r
        /\ c.w <= g.r => Buffered(c) = g.size - g.r + c.w
    BY <1>7, Counts DEF FilledWith
  <2> QED BY <1>1, <1>6, <2>1
<1>9. /\ Held(g) \in Seq(Slot) /\ Len(Held(g)) = B
      /\ Held(c) \in Seq(Slot) /\ Len(Held(c)) = B + n
  BY <1>7, <1>8, HeldAt DEF B
<1>10. p \in Seq(Slot) /\ Len(p) = n
  BY DEF Slot, n, FilledWith
<1>11. /\ Held(g) \o p \in Seq(Slot) /\ Len(Held(g) \o p) = B + n
       /\ \A i \in 1..B : (Held(g) \o p)[i] = Held(g)[i]
       /\ \A j \in 1..n : (Held(g) \o p)[B + j] = p[j]
  <2> DEFINE h == Held(g)
  <2>1. h \in Seq(Slot) /\ Len(h) = B
    BY <1>9
  <2> HIDE DEF h
  <2>2. /\ h \o p \in Seq(Slot) /\ Len(h \o p) = Len(h) + Len(p)
        /\ \A i \in 1..Len(h) : (h \o p)[i] = h[i]
        /\ \A j \in 1..Len(p) : (h \o p)[Len(h) + j] = p[j]
    <3>1. h \in Seq(Slot) /\ p \in Seq(Slot)
      BY <1>10, <2>1
    <3> QED BY <3>1, ConcatAt
  <2> QED BY <1>10, <2>1, <2>2 DEF h
<1>12. ASSUME NEW i \in 1..(B + n) PROVE Held(c)[i] = (Held(g) \o p)[i]
  <2>1. Held(c)[i] = c.buf[Around(g.r, i, g.size)]
    BY <1>7, <1>8, HeldAt DEF FilledWith
  <2>2. CASE i <= B
    <3>1. i \in 1..Buffered(g) /\ i \in 1..B
      BY <1>1, <2>2 DEF B
    <3>2. Held(g)[i] = g.buf[Around(g.r, i, g.size)]
      BY <3>1, HeldAt
    <3>3. c.buf[Around(g.r, i, g.size)] = g.buf[Around(g.r, i, g.size)]
      BY <3>1 DEF FilledWith
    <3> QED BY <1>11, <2>1, <3>1, <3>2, <3>3
  <2>3. CASE i > B
    <3>1. i - B \in 1..n /\ B + (i - B) = i
      BY <1>1, <2>3
    <3>2. Around(g.r, i, g.size) = Around(g.w, i - B, g.size)
      BY <1>6, <3>1
    <3>3. (Held(g) \o p)[i] = p[i - B]
      BY <1>11, <3>1
    <3>4. c.buf[Around(g.w, i - B, g.size)] = p[i - B]
      BY <3>1 DEF n, FilledWith
    <3> QED BY <2>1, <3>2, <3>3, <3>4
  <2>4. i <= B \/ i > B
    BY <1>1
  <2> QED BY <2>2, <2>3, <2>4
<1>13. Held(c) = Held(g) \o p
  BY <1>9, <1>11, <1>12, SeqEqual
<1> QED BY <1>7, <1>13

-------------------------------------------------------------------------------
(* Growing *)

\* grow keeps the bytes and moves them to the front; the new buffer is sound
\* unless it is full, when w is left at the end of the slice.
LEMMA GrowKeeps ==
    ASSUME NEW b, Sound(b), NEW newCap \in Nat, b.size = 0 => newCap <= MaxBytes + MinRead,
           NEW g, g = Grow(b, newCap)
    PROVE  /\ g \in Rings /\ g.buf \in [0..(g.size - 1) -> Slot]
           /\ g.size >= newCap /\ g.size >= b.size /\ g.r = 0 /\ g.w = Buffered(b)
           /\ Empty(g) <=> Buffered(b) = 0
           /\ Held(g) = Held(b)
           /\ Buffered(b) < g.size => Sound(g) /\ Buffered(g) = Buffered(b)
<1> DEFINE cap == GrownCap(b.size, newCap)
           len == Buffered(b)
           h == Held(b)
           buf == Copy(NewSlice(cap), 0, h)
<1>1. b.size \in Nat /\ len \in 0..b.size /\ h \in Seq(Slot) /\ Len(h) = len
  BY Counts, HeldAt
<1>2. cap \in Nat /\ cap >= newCap /\ cap >= b.size
  <2> DEFINE n == b.size
  <2>1. n \in Nat /\ (n = 0 => newCap <= MaxBytes + MinRead)
    BY <1>1
  <2> HIDE DEF n
  <2>2. GrownCap(n, newCap) \in Nat /\ GrownCap(n, newCap) >= newCap /\ GrownCap(n, newCap) >= n
    BY <2>1, GrownBound
  <2> QED BY <2>2 DEF n
<1> HIDE DEF cap
<1>3. Peek(b, cap) = h
  <2>1. Lesser(cap, Buffered(b)) = Buffered(b)
    BY <1>1, <1>2 DEF Lesser
  <2>2. Peek(b, cap) = SubSeq(h, 1, Buffered(b))
    BY <1>2, <2>1, PeekShows
  <2>3. SubSeq(h, 1, Len(h)) = h
    <3> HIDE DEF h
    <3> QED BY <1>1
  <2> QED BY <1>1, <2>2, <2>3
<1> HIDE DEF h, len
<1>4. NewSlice(cap) \in [0..(cap - 1) -> Slot]
  BY DEF NewSlice, Slot
<1>5. /\ buf \in [0..(cap - 1) -> Slot]
      /\ \A k \in 0..(cap - 1) : k < len => buf[k] = h[k + 1]
  <2> DEFINE new == NewSlice(cap)
  <2>1. new \in [0..(cap - 1) -> Slot] /\ 0 \in Nat /\ h \in Seq(Slot) /\ cap \in Nat
    BY <1>1, <1>2, <1>4
  <2> HIDE DEF new
  <2>2. /\ Copy(new, 0, h) \in [0..(cap - 1) -> Slot]
        /\ \A k \in 0..(cap - 1) : k >= 0 /\ k < 0 + Len(h) => Copy(new, 0, h)[k] = h[k - 0 + 1]
    BY <2>1, CopyAt
  <2>3. \A k \in 0..(cap - 1) : k < len => k >= 0 /\ k < 0 + Len(h) /\ k - 0 + 1 = k + 1
    BY <1>1, <1>2
  <2> QED BY <2>2, <2>3 DEF new
<1> HIDE DEF buf
<1>6. g = [buf |-> buf, size |-> cap, r |-> 0, w |-> len, isEmpty |-> len = 0]
  BY <1>3 DEF Grow, cap, len, buf
<1> DEFINE e == len = 0
<1>7. /\ g.buf = buf /\ g.size = cap /\ g.r = 0 /\ g.w = len /\ g.isEmpty = (len = 0)
  <2>1. g = [buf |-> buf, size |-> cap, r |-> 0, w |-> len, isEmpty |-> e]
    BY <1>6
  <2> HIDE DEF e
  <2>2. g.buf = buf /\ g.size = cap /\ g.r = 0 /\ g.w = len /\ g.isEmpty = e
    BY <2>1
  <2> QED BY <2>2 DEF e
<1>8. g \in Rings
  <2>1. e \in BOOLEAN /\ len \in Nat /\ cap \in Nat /\ 0 \in Nat
    BY <1>1, <1>2
  <2>2. buf \in UNION {[0..(n - 1) -> Slot] : n \in Nat}
    BY <1>2, <1>5
  <2>3. g = [buf |-> buf, size |-> cap, r |-> 0, w |-> len, isEmpty |-> e]
    BY <1>6
  <2> HIDE DEF e
  <2> QED BY <2>1, <2>2, <2>3 DEF Rings
<1>9. Empty(g) <=> len = 0
  BY <1>7, Zenon DEF Empty
<1>10. Buffered(g) = len
  <2>1. CASE len = 0
    <3>1. g.isEmpty /\ g.r = g.w
      BY <1>7, <2>1, Zenon
    <3> QED BY <2>1, <3>1, Zenon DEF Buffered
  <2>2. CASE len # 0
    <3>1. ~(g.r = g.w) /\ g.w > g.r /\ g.w - g.r = len
      BY <1>1, <1>7, <2>2
    <3> QED BY <3>1, Zenon DEF Buffered
  <2> QED BY <2>1, <2>2
<1>11. Held(g) = h
  <2>1. ASSUME NEW i \in 1..len PROVE g.buf[(g.r + i - 1) % g.size] = h[i]
    <3>1. i - 1 \in 0..(cap - 1) /\ i - 1 < len /\ (i - 1) + 1 = i /\ 0 + i - 1 = i - 1
      BY <1>1, <1>2
    <3>2. (i - 1) % cap = i - 1
      BY <1>2, <3>1
    <3>3. buf[i - 1] = h[i]
      BY <1>5, <3>1
    <3> QED BY <1>7, <3>1, <3>2, <3>3
  <2>2. Held(g) = [i \in 1..len |-> h[i]]
    BY <1>10, <2>1 DEF Held
  <2>3. h = [i \in 1..len |-> h[i]]
    BY <1>1
  <2> QED BY <2>2, <2>3
<1>12. len < cap => Sound(g)
  <2> SUFFICES ASSUME len < cap PROVE Sound(g)
    OBVIOUS
  <2>1. 0 < cap
    BY <1>1, <1>2
  <2> QED BY <1>5, <1>7, <1>8, <1>9, <2>1 DEF Sound
<1> QED BY <1>2, <1>5, <1>7, <1>8, <1>9, <1>10, <1>11, <1>12 DEF h, len

-------------------------------------------------------------------------------
(* Writing *)

\* Which slots n bytes more take: in one piece up to the end of the slice or up
\* to r, ...
LEMMA StraightSlots ==
    ASSUME NEW size \in Nat, NEW r \in Nat, NEW w \in Nat, NEW B \in Nat, NEW n \in Nat,
           n > 0, B + n <= size, r < size, w < size, Counted(B, size, r, w),
           w < r \/ n <= size - w
    PROVE  /\ \A j \in 1..n : Around(w, j, size) = w + j - 1 /\ w + j - 1 \in 0..(size - 1)
           /\ \A i \in 1..B : Around(r, i, size) < w \/ Around(r, i, size) >= w + n
           /\ WrapW(w + n, size) = Around(w, n + 1, size)
           /\ (w + n) % size = Around(w, n + 1, size)
           /\ Around(w, n + 1, size) \in 0..(size - 1)
<1>1. w + n <= size
  BY DEF Counted
<1>2. (w + n) % size = Around(w, n + 1, size)
  <2>1. CASE w + n < size
    BY <2>1 DEF Around
  <2>2. CASE w + n = size
    <3>1. size % size = 0
      OBVIOUS
    <3> QED BY <2>2, <3>1 DEF Around
  <2> QED BY <1>1, <2>1, <2>2
<1>3. \A j \in 1..n : Around(w, j, size) = w + j - 1 /\ w + j - 1 \in 0..(size - 1)
  BY <1>1 DEF Around
<1>4. \A i \in 1..B : Around(r, i, size) < w \/ Around(r, i, size) >= w + n
  BY <1>1 DEF Around, Counted
<1>5. WrapW(w + n, size) = Around(w, n + 1, size) /\ Around(w, n + 1, size) \in 0..(size - 1)
  BY <1>1 DEF WrapW, Around
<1> QED BY <1>2, <1>3, <1>4, <1>5

\* ... or in two, the second at the front of the slice: k bytes up to its end.
Over(k, n, size, w) == k = size - w /\ k < n

LEMMA SplitSlots ==
    ASSUME NEW size \in Nat, NEW r \in Nat, NEW w \in Nat, NEW B \in Nat, NEW n \in Nat,
           B + n <= size, r < size, w < size, Counted(B, size, r, w),
           w >= r, NEW k, Over(k, n, size, w)
    PROVE  /\ k \in Nat /\ n - k \in Nat /\ n - k <= w
           /\ \A j \in 1..k : Around(w, j, size) = w + j - 1 /\ w + j - 1 \in 0..(size - 1)
           /\ \A j \in (k + 1)..n : Around(w, j, size) = j - k - 1 /\ j - k - 1 \in 0..(n - k - 1)
           /\ \A i \in 1..B : Around(r, i, size) >= n - k /\ Around(r, i, size) < w
           /\ n - k = Around(w, n + 1, size) /\ n - k < size
<1>1. w > r /\ B = w - r
  BY DEF Counted, Over
<1>2. k \in Nat /\ n - k \in Nat /\ n - k <= r
  BY <1>1 DEF Over
<1> QED BY <1>1, <1>2 DEF Around, Over

\* The numbers of a buffer that has room for n bytes.
LEMMA Room ==
    ASSUME NEW g, Sound(g), NEW n \in Nat, n > 0, n <= Available(g)
    PROVE  /\ g.size \in Nat /\ g.r \in Nat /\ g.w \in Nat /\ Buffered(g) \in Nat
           /\ Buffered(g) + n <= g.size /\ g.r < g.size /\ g.w < g.size
           /\ Counted(Buffered(g), g.size, g.r, g.w)
<1>1. /\ g.size \in Nat /\ g.r \in Nat /\ g.w \in Nat /\ Buffered(g) \in 0..g.size
      /\ Buffered(g) + Available(g) = g.size
  BY Counts
<1>2. Available(g) \in Int
  BY <1>1, Counts DEF Available
<1>3. Buffered(g) + n <= g.size
  BY <1>1, <1>2
<1>4. g.r < g.size /\ g.w < g.size
  BY <1>1, <1>3 DEF Sound
<1>5. Counted(Buffered(g), g.size, g.r, g.w)
  <2>1. CASE Empty(g)
    BY <2>1, Counts DEF Sound, Counted
  <2>2. CASE ~Empty(g)
    BY <1>1, <2>2, Counts DEF Counted
  <2> QED BY <2>1, <2>2
<1> QED BY <1>1, <1>3, <1>4, <1>5

\* A buffer whose fields are g's but for the slice, w and the flag.
Refill(g, buf, w) == [g EXCEPT !.buf = buf, !.w = w, !.isEmpty = FALSE]

LEMMA Refilled ==
    ASSUME NEW g, Sound(g), NEW buf, buf \in [0..(g.size - 1) -> Slot], NEW w, w \in Nat,
           NEW c, c = Refill(g, buf, w)
    PROVE  /\ c \in Rings /\ c.buf = buf /\ c.w = w /\ c.size = g.size /\ c.r = g.r
           /\ ~Empty(c)
<1> DEFINE U == UNION {[0..(n - 1) -> Slot] : n \in Nat}
<1>1. g \in Rings /\ g.size \in Nat
  BY DEF Sound, Rings
<1>2. buf \in U
  BY <1>1
<1>3. g \in [buf : U, size : Nat, r : Nat, w : Nat, isEmpty : BOOLEAN]
  BY <1>1 DEF Rings
<1>4. /\ c \in [buf : U, size : Nat, r : Nat, w : Nat, isEmpty : BOOLEAN]
      /\ c.buf = buf /\ c.w = w /\ c.size = g.size /\ c.r = g.r /\ c.isEmpty = FALSE
  <2> HIDE DEF U
  <2> QED BY <1>2, <1>3 DEF Refill
<1>5. c \in Rings
  BY <1>4 DEF Rings
<1>6. ~Empty(c)
  BY <1>4, Zenon DEF Empty
<1> QED BY <1>4, <1>5, <1>6

\* One copy at w fills the buffer when the bytes fit before the end or before r.
LEMMA FillsStraight ==
    ASSUME NEW g, Sound(g), NEW p, p \in Seq(Byte), Len(p) > 0, Len(p) <= Available(g),
           g.w < g.r \/ Len(p) <= g.size - g.w,
           NEW c, c \in Rings, c.buf = Copy(g.buf, g.w, p), c.size = g.size, c.r = g.r, ~Empty(c),
           \/ c.w = WrapW(g.w + Len(p), g.size)
           \/ c.w = (g.w + Len(p)) % g.size
    PROVE  FilledWith(g, p, c) /\ c.w = (g.w + Len(p)) % g.size
<1> DEFINE n == Len(p)
           B == Buffered(g)
           size == g.size
           r == g.r
           w == g.w
           buf == g.buf
<1>1. p \in Seq(Slot) /\ n \in Nat /\ n > 0 /\ n <= Available(g)
  BY DEF Slot
<1>2. /\ size \in Nat /\ r \in Nat /\ w \in Nat /\ B \in Nat
      /\ B + n <= size /\ r < size /\ w < size /\ Counted(B, size, r, w)
  BY <1>1, Room
<1>3. (w < r \/ n <= size - w) /\ buf \in [0..(size - 1) -> Slot]
  BY DEF Sound
<1>4. /\ c.buf = Copy(buf, w, p) /\ c.size = size /\ c.r = r
      /\ c.w = WrapW(w + n, size) \/ c.w = (w + n) % size
  OBVIOUS
<1> HIDE DEF n, B, size, r, w, buf
<1>5. /\ \A j \in 1..n : Around(w, j, size) = w + j - 1 /\ w + j - 1 \in 0..(size - 1)
      /\ \A i \in 1..B : Around(r, i, size) < w \/ Around(r, i, size) >= w + n
      /\ WrapW(w + n, size) = Around(w, n + 1, size)
      /\ (w + n) % size = Around(w, n + 1, size)
      /\ Around(w, n + 1, size) \in 0..(size - 1)
  BY <1>1, <1>2, <1>3, StraightSlots
<1>6. c.w = Around(w, n + 1, size) /\ c.w = (w + n) % size
  BY <1>4, <1>5
<1>7. Len(p) = n
  BY DEF n
<1>8. /\ Copy(buf, w, p) \in [0..(size - 1) -> Slot]
      /\ \A k \in 0..(size - 1) :
            /\ k >= w /\ k < w + n => Copy(buf, w, p)[k] = p[k - w + 1]
            /\ k < w \/ k >= w + n => Copy(buf, w, p)[k] = buf[k]
  <2>1. p \in Seq(Slot) /\ size \in Nat /\ w \in Nat /\ buf \in [0..(size - 1) -> Slot]
    BY <1>1, <1>2, <1>3
  <2>2. /\ Copy(buf, w, p) \in [0..(size - 1) -> Slot]
        /\ \A k \in 0..(size - 1) :
            /\ k >= w /\ k < w + Len(p) => Copy(buf, w, p)[k] = p[k - w + 1]
            /\ k < w \/ k >= w + Len(p) => Copy(buf, w, p)[k] = buf[k]
    BY <2>1, CopyAt
  <2> QED BY <1>7, <2>2
<1> DEFINE new == Copy(buf, w, p)
<1> HIDE DEF new
<1>9. /\ new \in [0..(size - 1) -> Slot]
      /\ \A k \in 0..(size - 1) :
            /\ k >= w /\ k < w + n => new[k] = p[k - w + 1]
            /\ k < w \/ k >= w + n => new[k] = buf[k]
  BY <1>8 DEF new
<1>10. ASSUME NEW j \in 1..n PROVE new[Around(w, j, size)] = p[j]
  <2>1. Around(w, j, size) = w + j - 1 /\ w + j - 1 \in 0..(size - 1)
    BY <1>5
  <2>2. w + j - 1 >= w /\ w + j - 1 < w + n /\ (w + j - 1) - w + 1 = j
    BY <1>1, <1>2
  <2> QED BY <1>9, <2>1, <2>2
<1>11. ASSUME NEW i \in 1..B PROVE new[Around(r, i, size)] = buf[Around(r, i, size)]
  <2>1. Around(r, i, size) \in 0..(size - 1)
    <3>1. i \in Nat /\ i > 0 /\ i <= size
      BY <1>1, <1>2
    <3> QED BY <1>2, <3>1, Wraps
  <2>2. Around(r, i, size) < w \/ Around(r, i, size) >= w + n
    BY <1>5
  <2> QED BY <1>9, <2>1, <2>2
<1>12. c.buf = new
  BY <1>4 DEF new
<1>13. FilledWith(g, p, c)
  <2>1. c.w = Around(g.w, Len(p) + 1, g.size)
    BY <1>6 DEF n, w, size
  <2>2. \A j \in 1..Len(p) : c.buf[Around(g.w, j, g.size)] = p[j]
    BY <1>10, <1>12 DEF n, w, size
  <2>3. \A i \in 1..Buffered(g) : c.buf[Around(g.r, i, g.size)] = g.buf[Around(g.r, i, g.size)]
    BY <1>11, <1>12 DEF B, r, size, buf
  <2>4. c.buf \in [0..(g.size - 1) -> Slot]
    BY <1>9, <1>12 DEF size
  <2> QED BY <2>1, <2>2, <2>3, <2>4 DEF FilledWith
<1> QED BY <1>6, <1>13 DEF n, w, size

\* The two copies of Write fill it when the bytes run over the end.
LEMMA FillsSplit ==
    ASSUME NEW g, Sound(g), NEW p, p \in Seq(Byte), Len(p) > 0, Len(p) <= Available(g),
           g.w >= g.r, g.size - g.w < Len(p),
           NEW c, c \in Rings, c.size = g.size, c.r = g.r, ~Empty(c),
           c.buf = Copy(Copy(g.buf, g.w, SubSeq(p, 1, g.size - g.w)), 0,
                        SubSeq(p, g.size - g.w + 1, Len(p))),
           c.w = Len(p) - (g.size - g.w)
    PROVE  FilledWith(g, p, c)
<1> DEFINE n == Len(p)
           B == Buffered(g)
           size == g.size
           r == g.r
           w == g.w
           buf == g.buf
           k1 == g.size - g.w
           s == SubSeq(p, 1, k1)
           t == SubSeq(p, k1 + 1, Len(p))
           one == Copy(buf, w, s)
           two == Copy(one, 0, t)
<1>1. p \in Seq(Slot) /\ n \in Nat /\ n > 0 /\ n <= Available(g)
  BY DEF Slot
<1>2. /\ size \in Nat /\ r \in Nat /\ w \in Nat /\ B \in Nat
      /\ B + n <= size /\ r < size /\ w < size /\ Counted(B, size, r, w)
  BY <1>1, Room
<1>3. w >= r /\ k1 = size - w /\ k1 < n /\ buf \in [0..(size - 1) -> Slot]
  BY DEF Sound
<1>4. c.buf = two /\ c.size = size /\ c.r = r /\ c.w = n - k1
  OBVIOUS
<1> HIDE DEF B, size, r, w, buf
<1>5. /\ k1 \in Nat /\ n - k1 \in Nat /\ n - k1 <= w
      /\ \A j \in 1..k1 : Around(w, j, size) = w + j - 1 /\ w + j - 1 \in 0..(size - 1)
      /\ \A j \in (k1 + 1)..n : Around(w, j, size) = j - k1 - 1 /\ j - k1 - 1 \in 0..(n - k1 - 1)
      /\ \A i \in 1..B : Around(r, i, size) >= n - k1 /\ Around(r, i, size) < w
      /\ n - k1 = Around(w, n + 1, size) /\ n - k1 < size
  <2>1. Over(k1, n, size, w)
    BY <1>3 DEF Over
  <2>2. n \in Nat /\ w >= r
    BY <1>1, <1>3
  <2> HIDE DEF n, k1
  <2> QED BY <1>2, <2>1, <2>2, SplitSlots
<1>6. /\ s \in Seq(Slot) /\ Len(s) = k1 /\ \A j \in 1..k1 : s[j] = p[j]
      /\ t \in Seq(Slot) /\ Len(t) = n - k1 /\ \A j \in 1..(n - k1) : t[j] = p[k1 + j]
  <2> DEFINE k == k1
  <2>1. k \in Nat /\ k < Len(p) /\ p \in Seq(Slot)
    BY <1>1, <1>3, <1>5
  <2> HIDE DEF k
  <2>2. /\ SubSeq(p, 1, k) \in Seq(Slot) /\ Len(SubSeq(p, 1, k)) = k
        /\ \A j \in 1..k : SubSeq(p, 1, k)[j] = p[j]
    BY <2>1
  <2>3. /\ SubSeq(p, k + 1, Len(p)) \in Seq(Slot) /\ Len(SubSeq(p, k + 1, Len(p))) = Len(p) - k
        /\ \A j \in 1..(Len(p) - k) : SubSeq(p, k + 1, Len(p))[j] = p[k + j]
    BY <2>1
  <2> QED BY <2>2, <2>3 DEF k
<1> HIDE DEF n, k1, s, t
<1>7. /\ one \in [0..(size - 1) -> Slot]
      /\ \A k \in 0..(size - 1) :
            /\ k >= w /\ k < w + k1 => one[k] = s[k - w + 1]
            /\ k < w \/ k >= w + k1 => one[k] = buf[k]
  <2>1. s \in Seq(Slot) /\ size \in Nat /\ w \in Nat /\ buf \in [0..(size - 1) -> Slot]
    BY <1>2, <1>3, <1>6
  <2>2. /\ Copy(buf, w, s) \in [0..(size - 1) -> Slot]
        /\ \A k \in 0..(size - 1) :
            /\ k >= w /\ k < w + Len(s) => Copy(buf, w, s)[k] = s[k - w + 1]
            /\ k < w \/ k >= w + Len(s) => Copy(buf, w, s)[k] = buf[k]
    BY <2>1, CopyAt
  <2> QED BY <1>6, <2>2
<1> HIDE DEF one
<1>8. /\ two \in [0..(size - 1) -> Slot]
      /\ \A k \in 0..(size - 1) :
            /\ k < n - k1 => two[k] = t[k + 1]
            /\ k >= n - k1 => two[k] = one[k]
  <2>1. t \in Seq(Slot) /\ size \in Nat /\ 0 \in Nat /\ one \in [0..(size - 1) -> Slot]
    BY <1>2, <1>6, <1>7
  <2>2. /\ Copy(one, 0, t) \in [0..(size - 1) -> Slot]
        /\ \A k \in 0..(size - 1) :
            /\ k >= 0 /\ k < 0 + Len(t) => Copy(one, 0, t)[k] = t[k - 0 + 1]
            /\ k < 0 \/ k >= 0 + Len(t) => Copy(one, 0, t)[k] = one[k]
    BY <2>1, CopyAt
  <2>3. \A k \in 0..(size - 1) :
            /\ k < n - k1 => k >= 0 /\ k < 0 + Len(t) /\ k - 0 + 1 = k + 1
            /\ k >= n - k1 => k >= 0 + Len(t)
    BY <1>2, <1>5, <1>6
  <2> QED BY <2>2, <2>3
<1> HIDE DEF two
<1>9. ASSUME NEW j \in 1..n PROVE two[Around(w, j, size)] = p[j]
  <2>1. CASE j <= k1
    <3>1. j \in 1..k1
      BY <1>5, <2>1
    <3>2. Around(w, j, size) = w + j - 1 /\ w + j - 1 \in 0..(size - 1)
      BY <1>5, <3>1
    <3>3. w + j - 1 >= w /\ w + j - 1 < w + k1 /\ (w + j - 1) - w + 1 = j /\ w + j - 1 >= n - k1
      BY <1>2, <1>5, <3>1
    <3> QED BY <1>6, <1>7, <1>8, <3>1, <3>2, <3>3
  <2>2. CASE j > k1
    <3>1. j \in (k1 + 1)..n
      BY <1>1, <1>5, <2>2
    <3>2. Around(w, j, size) = j - k1 - 1 /\ j - k1 - 1 \in 0..(n - k1 - 1)
      BY <1>5, <3>1
    <3>3. /\ j - k1 - 1 \in 0..(size - 1) /\ j - k1 - 1 < n - k1 /\ (j - k1 - 1) + 1 = j - k1
          /\ j - k1 \in 1..(n - k1) /\ k1 + (j - k1) = j
      BY <1>1, <1>2, <1>5, <3>1
    <3> QED BY <1>6, <1>8, <3>2, <3>3
  <2> QED BY <1>1, <1>5, <2>1, <2>2
<1>10. ASSUME NEW i \in 1..B PROVE two[Around(r, i, size)] = buf[Around(r, i, size)]
  <2>1. Around(r, i, size) \in 0..(size - 1)
    <3>1. i \in Nat /\ i > 0 /\ i <= size
      BY <1>1, <1>2
    <3> QED BY <1>2, <3>1, Wraps
  <2>2. Around(r, i, size) >= n - k1 /\ Around(r, i, size) < w
    BY <1>5
  <2> QED BY <1>7, <1>8, <2>1, <2>2
<1>11. FilledWith(g, p, c)
  <2>1. c.w = Around(g.w, Len(p) + 1, g.size)
    BY <1>4, <1>5 DEF n, w, size
  <2>2. \A j \in 1..Len(p) : c.buf[Around(g.w, j, g.size)] = p[j]
    BY <1>4, <1>9 DEF n, w, size
  <2>3. \A i \in 1..Buffered(g) : c.buf[Around(g.r, i, g.size)] = g.buf[Around(g.r, i, g.size)]
    BY <1>4, <1>10 DEF B, r, size, buf
  <2>4. c.buf \in [0..(g.size - 1) -> Slot]
    BY <1>4, <1>8 DEF size
  <2> QED BY <2>1, <2>2, <2>3, <2>4 DEF FilledWith
<1> QED BY <1>11

\* Write puts the bytes at the end of the queue, growing when it has to.
LEMMA WritePuts ==
    ASSUME NEW b, Sound(b), NEW p, p \in Seq(Byte), Len(p) > 0, Buffered(b) + Len(p) <= MaxBytes
    PROVE  Sound(Write(b, p)) /\ Held(Write(b, p)) = Held(b) \o p
<1> DEFINE n == Len(p)
           free == Available(b)
           newCap == b.size + n - free
           g == IF n > free THEN Grow(b, newCap) ELSE b
           k == g.size - g.w
           over == g.w >= g.r /\ k < n
           buf == IF over THEN Copy(Copy(g.buf, g.w, SubSeq(p, 1, k)), 0, SubSeq(p, k + 1, n))
                  ELSE Copy(g.buf, g.w, p)
           w == IF over THEN n - k ELSE WrapW(g.w + n, g.size)
           c == [g EXCEPT !.buf = buf, !.w = w, !.isEmpty = FALSE]
<1>1. Write(b, p) = c
  BY DEF Write
<1>2. /\ b.size \in Nat /\ Buffered(b) \in 0..b.size /\ free \in Int /\ Buffered(b) + free = b.size
      /\ n \in Nat /\ n > 0 /\ MaxBytes \in Nat /\ MinRead \in Nat
  <2>1. free \in Int
    BY Counts DEF Available
  <2> QED BY <2>1, Counts, SizeAssumption
<1>3. newCap = Buffered(b) + n /\ newCap \in Nat /\ newCap <= MaxBytes + MinRead
  <2> DEFINE B == Buffered(b)
             size == b.size
  <2>1. /\ B + n <= MaxBytes /\ size \in Nat /\ B \in 0..size /\ B + free = size
        /\ newCap = size + n - free
    BY <1>2
  <2> HIDE DEF n, free, B, size, newCap
  <2>2. newCap = B + n /\ newCap \in Nat /\ newCap <= MaxBytes + MinRead
    BY <1>2, <2>1
  <2> QED BY <2>2 DEF B
<1>4. Sound(g) /\ Held(g) = Held(b) /\ n <= Available(g)
  <2>1. CASE n > free
    <3>1. g = Grow(b, newCap)
      BY <2>1
    <3> HIDE DEF g, newCap
    <3>2. /\ g.size >= newCap /\ g.size >= b.size /\ Held(g) = Held(b) /\ g.size \in Nat
          /\ Buffered(b) < g.size => Sound(g) /\ Buffered(g) = Buffered(b)
      BY <1>3, <3>1, GrowKeeps DEF Rings
    <3>3. Buffered(b) < g.size
      BY <1>2, <1>3, <3>2
    <3>4. Buffered(g) + Available(g) = g.size /\ Available(g) \in Int
      BY <3>2, <3>3, Counts DEF Available
    <3> QED BY <1>2, <1>3, <3>2, <3>3, <3>4
  <2>2. CASE ~(n > free)
    <3>1. g = b
      BY <2>2
    <3> HIDE DEF g
    <3> QED BY <1>2, <2>2, <3>1
  <2> QED BY <2>1, <2>2
<1> HIDE DEF g
<1>5. /\ g.size \in Nat /\ g.r \in Nat /\ g.w \in Nat /\ g.w < g.size /\ k \in Nat
      /\ g.buf \in [0..(g.size - 1) -> Slot]
  <2>1. g.size \in Nat /\ g.r \in Nat /\ g.w \in Nat /\ g.w < g.size
    <3> HIDE DEF n
    <3> QED BY <1>2, <1>4, Room
  <2> QED BY <1>4, <2>1 DEF Sound
<1>6. FilledWith(g, p, c)
  <2>1. CASE over
    <3> DEFINE new == Copy(Copy(g.buf, g.w, SubSeq(p, 1, k)), 0, SubSeq(p, k + 1, n))
    <3>1. buf = new /\ w = n - k /\ w \in Nat
      <4>1. buf = new /\ w = n - k
        BY <2>1
      <4>2. k < n
        BY <2>1
      <4> HIDE DEF n, k, w
      <4> QED BY <1>2, <1>5, <4>1, <4>2
    <3>2. new \in [0..(g.size - 1) -> Slot]
      <4> DEFINE s == SubSeq(p, 1, k)
                 t == SubSeq(p, k + 1, n)
                 one == Copy(g.buf, g.w, s)
      <4>1. p \in Seq(Slot)
        BY DEF Slot
      <4>2. s \in Seq(Slot) /\ t \in Seq(Slot)
        <5>1. k < Len(p)
          BY <2>1
        <5> HIDE DEF k
        <5> QED BY <4>1, <1>5, <5>1
      <4> HIDE DEF s, t
      <4>3. one \in [0..(g.size - 1) -> Slot]
        BY <1>5, <4>2, CopyAt
      <4> HIDE DEF one
      <4>4. Copy(one, 0, t) \in [0..(g.size - 1) -> Slot]
        BY <1>5, <4>2, <4>3, CopyAt
      <4> QED BY <4>4 DEF one, s, t
    <3>3. c = [g EXCEPT !.buf = new, !.w = n - k, !.isEmpty = FALSE]
      BY <3>1
    <3> HIDE DEF c, buf, w
    <3>4. /\ c \in Rings /\ c.buf = new /\ c.w = n - k /\ c.size = g.size /\ c.r = g.r /\ ~Empty(c)
      <4> DEFINE v == n - k
      <4>1. v \in Nat /\ c = Refill(g, new, v)
        BY <3>1, <3>3 DEF Refill
      <4> HIDE DEF v, new
      <4>2. /\ c \in Rings /\ c.buf = new /\ c.w = v /\ c.size = g.size /\ c.r = g.r /\ ~Empty(c)
        BY <1>4, <3>2, <4>1, Refilled
      <4> QED BY <4>2 DEF v
    <3>5. g.w >= g.r /\ g.size - g.w < Len(p)
      BY <2>1
    <3> QED BY <1>2, <1>4, <3>4, <3>5, FillsSplit
  <2>2. CASE ~over
    <3> DEFINE new == Copy(g.buf, g.w, p)
               v == WrapW(g.w + n, g.size)
    <3>1. buf = new /\ w = v
      BY <2>2
    <3>2. g.w < g.r \/ n <= g.size - g.w
      <4>1. ~(g.w >= g.r) \/ ~(k < n)
        BY <2>2
      <4> DEFINE r == g.r
                 u == g.w
      <4>2. r \in Nat /\ u \in Nat /\ (~(u >= r) \/ ~(k < n))
        BY <1>5, <4>1
      <4> HIDE DEF n, k, r, u
      <4>3. u < r \/ n <= k
        BY <1>2, <1>5, <4>2
      <4> QED BY <4>3 DEF k, r, u
    <3>3. v \in Nat
      <4> DEFINE u == g.w + n
      <4>1. u \in Nat
        <5> DEFINE x == g.w
        <5>1. x \in Nat
          BY <1>5
        <5> HIDE DEF n, x
        <5>2. x + n \in Nat
          BY <1>2, <5>1
        <5> QED BY <5>2 DEF x
      <4>2. v = IF u = g.size THEN 0 ELSE u
        BY DEF WrapW
      <4> HIDE DEF v, u
      <4> QED BY <4>1, <4>2
    <3>4. new \in [0..(g.size - 1) -> Slot]
      <4>1. p \in Seq(Slot)
        BY DEF Slot
      <4> QED BY <1>5, <4>1, CopyAt
    <3>5. c = Refill(g, new, v)
      BY <3>1 DEF Refill
    <3> HIDE DEF c, buf, w
    <3>6. /\ c \in Rings /\ c.buf = new /\ c.w = v /\ c.size = g.size /\ c.r = g.r /\ ~Empty(c)
      <4> HIDE DEF v, new
      <4> QED BY <1>4, <3>3, <3>4, <3>5, Refilled
    <3> QED BY <1>2, <1>4, <3>2, <3>6, FillsStraight
  <2> QED BY <2>1, <2>2
<1> HIDE DEF c
<1>7. Sound(c) /\ Held(c) = Held(g) \o p
  BY <1>4, <1>6, Filled
<1> QED BY <1>1, <1>4, <1>7

\* New makes an empty buffer.
LEMMA NewSound ==
    ASSUME NEW size, size \in InitSizes
    PROVE  Sound(New(size)) /\ Held(New(size)) = <<>>
<1> DEFINE n == IF size = 0 THEN 0 ELSE CeilToPowerOfTwo(size)
           buf == NewSlice(n)
           b == [buf |-> buf, size |-> n, r |-> 0, w |-> 0, isEmpty |-> TRUE]
<1>1. size \in Nat /\ size <= MaxBytes + MinRead
  BY SizeAssumption
<1>2. n \in Nat
  BY <1>1, CeilBound
<1>3. New(size) = b
  BY DEF New
<1> HIDE DEF n
<1>4. buf \in [0..(n - 1) -> Slot]
  BY DEF NewSlice, Slot
<1> HIDE DEF buf
<1>5. b \in Rings
  <2>1. buf \in UNION {[0..(k - 1) -> Slot] : k \in Nat}
    BY <1>2, <1>4
  <2> QED BY <1>2, <2>1 DEF Rings
<1>6. b.buf = buf /\ b.size = n /\ b.r = 0 /\ b.w = 0 /\ b.isEmpty = TRUE
  OBVIOUS
<1> HIDE DEF b
<1>7. Sound(b)
  BY <1>4, <1>5, <1>6 DEF Sound, Empty
<1>8. Buffered(b) = 0
  BY <1>6, <1>7, Counts DEF Empty
<1>9. Held(b) = <<>>
  BY <1>7, <1>8, HeldAt
<1> QED BY <1>3, <1>7, <1>9

\* One byte at w.
Stored(g, x) ==
    [g EXCEPT !.buf = Copy(g.buf, g.w, <<x>>), !.w = WrapW(g.w + 1, g.size), !.isEmpty = FALSE]

\* It is put at the end of the queue.
LEMMA WriteByteStores ==
    ASSUME NEW g, Sound(g), 1 <= Available(g), g.w < g.size, NEW x, x \in Byte
    PROVE  Sound(Stored(g, x)) /\ Held(Stored(g, x)) = Held(g) \o <<x>>
<1> DEFINE p == <<x>>
           buf == Copy(g.buf, g.w, p)
           w == WrapW(g.w + 1, g.size)
           c == [g EXCEPT !.buf = buf, !.w = w, !.isEmpty = FALSE]
<1>1. p \in Seq(Byte) /\ p \in Seq(Slot) /\ Len(p) = 1
  BY DEF Slot
<1>2. c = Refill(g, buf, w)
  BY DEF Refill
<1> HIDE DEF p, c
<1>3. /\ g.size \in Nat /\ g.w \in Nat /\ g.buf \in [0..(g.size - 1) -> Slot]
  BY DEF Sound, Rings
<1>4. buf \in [0..(g.size - 1) -> Slot]
  BY <1>1, <1>3, CopyAt
<1>5. w \in Nat
  BY <1>3 DEF WrapW
<1>6. /\ c \in Rings /\ c.buf = buf /\ c.w = w /\ c.size = g.size /\ c.r = g.r /\ ~Empty(c)
  <2> HIDE DEF buf, w
  <2> QED BY <1>2, <1>4, <1>5, Refilled
<1>7. /\ Len(p) > 0 /\ Len(p) <= Available(g) /\ (g.w < g.r \/ Len(p) <= g.size - g.w)
      /\ c.w = WrapW(g.w + Len(p), g.size)
  BY <1>1, <1>3, <1>6
<1>8. FilledWith(g, p, c)
  BY <1>1, <1>6, <1>7, FillsStraight
<1>9. Sound(c) /\ Held(c) = Held(g) \o p
  BY <1>8, Filled
<1> QED BY <1>9 DEF c, p, Stored

\* WriteByte's room: a buffer with a free slot has it at w.
LEMMA FreeSlot ==
    ASSUME NEW b, Sound(b), ~(Available(b) < 1)
    PROVE  b.w < b.size /\ 1 <= Available(b)
<1>1. b.size \in Nat /\ Buffered(b) \in 0..b.size /\ Buffered(b) + Available(b) = b.size /\ b.w \in Nat
  BY Counts
<1>2. Available(b) \in Int
  BY Counts DEF Available
<1>3. 1 <= Available(b)
  BY <1>2
<1> DEFINE n == 1
<1>4. n \in Nat /\ n > 0 /\ n <= Available(b)
  BY <1>3
<1> HIDE DEF n
<1>5. b.w < b.size
  BY <1>4, Room
<1> QED BY <1>3, <1>5

\* WriteByte stores one byte when the buffer has a slot for it after grow(1).
LEMMA WriteBytePuts ==
    ASSUME NEW b, Sound(b), NEW x, x \in Byte,
           NEW g, g = IF Available(b) < 1 THEN Grow(b, 1) ELSE b
    PROVE  /\ g.w < g.size =>
                Sound(Stored(g, x)) /\ Held(Stored(g, x)) = Held(b) \o <<x>>
           /\ ~(g.w < g.size) =>
                g \in Rings /\ g.buf \in [0..(g.size - 1) -> Slot] /\ Held(g) = Held(b)
<1>1. /\ b.size \in Nat /\ Buffered(b) \in 0..b.size /\ MinRead \in Nat \ {0} /\ MaxBytes \in Nat
  BY Counts, SizeAssumption
<1>2. CASE Available(b) < 1
  <2>1. g = Grow(b, 1)
    BY <1>2
  <2>2. 1 \in Nat /\ (b.size = 0 => 1 <= MaxBytes + MinRead)
    BY <1>1
  <2>3. /\ g \in Rings /\ g.buf \in [0..(g.size - 1) -> Slot] /\ g.w = Buffered(b)
        /\ Held(g) = Held(b)
        /\ Buffered(b) < g.size => Sound(g) /\ Buffered(g) = Buffered(b)
    <3> DEFINE n == 1
    <3>1. n \in Nat /\ (b.size = 0 => n <= MaxBytes + MinRead) /\ g = Grow(b, n)
      BY <2>1, <2>2
    <3> HIDE DEF n
    <3> QED BY <3>1, GrowKeeps
  <2>4. ASSUME g.w < g.size PROVE Sound(g) /\ 1 <= Available(g)
    <3>1. Sound(g) /\ Buffered(g) < g.size
      BY <2>3, <2>4
    <3>2. Buffered(g) + Available(g) = g.size /\ Available(g) \in Int /\ Buffered(g) \in Nat /\ g.size \in Nat
      BY <3>1, Counts DEF Available
    <3> QED BY <3>1, <3>2
  <2> QED BY <2>3, <2>4, WriteByteStores
<1>3. CASE ~(Available(b) < 1)
  <2>1. g = b
    BY <1>3
  <2>2. g.w < g.size /\ 1 <= Available(g)
    BY <1>3, <2>1, FreeSlot
  <2> QED BY <2>1, <2>2, WriteByteStores
<1> QED BY <1>2, <1>3

-------------------------------------------------------------------------------
(* ReadFrom *)

\* Before the first read there is room for MinRead bytes.
LEMMA RoomyRooms ==
    ASSUME NEW b, Sound(b), NEW g, g = Roomy(b)
    PROVE  Sound(g) /\ Held(g) = Held(b) /\ Available(g) \in Nat /\ Available(g) > 0
<1>1. /\ b.size \in Nat /\ Buffered(b) \in 0..b.size /\ MinRead \in Nat \ {0} /\ MaxBytes \in Nat
      /\ Empty(b) \/ b.size > 0
  BY Counts, SizeAssumption
<1>2. CASE Available(b) < MinRead
  <2> DEFINE n == Buffered(b) + MinRead
  <2>1. g = Grow(b, n)
    BY <1>2 DEF Roomy
  <2>2. n \in Nat /\ n > Buffered(b) /\ (b.size = 0 => n <= MaxBytes + MinRead)
    BY <1>1
  <2> HIDE DEF n
  <2>3. /\ g \in Rings /\ g.size >= n /\ Held(g) = Held(b)
        /\ Buffered(b) < g.size => Sound(g) /\ Buffered(g) = Buffered(b)
    BY <2>1, <2>2, GrowKeeps
  <2>4. g.size \in Nat
    BY <2>3 DEF Rings
  <2>5. Sound(g) /\ Buffered(g) < g.size
    BY <1>1, <2>2, <2>3, <2>4
  <2>6. Buffered(g) + Available(g) = g.size /\ Available(g) \in Int /\ Buffered(g) \in Nat
    BY <2>5, Counts DEF Available
  <2> QED BY <2>3, <2>4, <2>5, <2>6
<1>3. CASE ~(Available(b) < MinRead)
  <2>1. g = b
    BY <1>3 DEF Roomy
  <2>2. Available(b) \in Int
    BY Counts DEF Available
  <2> QED BY <1>1, <1>3, <2>1, <2>2
<1> QED BY <1>2, <1>3

\* One call of the reader into the room from w on.
LEMMA ReadPuts ==
    ASSUME NEW g, Sound(g), NEW p, p \in Seq(Byte),
           Len(p) > 0 => Available(g) \in Nat /\ Available(g) > 0,
           Len(p) = 0 => ~Empty(g),
           Len(p) <= (IF g.w >= g.r THEN g.size ELSE g.r) - g.w,
           NEW c, c \in Rings, c.buf = Copy(g.buf, g.w, p), c.size = g.size, c.r = g.r,
           ~Empty(c), c.w = (g.w + Len(p)) % g.size
    PROVE  Sound(c) /\ Held(c) = Held(g) \o p
<1>1. /\ g.size \in Nat /\ g.r \in Nat /\ g.w \in Nat /\ g.buf \in [0..(g.size - 1) -> Slot]
      /\ Len(p) \in Nat
  BY DEF Sound, Rings
<1>2. CASE Len(p) > 0
  <2>1. Available(g) \in Nat /\ Available(g) > 0
    BY <1>2
  <2>2. /\ Buffered(g) + Available(g) = g.size /\ Buffered(g) \in Nat
        /\ Counted(Buffered(g), g.size, g.r, g.w) /\ g.r < g.size /\ g.w < g.size
    <3> DEFINE n == 1
    <3>1. n \in Nat /\ n > 0 /\ n <= Available(g)
      BY <2>1
    <3> HIDE DEF n
    <3> QED BY <3>1, Room, Counts
  <2>3. Len(p) <= Available(g) /\ (g.w < g.r \/ Len(p) <= g.size - g.w)
    <3> DEFINE n == Len(p)
               A == Available(g)
               B == Buffered(g)
               size == g.size
               r == g.r
               w == g.w
    <3>1. /\ n \in Nat /\ A \in Nat /\ B \in Nat /\ size \in Nat /\ r \in Nat /\ w \in Nat
          /\ n <= (IF w >= r THEN size ELSE r) - w /\ A > 0 /\ B + A = size
          /\ Counted(B, size, r, w)
      BY <1>1, <2>1, <2>2
    <3> HIDE DEF n, A, B, size, r, w
    <3>2. n <= A /\ (w < r \/ n <= size - w)
      BY <3>1 DEF Counted
    <3> QED BY <3>2 DEF n, A, size, r, w
  <2>4. FilledWith(g, p, c)
    BY <1>2, <2>3, FillsStraight
  <2> QED BY <2>4, Filled
<1>3. CASE Len(p) = 0
  <2>1. p = <<>> /\ ~Empty(g)
    BY <1>3
  <2>2. g.r < g.size /\ g.w < g.size
    BY <2>1 DEF Sound
  <2>3. c.buf = g.buf
    <3> DEFINE new == Copy(g.buf, g.w, p)
    <3>1. \A k \in DOMAIN g.buf : new[k] = g.buf[k]
      BY <1>1, <1>3 DEF Copy
    <3>2. new = [k \in DOMAIN g.buf |-> new[k]] /\ g.buf = [k \in DOMAIN g.buf |-> g.buf[k]]
      BY <1>1 DEF Copy
    <3> HIDE DEF new
    <3>3. new = g.buf
      BY <3>1, <3>2
    <3> QED BY <3>3 DEF new
  <2>4. c.w = g.w
    <3> DEFINE x == g.w
               size == g.size
    <3>1. x \in Nat /\ size \in Nat /\ x < size /\ c.w = (x + 0) % size
      BY <1>1, <1>3, <2>2
    <3> HIDE DEF x, size
    <3>2. x + 0 = x /\ x % size = x
      BY <3>1
    <3> QED BY <3>1, <3>2 DEF x
  <2>5. Sound(c)
    BY <1>1, <2>2, <2>3, <2>4 DEF Sound
  <2>6. Buffered(c) = Buffered(g)
    <3>1. /\ g.w > g.r => Buffered(g) = g.w - g.r
          /\ g.w <= g.r => Buffered(g) = g.size - g.r + g.w
      BY <2>1, Counts
    <3>2. /\ c.w > c.r => Buffered(c) = c.w - c.r
          /\ c.w <= c.r => Buffered(c) = c.size - c.r + c.w
      BY <2>5, Counts
    <3>3. g.w > g.r \/ g.w <= g.r
      BY <1>1
    <3> QED BY <2>4, <3>1, <3>2, <3>3
  <2>7. Held(c) = Held(g)
    BY <2>3, <2>6 DEF Held
  <2>8. Held(g) \o <<>> = Held(g)
    <3> DEFINE h == Held(g)
    <3>1. h \in Seq(Slot)
      BY HeldAt
    <3> HIDE DEF h
    <3>2. h \o <<>> = h
      BY <3>1
    <3> QED BY <3>2 DEF h
  <2> QED BY <2>1, <2>5, <2>7, <2>8
<1>4. Len(p) > 0 \/ Len(p) = 0
  BY <1>1
<1> QED BY <1>2, <1>3, <1>4

\* The fields after one call of the reader.
LEMMA ReadIntoFields ==
    ASSUME NEW g, Sound(g), NEW p, p \in Seq(Byte), g.size > 0, NEW at \in Nat
    PROVE  /\ LET c == ReadInto(g, at, p)
              IN  /\ c \in Rings /\ c.buf = Copy(g.buf, at, p) /\ c.size = g.size /\ c.r = g.r
                  /\ c.isEmpty = g.isEmpty /\ c.w = (g.w + Len(p)) % g.size
           /\ LET c == [ReadInto(g, at, p) EXCEPT !.isEmpty = FALSE]
              IN  /\ c \in Rings /\ c.buf = Copy(g.buf, at, p) /\ c.size = g.size /\ c.r = g.r
                  /\ ~Empty(c) /\ c.w = (g.w + Len(p)) % g.size
<1> DEFINE U == UNION {[0..(n - 1) -> Slot] : n \in Nat}
           buf == Copy(g.buf, at, p)
           w == (g.w + Len(p)) % g.size
           c == ReadInto(g, at, p)
           d == [c EXCEPT !.isEmpty = FALSE]
<1>1. /\ g \in Rings /\ g.size \in Nat /\ g.w \in Nat /\ g.buf \in [0..(g.size - 1) -> Slot]
      /\ Len(p) \in Nat /\ p \in Seq(Slot)
  BY DEF Sound, Rings, Slot
<1>2. buf \in U
  <2>1. buf \in [0..(g.size - 1) -> Slot]
    BY <1>1, CopyAt
  <2> QED BY <1>1, <2>1
<1>3. w \in Nat
  <2> DEFINE x == g.w + Len(p)
             size == g.size
  <2>1. x \in Nat /\ size \in Nat /\ size > 0
    BY <1>1
  <2> HIDE DEF x, size
  <2>2. x % size \in Nat
    BY <2>1
  <2> QED BY <2>2 DEF x, size
<1>4. g \in [buf : U, size : Nat, r : Nat, w : Nat, isEmpty : BOOLEAN]
  BY <1>1 DEF Rings
<1>5. c = [g EXCEPT !.buf = buf, !.w = w]
  BY DEF ReadInto
<1> HIDE DEF U, buf, w, c
<1>6. /\ c \in [buf : U, size : Nat, r : Nat, w : Nat, isEmpty : BOOLEAN]
      /\ c.buf = buf /\ c.w = w /\ c.size = g.size /\ c.r = g.r /\ c.isEmpty = g.isEmpty
  BY <1>2, <1>3, <1>4, <1>5
<1>7. /\ d \in [buf : U, size : Nat, r : Nat, w : Nat, isEmpty : BOOLEAN]
      /\ d.buf = c.buf /\ d.w = c.w /\ d.size = c.size /\ d.r = c.r /\ d.isEmpty = FALSE
  BY <1>6
<1> HIDE DEF d
<1>8. ~Empty(d)
  BY <1>7, Zenon DEF Empty
<1>9. c \in Rings /\ d \in Rings
  BY <1>6, <1>7 DEF Rings, U
<1> QED BY <1>6, <1>7, <1>8, <1>9, Zenon DEF c, d, buf, w

-------------------------------------------------------------------------------
(* The steps of the queue *)

\* The inductive invariant: between the two reads of ReadFrom w is at the front
\* of the slice, and only a WriteByte that found no slot leaves an unsound buffer.
RingInv ==
    /\ mode \in {"idle", "first", "second", "panicked"}
    /\ rb \in Rings /\ rb.buf \in [0..(rb.size - 1) -> Slot]
    /\ mode # "panicked" => Sound(rb) /\ Held(rb) \in Seq(Byte)
    /\ mode = "second" => rb.w = 0 /\ ~Empty(rb)

\* The queue's operators are the buffer's.
LEMMA Lesses ==
    /\ Content = Held(rb) /\ Content' = Held(rb')
    /\ \A a, b : Queue!Smaller(a, b) = Lesser(a, b)
    /\ \A s, n : Queue!Front(s, n) = SubSeq(s, 1, n) /\ Queue!Rest(s, n) = SubSeq(s, n + 1, Len(s))
BY DEF Content, Held, Queue!Smaller, Lesser, Queue!Front, Queue!Rest, Buffered

\* Parts of a queue of bytes.
LEMMA Parts ==
    ASSUME NEW q, q \in Seq(Byte), NEW m, m \in Nat, m <= Len(q)
    PROVE  /\ SubSeq(q, m + 1, Len(q)) \in Seq(Byte)
           /\ m = 0 => SubSeq(q, m + 1, Len(q)) = q
<1>1. Len(q) \in Nat
  OBVIOUS
<1>2. SubSeq(q, m + 1, Len(q)) \in Seq(Byte)
  BY <1>1
<1>3. SubSeq(q, 0 + 1, Len(q)) = q
  BY <1>1
<1> QED BY <1>2, <1>3

\* How many bytes a call that asks for n gets.
LEMMA LesserBound ==
    ASSUME NEW n, n \in Nat, NEW B, B \in Nat
    PROVE  /\ Lesser(n, B) \in Nat /\ Lesser(n, B) <= B
           /\ n = 0 \/ B = 0 => Lesser(n, B) = 0
           /\ n > 0 /\ B > 0 => Lesser(n, B) > 0
           /\ n <= B => Lesser(n, B) = n
BY DEF Lesser

\* Read, ReadByte and WriteTo take.
LEMMA TakeStep ==
    ASSUME Sound(rb), NEW n, n \in Nat,
           Held(rb') = SubSeq(Held(rb), Lesser(n, Buffered(rb)) + 1, Len(Held(rb))),
           op' = [kind |-> "take", ask |-> n, data |-> SubSeq(Held(rb), 1, Lesser(n, Buffered(rb)))]
    PROVE  Queue!Take
<1>1. op'.ask = n /\ op'.data = SubSeq(Held(rb), 1, Lesser(n, Buffered(rb)))
  OBVIOUS
<1>2. Len(Content) = Buffered(rb) /\ Content = Held(rb) /\ Content' = Held(rb')
  BY HeldAt, Lesses
<1>3. Queue!Smaller(op'.ask, Len(Content)) = Lesser(n, Buffered(rb))
  BY <1>1, <1>2, Lesses
<1> QED BY <1>1, <1>2, <1>3, Lesses DEF Queue!Take

\* Discard drops.
LEMMA DropStep ==
    ASSUME Sound(rb), NEW n, n \in Nat,
           Held(rb') = SubSeq(Held(rb), Lesser(n, Buffered(rb)) + 1, Len(Held(rb))),
           op' = [kind |-> "drop", ask |-> n, data |-> <<>>]
    PROVE  Queue!Drop
<1>1. op'.ask = n
  OBVIOUS
<1>2. Len(Content) = Buffered(rb) /\ Content = Held(rb) /\ Content' = Held(rb')
  BY HeldAt, Lesses
<1>3. Queue!Smaller(op'.ask, Len(Content)) = Lesser(n, Buffered(rb))
  BY <1>1, <1>2, Lesses
<1> QED BY <1>1, <1>2, <1>3, Lesses DEF Queue!Drop

\* Peek and Bytes look.
LEMMA LookStep ==
    ASSUME Sound(rb), NEW n, n \in Nat, UNCHANGED rb,
           op' = [kind |-> "look", ask |-> n,
                  data |-> SubSeq(Held(rb), 1, IF n = 0 THEN Buffered(rb) ELSE Lesser(n, Buffered(rb)))]
    PROVE  Queue!Look
<1>1. op'.ask = n
  OBVIOUS
<1>2. Len(Content) = Buffered(rb) /\ Content = Held(rb) /\ Content' = Held(rb')
  BY HeldAt, Lesses
<1>3. Queue!Smaller(op'.ask, Len(Content)) = Lesser(n, Buffered(rb))
  BY <1>1, <1>2, Lesses
<1> QED BY <1>1, <1>2, <1>3, Lesses DEF Queue!Look

\* Write, WriteByte and every call of a reader put.
LEMMA PutStep ==
    ASSUME NEW p, p \in Seq(Byte), Held(rb') = Held(rb) \o p,
           op' = [kind |-> "put", ask |-> Len(p), data |-> p]
    PROVE  Queue!Put
<1>1. op'.data = p
  OBVIOUS
<1> QED BY <1>1, Lesses DEF Queue!Put

\* A buffer at rest, sound and with bytes only, meets the invariant.
LEMMA Rests ==
    ASSUME Sound(rb'), Held(rb') \in Seq(Byte), mode' \in {"idle", "first"}
    PROVE  RingInv'
BY DEF RingInv, Sound

-------------------------------------------------------------------------------
(* One lemma per action *)

\* What a step must do.
Good == RingInv' /\ (Queue!Next \/ UNCHANGED <<Content, op>>)

\* What the invariant says of a buffer nobody is writing to.
LEMMA AtRest ==
    ASSUME RingInv, mode # "panicked"
    PROVE  /\ Sound(rb) /\ Held(rb) \in Seq(Byte) /\ Len(Held(rb)) = Buffered(rb)
           /\ Buffered(rb) \in Nat /\ rb.size \in Nat
           /\ Empty(rb) <=> rb.isEmpty
           /\ Empty(rb) => Buffered(rb) = 0
           /\ ~Empty(rb) => Buffered(rb) > 0
<1>1. Sound(rb) /\ Held(rb) \in Seq(Byte) /\ rb \in Rings
  BY DEF RingInv
<1>2. Empty(rb) <=> rb.isEmpty
  BY <1>1, NotEmpty, Zenon DEF Empty
<1> QED BY <1>1, <1>2, Counts, HeldAt

\* A step that leaves what Rest would leave is good.
LEMMA Consumes ==
    ASSUME RingInv, mode = "idle", UNCHANGED mode, NEW m, m \in Nat, m <= Buffered(rb),
           \/ m = 0 /\ rb' = rb
           \/ Sound(rb') /\ Held(rb') = SubSeq(Held(rb), m + 1, Len(Held(rb)))
    PROVE  RingInv' /\ Held(rb') = SubSeq(Held(rb), m + 1, Len(Held(rb)))
<1>1. mode # "panicked"
  OBVIOUS
<1>2. Sound(rb) /\ Held(rb) \in Seq(Byte) /\ Len(Held(rb)) = Buffered(rb)
  BY <1>1, AtRest
<1>3. /\ SubSeq(Held(rb), m + 1, Len(Held(rb))) \in Seq(Byte)
      /\ m = 0 => SubSeq(Held(rb), m + 1, Len(Held(rb))) = Held(rb)
  <2> DEFINE q == Held(rb)
  <2>1. q \in Seq(Byte) /\ m <= Len(q)
    BY <1>2
  <2> HIDE DEF q
  <2>2. SubSeq(q, m + 1, Len(q)) \in Seq(Byte) /\ (m = 0 => SubSeq(q, m + 1, Len(q)) = q)
    BY <2>1, Parts
  <2> QED BY <2>2 DEF q
<1>4. Sound(rb') /\ Held(rb') = SubSeq(Held(rb), m + 1, Len(Held(rb)))
  <2>1. CASE m = 0 /\ rb' = rb
    BY <1>2, <1>3, <2>1
  <2> QED BY <2>1
<1>5. Held(rb') \in Seq(Byte) /\ mode' \in {"idle", "first"}
  BY <1>3, <1>4
<1> QED BY <1>4, <1>5, Rests

\* Peek and Bytes.
LEMMA PeekGood ==
    ASSUME RingInv, NEW n \in 0..MaxAsk, DoPeek(n)
    PROVE  Good
<1>1. n \in Nat /\ mode = "idle" /\ UNCHANGED <<rb, mode>>
  BY SizeAssumption DEF DoPeek
<1>2. Sound(rb) /\ Held(rb) \in Seq(Byte)
  BY <1>1, AtRest
<1>3. op' = [kind |-> "look", ask |-> n, data |-> IF n = 0 THEN PeekAll(rb) ELSE Peek(rb, n)]
  BY DEF DoPeek, Called
<1>4. (IF n = 0 THEN PeekAll(rb) ELSE Peek(rb, n))
          = SubSeq(Held(rb), 1, IF n = 0 THEN Buffered(rb) ELSE Lesser(n, Buffered(rb)))
  <2>1. CASE n = 0
    BY <1>1, <1>2, <2>1, PeekShows
  <2>2. CASE n # 0
    BY <1>1, <1>2, <2>2, PeekShows
  <2> QED BY <2>1, <2>2
<1>5. Queue!Look
  BY <1>1, <1>2, <1>3, <1>4, LookStep
<1>6. RingInv'
  BY <1>1 DEF RingInv
<1> QED BY <1>5, <1>6 DEF Good, Queue!Next

\* Discard.
LEMMA DiscardGood ==
    ASSUME RingInv, NEW n \in 0..MaxAsk, DoDiscard(n)
    PROVE  Good
<1> DEFINE m == Lesser(n, Buffered(rb))
<1>1. n \in Nat /\ mode = "idle" /\ UNCHANGED mode
  BY SizeAssumption DEF DoDiscard
<1>2. /\ Sound(rb) /\ Buffered(rb) \in Nat
  BY <1>1, AtRest
<1>3. m \in Nat /\ m <= Buffered(rb) /\ (n = 0 => m = 0)
  BY <1>1, <1>2, LesserBound
<1>4. \/ m = 0 /\ rb' = rb
      \/ Sound(rb') /\ Held(rb') = SubSeq(Held(rb), m + 1, Len(Held(rb)))
  <2>1. CASE n = 0
    BY <1>3, <2>1 DEF DoDiscard
  <2>2. CASE n # 0
    <3>1. rb' = AfterDiscard(rb, n) /\ 0 < n
      BY <1>1, <2>2 DEF DoDiscard
    <3> QED BY <1>1, <1>2, <3>1, DiscardConsumes
  <2> QED BY <2>1, <2>2
<1>5. op' = [kind |-> "drop", ask |-> n, data |-> <<>>]
  BY DEF DoDiscard, Called
<1>6. RingInv' /\ Held(rb') = SubSeq(Held(rb), m + 1, Len(Held(rb)))
  <2> HIDE DEF m
  <2> QED BY <1>1, <1>3, <1>4, Consumes
<1>7. Queue!Drop
  BY <1>1, <1>2, <1>5, <1>6, DropStep
<1> QED BY <1>6, <1>7 DEF Good, Queue!Next

\* Read.
LEMMA ReadGood ==
    ASSUME RingInv, NEW n \in 0..MaxAsk, DoRead(n)
    PROVE  Good
<1> DEFINE m == Lesser(n, Buffered(rb))
<1>1. n \in Nat /\ mode = "idle" /\ UNCHANGED mode
  BY SizeAssumption DEF DoRead
<1>2. /\ Sound(rb) /\ Buffered(rb) \in Nat /\ (Empty(rb) <=> rb.isEmpty)
      /\ Empty(rb) => Buffered(rb) = 0
      /\ ~Empty(rb) => Buffered(rb) > 0
  BY <1>1, AtRest
<1>3. /\ m \in Nat /\ m <= Buffered(rb) /\ (n = 0 \/ Empty(rb) => m = 0)
      /\ n > 0 /\ ~Empty(rb) => m > 0
  BY <1>1, <1>2, LesserBound
<1>4. \/ m = 0 /\ rb' = rb
      \/ Sound(rb') /\ Held(rb') = SubSeq(Held(rb), m + 1, Len(Held(rb)))
  <2>1. CASE n = 0 \/ Empty(rb)
    <3>1. rb' = rb
      BY <1>2, <2>1, Zenon DEF DoRead
    <3> QED BY <1>3, <2>1, <3>1
  <2>2. CASE ~(n = 0 \/ Empty(rb))
    <3>1. rb' = AfterRead(rb, m)
      BY <1>2, <2>2, Zenon DEF DoRead
    <3>2. 0 < m
      <4>1. n > 0 /\ ~Empty(rb)
        BY <1>1, <2>2
      <4> QED BY <1>3, <4>1
    <3> HIDE DEF m
    <3> QED BY <1>2, <1>3, <3>1, <3>2, ReadConsumes
  <2> QED BY <2>1, <2>2
<1>5. op' = [kind |-> "take", ask |-> n, data |-> SubSeq(Held(rb), 1, m)]
  <2>1. op' = [kind |-> "take", ask |-> n, data |-> Peek(rb, n)]
    BY DEF DoRead, Called
  <2> QED BY <1>1, <1>2, <2>1, PeekShows
<1>6. RingInv' /\ Held(rb') = SubSeq(Held(rb), m + 1, Len(Held(rb)))
  <2> HIDE DEF m
  <2> QED BY <1>1, <1>3, <1>4, Consumes
<1>7. Queue!Take
  BY <1>1, <1>2, <1>5, <1>6, TakeStep
<1> QED BY <1>6, <1>7 DEF Good, Queue!Next

\* ReadByte.
LEMMA ReadByteGood ==
    ASSUME RingInv, DoReadByte
    PROVE  Good
<1> DEFINE n == 1
           m == Lesser(n, Buffered(rb))
<1>1. n \in Nat /\ n > 0 /\ mode = "idle" /\ UNCHANGED mode
  BY DEF DoReadByte
<1>2. /\ Sound(rb) /\ Buffered(rb) \in Nat /\ (Empty(rb) <=> rb.isEmpty)
      /\ Held(rb) \in Seq(Byte) /\ Len(Held(rb)) = Buffered(rb)
      /\ Empty(rb) => Buffered(rb) = 0
      /\ ~Empty(rb) => Buffered(rb) > 0
  BY <1>1, AtRest
<1>3. /\ m \in Nat /\ m <= Buffered(rb) /\ (Empty(rb) => m = 0) /\ (~Empty(rb) => m = n)
  <2> HIDE DEF n
  <2>1. ~Empty(rb) => n <= Buffered(rb)
    BY <1>2 DEF n
  <2> QED BY <1>1, <1>2, <2>1, LesserBound
<1>4. /\ \/ m = 0 /\ rb' = rb
         \/ Sound(rb') /\ Held(rb') = SubSeq(Held(rb), m + 1, Len(Held(rb)))
      /\ op' = [kind |-> "take", ask |-> n, data |-> SubSeq(Held(rb), 1, m)]
  <2>1. CASE Empty(rb)
    <3>1. rb' = rb /\ op' = [kind |-> "take", ask |-> n, data |-> <<>>]
      BY <1>2, <2>1, Zenon DEF DoReadByte, Called
    <3>2. SubSeq(Held(rb), 1, 0) = <<>>
      BY <1>2
    <3> QED BY <1>3, <2>1, <3>1, <3>2
  <2>2. CASE ~Empty(rb)
    <3>1. rb' = AfterReadByte(rb) /\ op' = [kind |-> "take", ask |-> n, data |-> <<rb.buf[rb.r]>>]
      BY <1>2, <2>2, Zenon DEF DoReadByte, Called
    <3>2. /\ Sound(rb') /\ Held(rb') = SubSeq(Held(rb), 2, Len(Held(rb)))
          /\ rb.buf[rb.r] = Held(rb)[1]
      BY <1>2, <2>2, <3>1, ReadByteConsumes
    <3>3. SubSeq(Held(rb), 1, 1) = <<Held(rb)[1]>>
      <4> DEFINE q == Held(rb)
      <4>1. q \in Seq(Byte) /\ Len(q) > 0 /\ Len(q) \in Nat
        BY <1>2, <2>2
      <4> HIDE DEF q
      <4> DEFINE s == SubSeq(q, 1, 1)
                 u == <<q[1]>>
      <4>3. s \in Seq(Byte) /\ Len(s) = 1 /\ s[1] = q[1]
        BY <4>1
      <4>4. u \in Seq(Byte) /\ Len(u) = 1 /\ u[1] = q[1]
        BY <4>1
      <4>2. s = u
        <5> HIDE DEF s, u
        <5> QED BY <4>3, <4>4, SeqEqual
      <4> QED BY <4>2 DEF q
    <3>4. m = 1 /\ m + 1 = 2
      BY <1>3, <2>2
    <3> HIDE DEF m
    <3>5. Sound(rb') /\ Held(rb') = SubSeq(Held(rb), m + 1, Len(Held(rb)))
      BY <3>2, <3>4, Zenon
    <3>6. op' = [kind |-> "take", ask |-> n, data |-> SubSeq(Held(rb), 1, m)]
      BY <3>1, <3>2, <3>3, <3>4
    <3> QED BY <3>5, <3>6
  <2> QED BY <2>1, <2>2
<1>5. RingInv' /\ Held(rb') = SubSeq(Held(rb), m + 1, Len(Held(rb)))
  <2> HIDE DEF m
  <2> QED BY <1>1, <1>3, <1>4, Consumes
<1>6. Queue!Take
  BY <1>1, <1>2, <1>4, <1>5, TakeStep
<1> QED BY <1>5, <1>6 DEF Good, Queue!Next

\* WriteTo, with a writer that accepts something.
LEMMA WriteToGood ==
    ASSUME RingInv, Refusals = FALSE, NEW n \in 0..MaxAsk, DoWriteTo(n)
    PROVE  Good
<1>1. n \in Nat /\ mode = "idle" /\ UNCHANGED mode /\ n <= Buffered(rb)
  BY SizeAssumption DEF DoWriteTo
<1>2. /\ Sound(rb) /\ Buffered(rb) \in Nat /\ (Empty(rb) <=> rb.isEmpty)
      /\ Empty(rb) => Buffered(rb) = 0
      /\ ~Empty(rb) => Buffered(rb) > 0
  BY <1>1, AtRest
<1>3. Lesser(n, Buffered(rb)) = n
  BY <1>1, <1>2, LesserBound
<1>4. \/ n = 0 /\ rb' = rb
      \/ Sound(rb') /\ Held(rb') = SubSeq(Held(rb), n + 1, Len(Held(rb)))
  <2>1. CASE Empty(rb)
    <3>1. rb' = rb
      BY <1>2, <2>1, Zenon DEF DoWriteTo
    <3> QED BY <1>1, <1>2, <2>1, <3>1
  <2>2. CASE ~Empty(rb)
    <3>1. rb' = AfterWriteTo(rb, n) /\ 0 < n
      BY <1>2, <2>2 DEF DoWriteTo
    <3> QED BY <1>1, <1>2, <3>1, WriteToConsumes
  <2> QED BY <2>1, <2>2
<1>5. op' = [kind |-> "take", ask |-> n, data |-> SubSeq(Held(rb), 1, n)]
  <2>1. op' = [kind |-> "take", ask |-> n, data |-> Peek(rb, n)]
    BY DEF DoWriteTo, Called
  <2> QED BY <1>1, <1>2, <1>3, <2>1, PeekShows
<1>6. RingInv' /\ Held(rb') = SubSeq(Held(rb), n + 1, Len(Held(rb)))
  BY <1>1, <1>4, Consumes
<1>7. Queue!Take
  BY <1>1, <1>2, <1>3, <1>5, <1>6, TakeStep
<1> QED BY <1>6, <1>7 DEF Good, Queue!Next

\* A chunk is a sequence of bytes.
LEMMA ChunkBytes ==
    ASSUME NEW p, p \in Chunks
    PROVE  p \in Seq(Byte) /\ Len(p) \in Nat
<1>1. PICK n \in 0..MaxAsk : p \in [1..n -> Byte]
  BY DEF Chunks
<1>2. n \in Nat
  BY SizeAssumption
<1> QED BY <1>1, <1>2

\* A step that adds p at the end is good, wherever ReadFrom goes on.
LEMMA Adds ==
    ASSUME RingInv, mode # "panicked", NEW p, p \in Seq(Byte), Sound(rb'),
           Held(rb') = Held(rb) \o p,
           op' = [kind |-> "put", ask |-> Len(p), data |-> p],
           mode' \in {"idle", "first", "second"},
           mode' = "second" => rb'.w = 0 /\ ~Empty(rb')
    PROVE  Good
<1>1. Held(rb) \in Seq(Byte)
  BY AtRest
<1>2. Held(rb') \in Seq(Byte)
  BY <1>1
<1>3. RingInv'
  BY <1>2 DEF RingInv, Sound
<1>4. Queue!Put
  BY PutStep
<1> QED BY <1>3, <1>4 DEF Good, Queue!Next

\* Write.
LEMMA WriteGood ==
    ASSUME RingInv, NEW p \in Chunks, DoWrite(p)
    PROVE  Good
<1>1. /\ p \in Seq(Byte) /\ Len(p) \in Nat /\ mode = "idle" /\ UNCHANGED mode
      /\ Buffered(rb) + Len(p) <= MaxBytes
      /\ op' = [kind |-> "put", ask |-> Len(p), data |-> p]
      /\ rb' = IF p = <<>> THEN rb ELSE Write(rb, p)
  BY ChunkBytes DEF DoWrite, Called
<1>2. Sound(rb) /\ Held(rb) \in Seq(Byte)
  BY <1>1, AtRest
<1>3. Sound(rb') /\ Held(rb') = Held(rb) \o p
  <2>1. CASE p = <<>>
    <3> DEFINE q == Held(rb)
    <3>1. q \in Seq(Byte) /\ rb' = rb
      BY <1>1, <1>2, <2>1
    <3>2. Held(rb') = q
      BY <3>1
    <3> HIDE DEF q
    <3>3. q \o <<>> = q
      BY <3>1
    <3> QED BY <1>2, <2>1, <3>1, <3>2, <3>3 DEF q
  <2>2. CASE p # <<>>
    <3>1. rb' = Write(rb, p) /\ Len(p) > 0
      BY <1>1, <2>2
    <3> QED BY <1>1, <1>2, <3>1, WritePuts
  <2> QED BY <2>1, <2>2
<1> QED BY <1>1, <1>3, Adds

\* WriteByte, the panic included: the bytes stay, and only Reset is left to do.
LEMMA WriteByteGood ==
    ASSUME RingInv, NEW x \in Byte, DoWriteByte(x)
    PROVE  Good
<1> DEFINE g == IF Available(rb) < 1 THEN Grow(rb, 1) ELSE rb
<1>1. mode = "idle"
  BY DEF DoWriteByte
<1>2. Sound(rb) /\ Held(rb) \in Seq(Byte)
  BY <1>1, AtRest
<1>3. IF g.w < g.size
      THEN /\ rb' = Stored(g, x)
           /\ op' = [kind |-> "put", ask |-> 1, data |-> <<x>>]
           /\ UNCHANGED mode
      ELSE rb' = g /\ mode' = "panicked" /\ UNCHANGED op
  BY DEF DoWriteByte, Called, Stored
<1>4. /\ g.w < g.size => Sound(Stored(g, x)) /\ Held(Stored(g, x)) = Held(rb) \o <<x>>
      /\ ~(g.w < g.size) =>
            g \in Rings /\ g.buf \in [0..(g.size - 1) -> Slot] /\ Held(g) = Held(rb)
  <2>1. g = IF Available(rb) < 1 THEN Grow(rb, 1) ELSE rb
    OBVIOUS
  <2> HIDE DEF g
  <2> QED BY <1>2, <2>1, WriteBytePuts
<1> HIDE DEF g
<1>5. CASE g.w < g.size
  <2> DEFINE p == <<x>>
  <2>1. p \in Seq(Byte) /\ Len(p) = 1
    OBVIOUS
  <2>2. /\ Sound(rb') /\ Held(rb') = Held(rb) \o p /\ UNCHANGED mode
        /\ op' = [kind |-> "put", ask |-> Len(p), data |-> p]
    BY <1>3, <1>4, <1>5, <2>1
  <2> HIDE DEF p
  <2> QED BY <1>1, <2>1, <2>2, Adds
<1>6. CASE ~(g.w < g.size)
  <2>1. rb' = g /\ mode' = "panicked" /\ UNCHANGED op
    BY <1>3, <1>6
  <2>2. RingInv'
    BY <1>4, <1>6, <2>1 DEF RingInv
  <2>3. UNCHANGED <<Content, op>>
    BY <1>4, <1>6, <2>1, Lesses
  <2> QED BY <2>2, <2>3 DEF Good
<1> QED BY <1>5, <1>6

\* Reset, and the return to the pool.
LEMMA ClearGood ==
    ASSUME RingInv, DoReset \/ Release
    PROVE  Good
<1>1. /\ rb' = Reset(rb) /\ mode' = "idle"
      /\ op' = [kind |-> "none", ask |-> 0, data |-> <<>>]
  BY DEF DoReset, Release
<1>2. Sound(rb') /\ Held(rb') = <<>>
  BY <1>1, ResetSound DEF RingInv
<1>3. RingInv'
  BY <1>1, <1>2, Rests
<1>4. Queue!Clear
  BY <1>1, <1>2, Lesses DEF Queue!Clear, Queue!Idle
<1> QED BY <1>3, <1>4 DEF Good, Queue!Next

\* The first read of a round of ReadFrom.
LEMMA ReadFromFirstGood ==
    ASSUME RingInv, ShortReads = FALSE, NEW p \in Chunks, NEW ends \in BOOLEAN,
           ReadFromFirst(p, ends)
    PROVE  Good
<1> DEFINE g == Roomy(rb)
           k == (IF g.w >= g.r THEN g.size ELSE g.r) - g.w
           c == [ReadInto(g, g.w, p) EXCEPT !.isEmpty = FALSE]
<1>1. /\ mode = "first" /\ Delivers(p, k, ends, g.isEmpty) /\ rb' = c
      /\ mode' = IF ends THEN "idle" ELSE IF g.w >= g.r THEN "second" ELSE "first"
      /\ op' = [kind |-> "put", ask |-> Len(p), data |-> p]
      /\ p \in Seq(Byte) /\ Len(p) \in Nat
  BY ChunkBytes DEF ReadFromFirst, Called
<1>2. Sound(rb)
  BY <1>1, AtRest
<1>3. g = Roomy(rb)
  OBVIOUS
<1> HIDE DEF g
<1>4. Sound(g) /\ Held(g) = Held(rb) /\ Available(g) \in Nat /\ Available(g) > 0
  BY <1>2, <1>3, RoomyRooms
<1>5. /\ g.size \in Nat /\ g.r \in Nat /\ g.w \in Nat /\ g.r < g.size /\ g.w < g.size
  <2> DEFINE n == 1
  <2>1. n \in Nat /\ n > 0 /\ n <= Available(g)
    BY <1>4
  <2> HIDE DEF n
  <2> QED BY <1>4, <2>1, Room
<1>6. k \in Nat /\ k > 0
  BY <1>5
<1>7. /\ Len(p) <= k /\ (Len(p) = k \/ (ends /\ (Len(p) > 0 \/ ~g.isEmpty)))
  BY <1>1, Zenon DEF Delivers
<1>8. Len(p) = 0 => ~Empty(g)
  <2> SUFFICES ASSUME Len(p) = 0 PROVE ~Empty(g)
    OBVIOUS
  <2>1. ~(Len(p) = k) /\ ~(Len(p) > 0)
    BY <1>6
  <2>2. ~g.isEmpty
    BY <1>7, <2>1, Zenon
  <2> QED BY <2>2, Zenon DEF Empty
<1>9. /\ c \in Rings /\ c.buf = Copy(g.buf, g.w, p) /\ c.size = g.size /\ c.r = g.r
      /\ ~Empty(c) /\ c.w = (g.w + Len(p)) % g.size
  <2>1. g.size > 0
    BY <1>5
  <2> QED BY <1>1, <1>4, <1>5, <2>1, ReadIntoFields
<1> HIDE DEF c
<1>10. Sound(c) /\ Held(c) = Held(g) \o p
  <2>1. Len(p) <= (IF g.w >= g.r THEN g.size ELSE g.r) - g.w
    BY <1>7
  <2> QED BY <1>1, <1>4, <1>8, <1>9, <2>1, ReadPuts
<1>11. mode' \in {"idle", "first", "second"}
  BY <1>1
<1>12. ASSUME mode' = "second" PROVE c.w = 0
  <2>1. ~ends /\ g.w >= g.r
    BY <1>1, <1>12
  <2>2. Len(p) = g.size - g.w
    BY <1>7, <2>1
  <2> DEFINE w == g.w
             size == g.size
             n == Len(p)
  <2>3. w \in Nat /\ size \in Nat /\ size > 0 /\ n = size - w /\ c.w = (w + n) % size
    BY <1>5, <1>9, <2>2
  <2> HIDE DEF w, size, n
  <2>4. w + n = size /\ size % size = 0
    BY <2>3
  <2> QED BY <2>3, <2>4
<1>13. /\ Sound(rb') /\ Held(rb') = Held(rb) \o p /\ ~Empty(rb')
       /\ mode' = "second" => rb'.w = 0
  BY <1>1, <1>4, <1>9, <1>10, <1>12
<1> QED BY <1>1, <1>11, <1>13, Adds

\* The second read, into the front of the slice: without short reads the first
\* one filled the end of the slice, so w is 0.
LEMMA ReadFromSecondGood ==
    ASSUME RingInv, NEW p \in Chunks, NEW ends \in BOOLEAN, ReadFromSecond(p, ends)
    PROVE  Good
<1> DEFINE c == ReadInto(rb, 0, p)
<1>1. /\ mode = "second" /\ Len(p) <= rb.r /\ rb' = c
      /\ mode' = IF ends THEN "idle" ELSE "first"
      /\ op' = [kind |-> "put", ask |-> Len(p), data |-> p]
      /\ p \in Seq(Byte) /\ Len(p) \in Nat
  BY ChunkBytes DEF ReadFromSecond, Called, Delivers
<1>2. Sound(rb) /\ rb.w = 0 /\ ~Empty(rb)
  BY <1>1, AtRest DEF RingInv
<1>3. /\ rb.size \in Nat /\ rb.r \in Nat /\ rb.r < rb.size /\ 0 < rb.size
      /\ Buffered(rb) = rb.size - rb.r /\ Available(rb) \in Int
      /\ Buffered(rb) + Available(rb) = rb.size
  <2>1. rb.size \in Nat /\ rb.r \in Nat /\ rb.r < rb.size /\ 0 < rb.size
    BY <1>2 DEF Sound, Rings
  <2>2. Buffered(rb) = rb.size - rb.r + rb.w /\ Buffered(rb) + Available(rb) = rb.size
    BY <1>2, <2>1, Counts
  <2>3. Available(rb) \in Int
    BY <1>2, Counts DEF Available
  <2> QED BY <1>2, <2>1, <2>2, <2>3
<1>4. /\ c \in Rings /\ c.buf = Copy(rb.buf, 0, p) /\ c.size = rb.size /\ c.r = rb.r
      /\ c.isEmpty = rb.isEmpty /\ c.w = (rb.w + Len(p)) % rb.size
  <2> DEFINE z == 0
  <2>1. z \in Nat /\ rb.size > 0
    BY <1>3
  <2> HIDE DEF z
  <2>2. /\ ReadInto(rb, z, p) \in Rings /\ ReadInto(rb, z, p).buf = Copy(rb.buf, z, p)
        /\ ReadInto(rb, z, p).size = rb.size /\ ReadInto(rb, z, p).r = rb.r
        /\ ReadInto(rb, z, p).isEmpty = rb.isEmpty
        /\ ReadInto(rb, z, p).w = (rb.w + Len(p)) % rb.size
    BY <1>1, <1>2, <2>1, ReadIntoFields, ZenonT(30)
  <2> QED BY <2>2 DEF z
<1> HIDE DEF c
<1>5. ~Empty(c) /\ c.buf = Copy(rb.buf, rb.w, p)
  <2>1. ~Empty(c)
    BY <1>2, <1>4, Zenon DEF Empty
  <2> QED BY <1>2, <1>4, <2>1
<1>6. /\ Len(p) <= (IF rb.w >= rb.r THEN rb.size ELSE rb.r) - rb.w
      /\ Len(p) > 0 => Available(rb) \in Nat /\ Available(rb) > 0
  BY <1>1, <1>2, <1>3
<1>7. Sound(c) /\ Held(c) = Held(rb) \o p
  BY <1>1, <1>2, <1>4, <1>5, <1>6, ReadPuts
<1>8. mode' \in {"idle", "first", "second"} /\ mode' # "second"
  BY <1>1
<1> QED BY <1>1, <1>7, <1>8, Adds

-------------------------------------------------------------------------------
(* The theorem *)

\* The invariant holds at first, of an empty buffer.
LEMMA RingStarts ==
    ASSUME Init
    PROVE  RingInv /\ Queue!Init
<1>1. PICK size \in InitSizes : rb = New(size)
  BY DEF Init
<1>2. Sound(rb) /\ Held(rb) = <<>>
  BY <1>1, NewSound
<1>3. RingInv
  BY <1>2 DEF RingInv, Init, Sound
<1>4. Content = <<>>
  BY <1>2, Lesses
<1> QED BY <1>3, <1>4 DEF Init, Queue!Init, Queue!Idle

\* Every step is a step of the queue or leaves it alone.
LEMMA RingSteps ==
    ASSUME ShortReads = FALSE, Refusals = FALSE, RingInv, [Next]_vars
    PROVE  Good
<1>1. CASE Call
  BY <1>1, PeekGood, DiscardGood, ReadGood, ReadByteGood, WriteToGood, WriteGood,
     WriteByteGood, ClearGood DEF Call
<1>2. CASE ReadFrom
  <2>1. CASE ReadFromStart
    <3>1. mode = "idle" /\ mode' = "first" /\ UNCHANGED <<rb, op>>
      BY <2>1 DEF ReadFromStart
    <3>2. Sound(rb) /\ Held(rb) \in Seq(Byte)
      BY <3>1, AtRest
    <3>3. RingInv'
      BY <3>1, <3>2, Rests
    <3> QED BY <3>1, <3>3 DEF Good, Content, Buffered
  <2>2. ASSUME NEW p \in Chunks, NEW ends \in BOOLEAN,
               ReadFromFirst(p, ends) \/ ReadFromSecond(p, ends)
        PROVE  Good
    BY <2>2, ReadFromFirstGood, ReadFromSecondGood
  <2> QED BY <1>2, <2>1, <2>2 DEF ReadFrom
<1>3. CASE UNCHANGED vars
  <2>1. UNCHANGED <<rb, mode, op>>
    BY <1>3 DEF vars
  <2> QED BY <2>1 DEF Good, RingInv, Content, Buffered
<1> QED BY <1>1, <1>2, <1>3 DEF Next

\* What the invariant says to a reader of the code.
LEMMA RingShape ==
    ASSUME RingInv
    PROVE  TypeOK /\ NoJunkIsReadable
<1>1. /\ rb.size \in Nat /\ rb.r \in Nat /\ rb.w \in Nat /\ rb.isEmpty \in BOOLEAN
      /\ rb = [buf |-> rb.buf, size |-> rb.size, r |-> rb.r, w |-> rb.w, isEmpty |-> rb.isEmpty]
  BY DEF RingInv, Rings
<1>2. ASSUME mode # "panicked" PROVE Valid(rb)
  <2>1. Sound(rb) /\ (Empty(rb) <=> rb.isEmpty)
    BY <1>2, AtRest
  <2>2. rb.buf \in [0..(rb.size - 1) -> Byte \cup {Junk}]
    BY DEF RingInv, Slot
  <2>3. CASE Empty(rb)
    <3>1. rb.r = 0 /\ rb.w = 0 /\ (rb.size > 0 => rb.r < rb.size /\ rb.w < rb.size)
      BY <2>1, <2>3 DEF Sound
    <3> QED BY <1>1, <2>1, <2>2, <2>3, <3>1, Zenon DEF Valid
  <2>4. CASE ~Empty(rb)
    <3>1. rb.r < rb.size /\ rb.w < rb.size /\ rb.size # 0
      BY <1>1, <2>1, <2>4 DEF Sound
    <3> QED BY <1>1, <2>1, <2>2, <2>4, <3>1, Zenon DEF Valid
  <2> QED BY <2>3, <2>4
<1>3. NoJunkIsReadable
  <2> SUFFICES ASSUME mode # "panicked"
               PROVE  /\ Buffered(rb) + Available(rb) = rb.size
                      /\ \A i \in 1..Buffered(rb) : Content[i] \in Byte
    BY DEF NoJunkIsReadable
  <2>1. Sound(rb) /\ Held(rb) \in Seq(Byte) /\ Len(Held(rb)) = Buffered(rb) /\ Content = Held(rb)
    BY AtRest, Lesses
  <2> QED BY <2>1, Counts
<1> QED BY <1>1, <1>2, <1>3 DEF TypeOK, RingInv

\* The ring buffer implements the unbounded queue, for every capacity, threshold
\* and chunk, as long as a reader that returns less than it was offered room for
\* has reached the end of its stream and a writer that is offered bytes accepts
\* some (ring.Buffer: Peek, Discard, Read, ReadByte, Write, WriteByte, WriteTo,
\* ReadFrom, Reset, grow).
THEOREM RingImplementsQueue ==
    ASSUME ShortReads = FALSE, Refusals = FALSE
    PROVE  Spec => RingIsQueue
<1>1. Init => RingInv /\ Queue!Init
  BY RingStarts
<1>2. RingInv /\ [Next]_vars => RingInv' /\ [Queue!Next]_(Queue!vars)
  <2> SUFFICES ASSUME RingInv, [Next]_vars
               PROVE  RingInv' /\ [Queue!Next]_(Queue!vars)
    OBVIOUS
  <2>1. RingInv' /\ (Queue!Next \/ UNCHANGED <<Content, op>>)
    BY RingSteps, Zenon DEF Good
  <2>2. UNCHANGED <<Content, op>> => UNCHANGED Queue!vars
    BY DEF Queue!vars
  <2> QED BY <2>1, <2>2, Zenon
<1>3. RingInv => TypeOK /\ NoJunkIsReadable
  BY RingShape
<1> QED BY <1>1, <1>2, <1>3, PTL DEF Spec, RingIsQueue, ImplementsQueue, Queue!Spec
=============================================================================
