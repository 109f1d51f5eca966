-------------------------------- MODULE Inbound --------------------------------
(***************************************************************************)
(* From the bytes of a peer to whole frames: the reader side of an agonet  *)
(* connection (the packet in conn.buffer, the rest in an elastic ring      *)
(* buffer borrowed from a pool), the length field codecs of agonet/simple, *)
(* and OnTraffic, which takes one frame at a time and wakes itself for     *)
(* more.  A ring buffer is the queue that RingBuffer shows it to be.       *)
(*                                                                         *)
(* A byte has Base values and a word WordLen bytes (256 and 8 in the       *)
(* code), so that the edges of the integer types are within reach.         *)
(***************************************************************************)
EXTENDS Integers, Sequences

CONSTANTS
    Base, WordLen,
    Codecs,       \* configurations of an encoder and its decoder
    Bodies,       \* the messages a peer sends, each a sequence of bytes
    MaxFrames,    \* bound: messages sent on one connection
    MaxConns,     \* bound: connections, one after the other
    MaxRefusals   \* bound: times a full pool refuses to wake

VARIABLES
    codec,        \* the configuration in use
    sent,         \* the messages the peer sends on this connection
    wire,         \* the bytes that have not arrived yet
    buffer,       \* conn.buffer
    rb,           \* elastic.RingBuffer: its ring buffer's content, or Nil
    pool,         \* what pooled ring buffers contain
    wakes,        \* wake events in the loop's queue
    open,         \* the connection is open
    out,          \* the frames handed to the next handler
    conns,        \* connections so far
    refused       \* wakes refused

vars == <<codec, sent, wire, buffer, rb, pool, wakes, open, out, conns, refused>>

\* No byte is negative: these are no content of a buffer.
Nil == <<-1>>
Error == <<-2>>

-------------------------------------------------------------------------------
(* The length field *)

RECURSIVE Digits(_, _), Value(_)

\* The low n digits of v, most significant first, and their value.
Digits(v, n) == IF n = 0 THEN <<>> ELSE Append(Digits(v \div Base, n - 1), v % Base)
Value(d) == IF d = <<>> THEN 0 ELSE Value(SubSeq(d, 1, Len(d) - 1)) * Base + d[Len(d)]

Reverse(s) == [i \in 1..Len(s) |-> s[Len(s) + 1 - i]]

RECURSIVE Power(_)
Power(n) == IF n = 0 THEN 1 ELSE Base * Power(n - 1)

\* A number as the signed word int64 holds it.
Signed(v) == LET w == v % Power(WordLen)
             IN  IF w < Power(WordLen) \div 2 THEN w ELSE w - Power(WordLen)

\* packFieldLength: a length beyond the field is an error, unless the field is
\* a whole word; the digits of a negative one are cut off.
PackFieldLength(order, n, v) ==
    IF n < WordLen /\ v >= Power(n) THEN Error
    ELSE LET d == Digits(v, n) IN IF order = "big" THEN d ELSE Reverse(d)

\* unpackFieldLength: a whole word is read as a signed one.
UnpackFieldLength(order, field) ==
    LET v == Value(IF order = "big" THEN field ELSE Reverse(field))
    IN  IF Len(field) = WordLen THEN Signed(v) ELSE v

\* packFieldLengthStr: digits padded with zeros, a minus sign (written Base)
\* in front of a negative length; too many characters are an error.
PackFieldLengthStr(n, v) ==
    LET width == IF v >= 0 THEN n ELSE n - 1
        mag == IF v >= 0 THEN v ELSE -v
    IN  IF width < 1 \/ mag >= Power(width) THEN Error
        ELSE (IF v >= 0 THEN <<>> ELSE <<Base>>) \o Digits(mag, width)

UnpackFieldLengthStr(field) ==
    IF field[1] = Base THEN -Value(Tail(field)) ELSE Value(field)

Pack(k, v) == IF k.str THEN PackFieldLengthStr(k.len, v)
                       ELSE PackFieldLength(k.order, k.len, v)

Unpack(k, field) == IF k.str THEN UnpackFieldLengthStr(field)
                             ELSE UnpackFieldLength(k.order, field)

-------------------------------------------------------------------------------
(* The encoders *)

\* HandleWrite of the encoders: the length, adjusted, in front of the body.  A
\* handler closer to the wire puts a header of k.offset bytes before it.
Encode(k, body) ==
    LET length == Len(body) + k.encAdjust + (IF k.includes THEN k.len ELSE 0)
        field == Pack(k, length)
    IN  IF field = Error THEN Error ELSE [i \in 1..k.offset |-> 0] \o field \o body

\* The adjustment a decoder needs to undo the encoder's.
DecAdjust(k) == -(k.encAdjust + (IF k.includes THEN k.len ELSE 0))

\* What NewLengthFieldDecoder and NewLengthFieldStrDecoder assert.
CodecOK(k) ==
    /\ k.max > 0 /\ k.offset >= 0 /\ k.strip >= 0
    /\ ~k.str => k.len \in 1..WordLen
    /\ k.offset <= k.max - k.len

\* What the next handler should see of a message.
Frame(k, body) == LET f == Encode(k, body) IN SubSeq(f, k.strip + 1, Len(f))

\* A message the encoder takes and whose length is not negative: a negative
\* one loses its sign in a field shorter than a word.
Encodable(k, body) ==
    /\ Encode(k, body) # Error
    /\ Len(body) + k.encAdjust + (IF k.includes THEN k.len ELSE 0) >= 0

-------------------------------------------------------------------------------
(* conn as a Reader: c.ring is rb, c.buf is buffer *)

Content(r) == IF r = Nil THEN <<>> ELSE r

\* elastic.RingBuffer.done: an empty ring buffer goes back to the pool.
Done(r) == IF r = <<>> THEN Nil ELSE r

InboundBuffered(c) == Len(Content(c.ring)) + Len(c.buf)

Peek(c, n) ==
    IF n > InboundBuffered(c) THEN Error
    ELSE IF Content(c.ring) = <<>> THEN SubSeq(c.buf, 1, n)
    ELSE IF Len(c.ring) >= n THEN SubSeq(c.ring, 1, n)
    ELSE c.ring \o SubSeq(c.buf, 1, n - Len(c.ring))

\* Discard throws everything away when n reaches the end.
Discard(c, n) ==
    IF n >= InboundBuffered(c) \/ n <= 0
    THEN [ring |-> IF c.ring = Nil THEN Nil ELSE <<>>, buf |-> <<>>]
    ELSE IF Content(c.ring) = <<>>
    THEN [c EXCEPT !.buf = SubSeq(@, n + 1, Len(@))]
    ELSE IF n < Len(c.ring)
    THEN [c EXCEPT !.ring = SubSeq(@, n + 1, Len(@))]
    ELSE [ring |-> Nil, buf |-> SubSeq(c.buf, n - Len(c.ring) + 1, Len(c.buf))]

\* Next: the first n bytes and the connection without them; nothing for n = 0.
Next_(c, n) ==
    IF n <= 0 THEN [msg |-> <<>>, c |-> c]
    ELSE IF Content(c.ring) = <<>>
    THEN [msg |-> SubSeq(c.buf, 1, n), c |-> [c EXCEPT !.buf = SubSeq(@, n + 1, Len(@))]]
    ELSE LET fromRing == IF n < Len(c.ring) THEN n ELSE Len(c.ring)
             rest == n - fromRing
         IN  [msg |-> SubSeq(c.ring, 1, fromRing) \o SubSeq(c.buf, 1, rest),
              c |-> [ring |-> Done(SubSeq(c.ring, fromRing + 1, Len(c.ring))),
                     buf |-> SubSeq(c.buf, rest + 1, Len(c.buf))]]

-------------------------------------------------------------------------------
(* The decoders *)

\* doDecode: nothing yet, an error, or a frame and what is left.
DoDecode(k, c) ==
    LET endOffset == k.offset + k.len
        head == Peek(c, endOffset)
        value == Unpack(k, SubSeq(head, k.offset + 1, endOffset))
        frameLength == Signed(value + DecAdjust(k) + endOffset)
        half == [msgs |-> <<>>, c |-> c, failed |-> FALSE]
        failure == [half EXCEPT !.failed = TRUE]
        stripped == IF k.strip > 0 THEN Discard(c, k.strip) ELSE c
        next == Next_(stripped, frameLength - k.strip)
    IN  IF head = Error THEN half
        ELSE IF value < 0 \/ frameLength < endOffset \/ frameLength > k.max THEN failure
        ELSE IF InboundBuffered(c) < frameLength THEN half
        ELSE IF k.strip > frameLength THEN failure
        ELSE [msgs |-> <<next.msg>>, c |-> next.c, failed |-> FALSE]

\* Mutant of WakesUp: one frame per packet.
WakesNever(before, after) == FALSE

\* OnTraffic wakes itself when bytes are left and some were taken.
WakesUp(before, after) == after > 0 /\ after # before

-------------------------------------------------------------------------------
(* The connection *)

Concat(msgs, k) ==
    LET RECURSIVE C(_)
        C(i) == IF i > Len(msgs) THEN <<>> ELSE Encode(k, msgs[i]) \o C(i + 1)
    IN  C(1)

Conversations(k) ==
    UNION {[1..n -> {b \in Bodies : Encodable(k, b)}] : n \in 0..MaxFrames}

Connect(k) ==
    /\ sent' \in Conversations(k)
    /\ wire' = Concat(sent', k)
    /\ buffer' = <<>> /\ rb' = Nil /\ wakes' = 0 /\ out' = <<>> /\ open' = TRUE

Init ==
    /\ codec \in {k \in Codecs : CodecOK(k)}
    /\ sent = <<>> /\ wire = <<>> /\ buffer = <<>> /\ rb = Nil /\ pool = {}
    /\ wakes = 0 /\ open = FALSE /\ out = <<>> /\ conns = 0 /\ refused = 0

\* A new connection has buffers of its own.
Accept ==
    /\ ~open /\ conns < MaxConns /\ conns' = conns + 1
    /\ Connect(codec)
    /\ UNCHANGED <<codec, pool, refused>>

\* Mutant of Pooled: the content stays in the pooled ring buffer.
PooledDirty(old, new) ==
    IF old # Nil /\ new = Nil THEN pool \cup {old} ELSE pool

\* The pool after the ring buffer of a connection was given back or kept: Put
\* resets it, and drops one that is too big.
Pooled(old, new) == IF old # Nil /\ new = Nil THEN pool \cup {<<>>} ELSE pool

\* conn.release: the buffers go back to their pools.
Released ==
    /\ open' = FALSE /\ buffer' = <<>> /\ rb' = Nil
    /\ pool' = Pooled(rb, Nil)

\* OnTraffic on the connection c, then saving what is left in the buffer:
\* eventloop.read writes it to the ring buffer, which it gets from the pool
\* when there is none.  wake finds the buffer empty.  A frame that cannot be
\* decoded takes nothing: the connection is closed here when TryFireException
\* returns false; otherwise it stays as it is, until the task by which the tail
\* handler closes it, or for good if a handler dealt with the error.
OnTraffic(c, queued) ==
    LET d == DoDecode(codec, c)
        woken == WakesUp(InboundBuffered(c), InboundBuffered(d.c))
    IN  /\ \/ d.failed /\ Released /\ wakes' = queued /\ UNCHANGED <<out, refused>>
           \/ /\ out' = out \o d.msgs
              /\ buffer' = <<>> /\ UNCHANGED open
              /\ \E got \in {<<>>} \cup pool :
                   rb' = IF d.c.buf = <<>> THEN d.c.ring
                         ELSE (IF d.c.ring = Nil THEN got ELSE d.c.ring) \o d.c.buf
              /\ pool' = Pooled(rb, d.c.ring)
              /\ \/ wakes' = queued + (IF woken THEN 1 ELSE 0) /\ UNCHANGED refused
                 \/ /\ woken /\ refused < MaxRefusals
                    /\ refused' = refused + 1 /\ wakes' = queued

\* A packet of n bytes arrives: unpackTCPConn puts it in the buffer.
Packet(n) ==
    /\ open /\ n \in 1..Len(wire)
    /\ wire' = SubSeq(wire, n + 1, Len(wire))
    /\ OnTraffic([ring |-> rb, buf |-> buffer \o SubSeq(wire, 1, n)], wakes)
    /\ UNCHANGED <<codec, sent, conns>>

Wake ==
    /\ open /\ wakes > 0
    /\ OnTraffic([ring |-> rb, buf |-> buffer], wakes - 1)
    /\ UNCHANGED <<codec, sent, wire, conns>>

\* eventloop.close, for whatever reason: the buffers are released.
Close ==
    /\ open /\ Released
    /\ UNCHANGED <<codec, sent, wire, wakes, out, conns, refused>>

Next == Accept \/ (\E n \in 1..Len(wire) : Packet(n)) \/ Wake \/ Close

-------------------------------------------------------------------------------

\* However the stream is cut into packets, and whatever a pooled buffer held
\* before, the next handler gets exactly the peer's messages, in order.
FramesExact ==
    /\ Len(out) <= Len(sent)
    /\ \A i \in 1..Len(out) : out[i] = Frame(codec, sent[i])

\* No frame is left behind: when everything arrived and no wake is on its way,
\* every message was handed on, unless a wake was refused or the decoder does not
\* accept what comes next.
NothingStuck ==
    open /\ wire = <<>> /\ wakes = 0 /\ refused = 0 =>
        Len(out) = Len(sent) \/ DoDecode(codec, [ring |-> rb, buf |-> buffer]).failed
================================================================================
