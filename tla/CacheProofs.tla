----------------------------- MODULE CacheProofs -----------------------------
(***************************************************************************)
(* The typed cache for any number of goroutines, keys and versions and any *)
(* size of the engine's buffer: cancellation stays private, what was       *)
(* invalidated stays out, and the source is spared.                        *)
(***************************************************************************)
EXTENDS Cache, SequenceTheorems, TLAPS

\* Where a goroutine is while it runs the function of singleflight.
Running == {"check", "load", "store", "sync", "syncing"}

\* Where it is while it stores what it loaded.
Storage == {"store", "sync", "syncing"}

Results == [is : {"value", "miss", "backend", "cancelled", "loadFailed", "panic", "ok"},
            val : Versions \cup {None}]

Places == {"idle", "call", "do", "check", "load", "store", "sync", "syncing", "wait", "return"}

CallShape ==
    call \in [Callers ->
      [at : Places,
       op : Ops \cup {None}, keys : SUBSET Keys, live : BOOLEAN,
       val : Versions \cup {None}, res : Results, since : Versions]]

Items == [is : {"new", "del", "wait"}, key : Keys, val : Versions \cup Callers \cup {None}]

\* The engine's side: its buffer holds items, and its writes have values.
EngineShape ==
    /\ source \in [Keys -> Versions] /\ floor \in [Keys -> Versions]
    /\ stored \in [Keys -> Versions \cup {None}]
    /\ setBuf \in Seq(Items) /\ Len(setBuf) <= SetBufSize
    /\ \A i \in DOMAIN setBuf : setBuf[i].is = "new" => setBuf[i].val \in Versions
    /\ down \in BOOLEAN /\ excused \in [Keys -> BOOLEAN] /\ spared \subseteq Keys

\* A call of GetOrElse is about one key; one that stores has loaded a value.
OneKey ==
    \A c \in Callers :
      /\ call[c].at \in Running \cup {"do", "wait"} => call[c].op = "getOrElse"
      /\ call[c].at # "idle" /\ call[c].op # "del" =>
           KeyOf(c) \in Keys /\ call[c].keys = {KeyOf(c)}
      /\ call[c].at \in {"store", "sync", "syncing"} => call[c].val \in Versions

\* singleflight: whoever runs the function for a key is registered for it and for
\* no other, and whoever waits waits for somebody.
OneFlight ==
    /\ flight \in [Keys -> Callers \cup {None}]
    /\ \A k \in Keys : flight[k] # None =>
         call[flight[k]].at \in Running /\ call[flight[k]].keys = {k}
    /\ \A c \in Callers : call[c].at \in Running => flight[KeyOf(c)] = c
    /\ \A c \in Callers : call[c].at = "wait" => flight[KeyOf(c)] \in Callers

\* The part of the invariant that plain Set keeps too.
ShapeInv == CallShape /\ EngineShape /\ OneKey /\ OneFlight

\* In a read-through cache a buffered write belongs to the call that loaded its
\* value, and the marker that call waits for is behind it.
WritesOwned ==
    \A i \in DOMAIN setBuf : setBuf[i].is = "new" =>
      LET k == setBuf[i].key  c == flight[k] IN
      /\ c \in Callers /\ call[c].at \in {"sync", "syncing"} /\ setBuf[i].val = call[c].val
      /\ call[c].at = "syncing" =>
           \E j \in DOMAIN setBuf : i < j /\ setBuf[j] = Item("wait", k, c)

\* Nothing on its way to a reader is older than the floor: the floor is not above
\* the source, it stays while a loaded value is being stored, and it only rises.
FloorBound == \A k \in Keys : floor[k] <= source[k]

StoresFresh ==
    \A c \in Callers : call[c].at \in Storage => call[c].val >= floor[KeyOf(c)]

AsksFresh ==
    \A c \in Callers :
      call[c].op = "getOrElse" /\ call[c].at \notin {"idle", "return"} =>
        call[c].since <= floor[KeyOf(c)] /\ call[c].res = Ok

Fresh == FloorBound /\ InvalidationSticks /\ StoresFresh /\ AsksFresh /\ NoStaleAnswer

\* The value of the key is visible, about to be written, or in the buffer.
Held(k) ==
    \/ stored[k] # None
    \/ flight[k] \in Callers /\ call[flight[k]].at = "store"
    \/ \E i \in DOMAIN setBuf : setBuf[i].is = "new" /\ setBuf[i].key = k

\* A key that is not excused has its value.  Whoever is about to load is excused, and
\* saw the miss before the backend went down.
NotLost == \A k \in Keys : ~excused[k] => Held(k)

LoadExcused ==
    \A c \in Callers : call[c].at = "load" =>
      excused[KeyOf(c)] /\ (down => KeyOf(c) \in spared)

Excuses == NotLost /\ LoadExcused

CacheInv == ShapeInv /\ WritesOwned /\ Fresh /\ Excuses

-------------------------------------------------------------------------------
(* Calls: what a step of one goroutine does to the record of its call.     *)

\* A call that keeps its keys keeps its key.
LEMMA KeyStays ==
  ASSUME NEW d, call'[d].keys = call[d].keys
  PROVE  KeyOf(d)' = KeyOf(d)
  BY DEF KeyOf

\* A call with one key is about that key.
LEMMA KeyIs ==
  ASSUME NEW d, NEW k, call[d].keys = {k}
  PROVE  KeyOf(d) = k
  BY DEF KeyOf

\* What all the steps that end neither a call nor its keys leave as it is.
KeepsCalls ==
    \A d \in Callers :
      /\ call'[d].op = call[d].op /\ call'[d].keys = call[d].keys
      /\ call'[d].live = call[d].live /\ call'[d].since = call[d].since

\* A goroutine goes on to another place of its call.
LEMMA Moved ==
  ASSUME CallShape, NEW c \in Callers, NEW a \in Places, call' = [call EXCEPT ![c].at = a]
  PROVE  /\ CallShape' /\ KeepsCalls
         /\ call'[c].at = a /\ call'[c].val = call[c].val /\ call'[c].res = call[c].res
         /\ \A d \in Callers \ {c} : call'[d] = call[d]
  BY DEF CallShape, KeepsCalls

\* A call has its result.
LEMMA Returned ==
  ASSUME CallShape, NEW c \in Callers, NEW r \in Results, Returns(c, r)
  PROVE  /\ CallShape' /\ KeepsCalls
         /\ call'[c].at = "return" /\ call'[c].val = call[c].val /\ call'[c].res = r
         /\ \A d \in Callers \ {c} : call'[d] = call[d]
  BY ZenonT(30) DEF CallShape, KeepsCalls, Returns, Places

\* A goroutine has loaded a value.
LEMMA Loaded ==
  ASSUME CallShape, NEW c \in Callers, NEW v \in Versions,
         call' = [call EXCEPT ![c].at = "store", ![c].val = v]
  PROVE  /\ CallShape' /\ KeepsCalls
         /\ call'[c].at = "store" /\ call'[c].val = v /\ call'[c].res = call[c].res
         /\ \A d \in Callers \ {c} : call'[d] = call[d]
  BY ZenonT(30) DEF CallShape, KeepsCalls, Places

\* The goroutines that have the result of c's function.
Told(c) == {d \in Callers : d = c \/ (call[d].at = "wait" /\ call[d].keys = call[c].keys)}

\* DoReturns gives the result to those goroutines, and to nobody else.
LEMMA DoReturned ==
  ASSUME CallShape, NEW c \in Callers, NEW r \in Results, DoReturns(c, r)
  PROVE  /\ CallShape' /\ KeepsCalls
         /\ \A d \in Told(c) : /\ call'[d].at = "return" /\ call'[d].res = Recovered(r)
                               /\ call'[d].val = call[d].val
         /\ \A d \in Callers \ Told(c) : call'[d] = call[d]
         /\ c \in Told(c)
  <1>1. Recovered(r) \in Results
    BY DEF Recovered, Backend, Results
  <1>2. /\ \A d \in Told(c) : call'[d] = [call[d] EXCEPT !.at = "return", !.res = Recovered(r)]
        /\ \A d \in Callers \ Told(c) : call'[d] = call[d]
        /\ c \in Told(c) /\ Told(c) \subseteq Callers
    BY DEF DoReturns, Told
  <1>3. \A d \in Told(c) :
          /\ call'[d] \in [at : Places, op : Ops \cup {None}, keys : SUBSET Keys, live : BOOLEAN,
                           val : Versions \cup {None}, res : Results, since : Versions]
          /\ call'[d].at = "return" /\ call'[d].res = Recovered(r) /\ call'[d].val = call[d].val
          /\ call'[d].op = call[d].op /\ call'[d].keys = call[d].keys
          /\ call'[d].live = call[d].live /\ call'[d].since = call[d].since
    <2> TAKE d \in Told(c)
    <2>1. call'[d] = [call[d] EXCEPT !.at = "return", !.res = Recovered(r)]
      BY <1>2
    <2>2. call[d] \in [at : Places, op : Ops \cup {None}, keys : SUBSET Keys, live : BOOLEAN,
                       val : Versions \cup {None}, res : Results, since : Versions]
      BY <1>2 DEF CallShape
    <2>3. "return" \in Places
      BY DEF Places
    <2> HIDE DEF Places, Results, Told
    <2> QED BY <1>1, <2>1, <2>2, <2>3
  <1>4. CallShape'
    <2>1. \A d \in Callers :
            call'[d] \in [at : Places, op : Ops \cup {None}, keys : SUBSET Keys, live : BOOLEAN,
                          val : Versions \cup {None}, res : Results, since : Versions]
      BY <1>2, <1>3 DEF CallShape
    <2>2. call' = [d \in Callers |-> call'[d]]
      BY DEF DoReturns
    <2> QED BY <2>1, <2>2 DEF CallShape
  <1> QED BY <1>2, <1>3, <1>4, ZenonT(30) DEF KeepsCalls

\* What the engine may answer is a result, and never the end of a context that lives.
LEMMA Answers ==
  ASSUME EngineShape, NEW k \in Keys, NEW live \in BOOLEAN, NEW r \in EngineGet(k, live)
  PROVE  /\ r \in Results /\ Recovered(r) \in Results
         /\ live => r # Cancelled /\ Recovered(r) # Cancelled
         /\ r.is = "miss" => ~down /\ stored[k] = None
         /\ r.is = "value" => r.val = stored[k] /\ stored[k] # None
         /\ Recovered(r).is = "value" => Recovered(r).val = stored[k] /\ stored[k] # None
  BY DEF EngineShape, EngineGet, Results, Recovered, Backend, Panic, Miss, Value, Cancelled

-------------------------------------------------------------------------------
(* The shape of the state and singleflight.                                *)

\* No call, no entry, nothing buffered.
LEMMA InitShape == Init => ShapeInv
  <1> SUFFICES ASSUME Init PROVE ShapeInv
    OBVIOUS
  <1> USE CacheAssumption DEF Init
  <1>0. 0 \in Versions
    BY DEF Versions
  <1>1. CallShape
    BY <1>0 DEF CallShape, NoCall, Ok, Results, Places
  <1>2. EngineShape
    <2>1. setBuf \in Seq(Items) /\ Len(setBuf) = 0 /\ DOMAIN setBuf = {}
      OBVIOUS
    <2>2. /\ source \in [Keys -> Versions] /\ floor \in [Keys -> Versions]
          /\ stored \in [Keys -> Versions \cup {None}]
      BY <1>0
    <2>3. excused \in [Keys -> BOOLEAN] /\ down \in BOOLEAN /\ spared \subseteq Keys
      OBVIOUS
    <2>4. Len(setBuf) <= SetBufSize
      BY <2>1
    <2> QED BY <2>1, <2>2, <2>3, <2>4 DEF EngineShape
  <1>3. OneKey /\ OneFlight
    BY DEF OneKey, OneFlight, NoCall, Running
  <1> QED BY <1>1, <1>2, <1>3 DEF ShapeInv

\* A step that changes where one goroutine is, and not whether it runs or waits.
LEMMA StepShape ==
  ASSUME ShapeInv, CallShape', KeepsCalls, UNCHANGED flight, NEW c \in Callers,
         \A d \in Callers \ {c} : call'[d] = call[d],
         call[c].at # "idle",
         call'[c].at \in Running <=> call[c].at \in Running,
         call'[c].at \in Running => call[c].op = "getOrElse",
         call'[c].at \notin {"wait"},
         call'[c].at = "do" => call[c].op = "getOrElse",
         call'[c].at \in {"store", "sync", "syncing"} => call'[c].val \in Versions
  PROVE  OneKey' /\ OneFlight'
  <1>1. \A d \in Callers : KeyOf(d)' = KeyOf(d)
    BY KeyStays DEF KeepsCalls
  <1>2. OneKey'
    BY <1>1 DEF ShapeInv, OneKey, KeepsCalls
  <1>3. None \notin Callers
    BY CacheAssumption
  <1>4. \A k \in Keys : flight'[k] # None =>
         call'[flight'[k]].at \in Running /\ call'[flight'[k]].keys = {k}
    <2> SUFFICES ASSUME NEW k \in Keys, flight[k] # None
                 PROVE  call'[flight[k]].at \in Running /\ call'[flight[k]].keys = {k}
      OBVIOUS
    <2>1. flight[k] \in Callers /\ call[flight[k]].at \in Running /\ call[flight[k]].keys = {k}
      BY DEF ShapeInv, OneFlight
    <2> QED BY <2>1 DEF KeepsCalls
  <1>5. \A d \in Callers : call'[d].at \in Running => flight'[KeyOf(d)'] = d
    BY <1>1 DEF ShapeInv, OneFlight
  <1>6. \A d \in Callers : call'[d].at = "wait" => flight'[KeyOf(d)'] \in Callers
    BY <1>1 DEF ShapeInv, OneFlight
  <1> QED BY <1>2, <1>4, <1>5, <1>6 DEF ShapeInv, OneFlight

\* The function ends: its key is free, and nobody waits for it any more.
LEMMA DoReturnsShape ==
  ASSUME ShapeInv, NEW c \in Callers, call[c].at \in Running, NEW r \in Results, DoReturns(c, r)
  PROVE  CallShape' /\ OneKey' /\ OneFlight'
  <1>1. /\ CallShape' /\ KeepsCalls
        /\ \A d \in Told(c) : call'[d].at = "return"
        /\ \A d \in Callers \ Told(c) : call'[d] = call[d]
        /\ c \in Told(c)
    BY DoReturned DEF ShapeInv
  <1>2. \A d \in Callers : KeyOf(d)' = KeyOf(d)
    BY <1>1, KeyStays DEF KeepsCalls
  <1>3. OneKey'
    <2> SUFFICES ASSUME NEW d \in Callers
                 PROVE  /\ call'[d].at \in Running \cup {"do", "wait"} => call'[d].op = "getOrElse"
                        /\ call'[d].at # "idle" /\ call'[d].op # "del" =>
                             KeyOf(d) \in Keys /\ call'[d].keys = {KeyOf(d)}
                        /\ call'[d].at \in {"store", "sync", "syncing"} => call'[d].val \in Versions
      BY <1>2 DEF OneKey
    <2>1. CASE d \in Told(c)
      <3>1. call[d].at # "idle"
        BY <2>1 DEF Told, Running
      <3>2. call'[d].at = "return" /\ call'[d].op = call[d].op /\ call'[d].keys = call[d].keys
        BY <1>1, <2>1 DEF KeepsCalls
      <3> QED BY <3>1, <3>2 DEF ShapeInv, OneKey, Running
    <2>2. CASE d \notin Told(c)
      BY <1>1, <2>2 DEF ShapeInv, OneKey
    <2> QED BY <2>1, <2>2
  <1>4. /\ call[c].op = "getOrElse" /\ KeyOf(c) \in Keys /\ call[c].keys = {KeyOf(c)}
        /\ flight[KeyOf(c)] = c
    BY DEF ShapeInv, OneKey, OneFlight, Running
  <1>5. flight' = [flight EXCEPT ![KeyOf(c)] = None]
    BY DEF DoReturns
  <1>6. flight' \in [Keys -> Callers \cup {None}]
    BY <1>5 DEF ShapeInv, OneFlight
  <1>7. \A k \in Keys : flight'[k] # None => k # KeyOf(c) /\ flight'[k] = flight[k]
    BY <1>4, <1>5 DEF ShapeInv, OneFlight
  <1>8. \A d \in Told(c) : d # c => call[d].at = "wait"
    BY DEF Told
  <1>9. \A k \in Keys : flight'[k] # None =>
          call'[flight'[k]].at \in Running /\ call'[flight'[k]].keys = {k}
    <2> SUFFICES ASSUME NEW k \in Keys, flight'[k] # None
                 PROVE  call'[flight[k]].at \in Running /\ call'[flight[k]].keys = {k}
      BY <1>7
    <2>1. flight[k] \in Callers /\ call[flight[k]].at \in Running /\ call[flight[k]].keys = {k}
      BY <1>7 DEF ShapeInv, OneFlight
    <2>2. flight[k] # c
      BY <1>4, <1>7, <2>1
    <2>3. flight[k] \notin Told(c)
      BY <1>8, <2>1, <2>2 DEF Running
    <2> QED BY <1>1, <2>1, <2>3
  <1>10. \A d \in Callers : call'[d].at \in Running => flight'[KeyOf(d)'] = d
    <2> SUFFICES ASSUME NEW d \in Callers, call'[d].at \in Running
                 PROVE  flight'[KeyOf(d)] = d
      BY <1>2
    <2>1. d \notin Told(c) /\ call[d].at \in Running /\ d # c
      BY <1>1 DEF Running
    <2>2. KeyOf(d) \in Keys /\ flight[KeyOf(d)] = d
      BY <2>1 DEF ShapeInv, OneKey, OneFlight, Running
    <2> QED BY <1>4, <1>5, <2>1, <2>2 DEF ShapeInv, OneFlight
  <1>11. \A d \in Callers : call'[d].at = "wait" => flight'[KeyOf(d)'] \in Callers
    <2> SUFFICES ASSUME NEW d \in Callers, call'[d].at = "wait"
                 PROVE  flight'[KeyOf(d)] \in Callers
      BY <1>2
    <2>1. d \notin Told(c) /\ call[d].at = "wait"
      BY <1>1
    <2>2. KeyOf(d) \in Keys /\ flight[KeyOf(d)] \in Callers /\ call[d].keys = {KeyOf(d)}
      BY <2>1 DEF ShapeInv, OneKey, OneFlight, Running
    <2>3. KeyOf(d) # KeyOf(c)
      BY <1>4, <2>1, <2>2 DEF Told
    <2> QED BY <1>5, <2>2, <2>3 DEF ShapeInv, OneFlight
  <1> QED BY <1>1, <1>3, <1>6, <1>9, <1>10, <1>11 DEF OneFlight

\* A step of a goroutine that neither runs the function nor waits for it.
LEMMA QuietShape ==
  ASSUME ShapeInv, CallShape', UNCHANGED flight, NEW c \in Callers,
         \A d \in Callers \ {c} : call'[d] = call[d],
         call[c].at \notin Running, call'[c].at \in {"idle", "call", "return"},
         call'[c].at # "idle" /\ call'[c].op # "del" => \E k \in Keys : call'[c].keys = {k}
  PROVE  OneKey' /\ OneFlight'
  <1>1. \A d \in Callers \ {c} : KeyOf(d)' = KeyOf(d)
    BY KeyStays
  <1>2. OneKey'
    <2> SUFFICES ASSUME NEW d \in Callers
                 PROVE  /\ call'[d].at \in Running \cup {"do", "wait"} => call'[d].op = "getOrElse"
                        /\ call'[d].at # "idle" /\ call'[d].op # "del" =>
                             KeyOf(d)' \in Keys /\ call'[d].keys = {KeyOf(d)'}
                        /\ call'[d].at \in {"store", "sync", "syncing"} => call'[d].val \in Versions
      BY DEF OneKey
    <2>1. CASE d = c
      <3>1. ASSUME NEW k \in Keys, call'[c].keys = {k} PROVE KeyOf(c)' = k
        BY <3>1 DEF KeyOf
      <3> QED BY <2>1, <3>1 DEF Running
    <2>2. CASE d # c
      BY <1>1, <2>2 DEF ShapeInv, OneKey
    <2> QED BY <2>1, <2>2
  <1>3. None \notin Callers
    BY CacheAssumption
  <1>4. \A k \in Keys : flight'[k] # None =>
         call'[flight'[k]].at \in Running /\ call'[flight'[k]].keys = {k}
    <2> SUFFICES ASSUME NEW k \in Keys, flight[k] # None
                 PROVE  call'[flight[k]].at \in Running /\ call'[flight[k]].keys = {k}
      OBVIOUS
    <2>1. flight[k] \in Callers /\ call[flight[k]].at \in Running /\ call[flight[k]].keys = {k}
      BY DEF ShapeInv, OneFlight
    <2> QED BY <2>1
  <1>5. \A d \in Callers : call'[d].at \in Running => flight'[KeyOf(d)'] = d
    BY <1>1 DEF ShapeInv, OneFlight, Running
  <1>6. \A d \in Callers : call'[d].at = "wait" => flight'[KeyOf(d)'] \in Callers
    BY <1>1 DEF ShapeInv, OneFlight
  <1> QED BY <1>2, <1>4, <1>5, <1>6 DEF ShapeInv, OneFlight

\* The buffer with one more item, and with one less.
LEMMA Buffered ==
  ASSUME NEW it \in Items, setBuf \in Seq(Items), setBuf' = Append(setBuf, it)
  PROVE  /\ setBuf' \in Seq(Items) /\ Len(setBuf) \in Nat /\ Len(setBuf)' = Len(setBuf) + 1
         /\ \A i \in DOMAIN setBuf : i \in DOMAIN setBuf' /\ setBuf'[i] = setBuf[i]
         /\ \A i \in DOMAIN setBuf' : i \in DOMAIN setBuf \/ (i = Len(setBuf) + 1 /\ setBuf'[i] = it)
         /\ Len(setBuf) + 1 \in DOMAIN setBuf' /\ setBuf'[Len(setBuf) + 1] = it
  OBVIOUS

\* The buffer without its oldest item.
LEMMA Applied ==
  ASSUME setBuf \in Seq(Items), setBuf # <<>>, setBuf' = Tail(setBuf)
  PROVE  /\ setBuf' \in Seq(Items) /\ Len(setBuf) \in Nat /\ Len(setBuf)' = Len(setBuf) - 1
         /\ 1 \in DOMAIN setBuf /\ Head(setBuf) = setBuf[1] /\ Head(setBuf) \in Items
         /\ DOMAIN setBuf \subseteq Nat
         /\ \A i \in DOMAIN setBuf' : i + 1 \in DOMAIN setBuf /\ setBuf'[i] = setBuf[i + 1]
         /\ \A i \in DOMAIN setBuf : i # 1 => i - 1 \in DOMAIN setBuf' /\ setBuf'[i - 1] = setBuf[i]
  OBVIOUS

\* An item is one whatever its kind.
LEMMA ItemIs ==
  ASSUME NEW kind \in {"new", "del", "wait"}, NEW k \in Keys,
         NEW v \in Versions \cup Callers \cup {None}
  PROVE  /\ Item(kind, k, v) \in Items
         /\ Item(kind, k, v).is = kind /\ Item(kind, k, v).key = k /\ Item(kind, k, v).val = v
  BY DEF Item, Items

\* An item that has room joins the buffer.
LEMMA AppendShape ==
  ASSUME EngineShape, Room, NEW kind \in {"new", "del", "wait"}, NEW k \in Keys,
         NEW v \in Versions \cup Callers \cup {None}, kind = "new" => v \in Versions,
         setBuf' = Append(setBuf, Item(kind, k, v))
  PROVE  /\ setBuf' \in Seq(Items) /\ Len(setBuf)' <= SetBufSize
         /\ \A i \in DOMAIN setBuf' : setBuf'[i].is = "new" => setBuf'[i].val \in Versions
  <1>1. Item(kind, k, v) \in Items /\ setBuf \in Seq(Items) /\ SetBufSize \in Nat
    BY ItemIs, CacheAssumption DEF EngineShape
  <1>2. /\ setBuf' \in Seq(Items) /\ Len(setBuf) \in Nat /\ Len(setBuf)' = Len(setBuf) + 1
        /\ \A i \in DOMAIN setBuf' :
             (i \in DOMAIN setBuf /\ setBuf'[i] = setBuf[i]) \/ setBuf'[i] = Item(kind, k, v)
    BY <1>1, Buffered
  <1>3. Len(setBuf)' <= SetBufSize
    BY <1>1, <1>2 DEF Room
  <1>4. \A i \in DOMAIN setBuf' : setBuf'[i].is = "new" => setBuf'[i].val \in Versions
    BY <1>2, ItemIs DEF EngineShape
  <1> QED BY <1>2, <1>3, <1>4

\* engine.Set keeps the engine's shape, whichever way it goes.
LEMMA SetShape ==
  ASSUME EngineShape, NEW k \in Keys, NEW v \in Versions, EngineSet(k, v),
         UNCHANGED <<source, down, spared, floor>>
  PROVE  EngineShape'
  <1>1. CASE stored[k] # None /\ stored' = [stored EXCEPT ![k] = v] /\ UNCHANGED <<setBuf, excused>>
    BY <1>1 DEF EngineShape
  <1>2. CASE /\ Room /\ setBuf' = Append(setBuf, Item("new", k, v))
             /\ UNCHANGED <<stored, excused>>
    <2>1. /\ setBuf' \in Seq(Items) /\ Len(setBuf)' <= SetBufSize
          /\ \A i \in DOMAIN setBuf' : setBuf'[i].is = "new" => setBuf'[i].val \in Versions
      BY <1>2, AppendShape
    <2> QED BY <1>2, <2>1 DEF EngineShape
  <1>3. CASE excused' = [excused EXCEPT ![k] = TRUE] /\ UNCHANGED <<stored, setBuf>>
    BY <1>3 DEF EngineShape
  <1> QED BY <1>1, <1>2, <1>3 DEF EngineSet

\* engine.Del does.
LEMMA DelShape ==
  ASSUME EngineShape, NEW k \in Keys, EngineDel(k), UNCHANGED <<source, down, spared>>,
         floor' \in [Keys -> Versions]
  PROVE  EngineShape'
  <1>1. /\ setBuf' \in Seq(Items) /\ Len(setBuf)' <= SetBufSize
        /\ \A i \in DOMAIN setBuf' : setBuf'[i].is = "new" => setBuf'[i].val \in Versions
    BY AppendShape DEF EngineDel
  <1>2. stored' \in [Keys -> Versions \cup {None}] /\ excused' \in [Keys -> BOOLEAN]
    BY DEF EngineShape, EngineDel
  <1> QED BY <1>1, <1>2 DEF EngineShape

\* The floor after an invalidation is a version of every key.
LEMMA FloorShape ==
  ASSUME EngineShape, NEW ks
  PROVE  Floor(ks) \in [Keys -> Versions]
  BY DEF EngineShape, Floor

\* The engine's shape after it applied an item.
LEMMA AppliesShape == EngineShape /\ EngineApplies => EngineShape'
  <1> SUFFICES ASSUME EngineShape, EngineApplies PROVE EngineShape'
    OBVIOUS
  <1> DEFINE it == Head(setBuf)
  <1>1. /\ setBuf' \in Seq(Items) /\ Len(setBuf) \in Nat /\ Len(setBuf)' = Len(setBuf) - 1
        /\ 1 \in DOMAIN setBuf /\ it = setBuf[1] /\ it \in Items
        /\ \A i \in DOMAIN setBuf' : i + 1 \in DOMAIN setBuf /\ setBuf'[i] = setBuf[i + 1]
    BY Applied DEF EngineApplies, EngineShape
  <1>2. /\ it.key \in Keys /\ (it.is = "new" => it.val \in Versions)
    BY <1>1 DEF EngineShape, Items
  <1>3. Len(setBuf)' <= SetBufSize
    BY <1>1, CacheAssumption DEF EngineShape
  <1>4. \A i \in DOMAIN setBuf' : setBuf'[i].is = "new" => setBuf'[i].val \in Versions
    BY <1>1 DEF EngineShape
  <1>5. stored' \in [Keys -> Versions \cup {None}]
    BY <1>2 DEF EngineShape, EngineApplies
  <1>6. excused' \in [Keys -> BOOLEAN]
    <2>1. CASE UNCHANGED excused
      BY <2>1 DEF EngineShape
    <2>2. CASE excused' = [excused EXCEPT ![it.key] = @ \/ stored[it.key] = None]
      BY <2>2, Zenon DEF EngineShape
    <2>3. CASE excused' = [excused EXCEPT ![it.key] = TRUE]
      BY <2>3 DEF EngineShape
    <2> QED BY <2>1, <2>2, <2>3 DEF EngineApplies
  <1> QED BY <1>1, <1>3, <1>4, <1>5, <1>6 DEF EngineShape, EngineApplies

-------------------------------------------------------------------------------
(* Every action keeps the shape, and the end of one context private.       *)

\* What the lemmas of the actions state of a step.
KeepsShape == ShapeInv' /\ (CancelStaysPrivate => CancelStaysPrivate')

\* A result that no context ended for, given to some goroutines.
LEMMA Private ==
  ASSUME KeepsCalls, \A d \in Callers : call'[d].res = call[d].res \/ call'[d].res # Cancelled
                                         \/ ~call[d].live
  PROVE  CancelStaysPrivate => CancelStaysPrivate'
  BY DEF KeepsCalls, CancelStaysPrivate

\* The function of singleflight ends with a result no context ended for.
LEMMA DoReturnsKeeps ==
  ASSUME ShapeInv, NEW c \in Callers, call[c].at \in Running, NEW r \in Results,
         Recovered(r) # Cancelled, DoReturns(c, r), EngineShape'
  PROVE  KeepsShape
  <1>1. CallShape' /\ OneKey' /\ OneFlight'
    BY DoReturnsShape
  <1>2. /\ KeepsCalls
        /\ \A d \in Told(c) : call'[d].res = Recovered(r)
        /\ \A d \in Callers \ Told(c) : call'[d] = call[d]
    BY DoReturned DEF ShapeInv
  <1>3. \A d \in Callers : call'[d].res = call[d].res \/ call'[d].res # Cancelled
    BY <1>2
  <1> QED BY <1>1, <1>2, <1>3, Private DEF KeepsShape, ShapeInv

\* What a call begins with.
LEMMA Called ==
  ASSUME ShapeInv, NEW c \in Callers, Calls(c)
  PROVE  /\ CallShape' /\ \A d \in Callers \ {c} : call'[d] = call[d]
         /\ call'[c].at = "call" /\ call'[c].res = Ok
         /\ call'[c].op # "del" => \E k \in Keys : call'[c].keys = {k}
         /\ call'[c].op = "getOrElse" => call'[c].since = floor[KeyOf(c)'] /\ KeyOf(c)' \in Keys
  <1>1. PICK op \in Ops, ks \in (SUBSET Keys) \ {{}}, live \in BOOLEAN :
          /\ op # "del" => \E k \in Keys : ks = {k}
          /\ call' = [call EXCEPT ![c] = [NoCall EXCEPT !.at = "call", !.op = op,
                       !.keys = ks, !.live = live,
                       !.since = IF op = "getOrElse" THEN floor[CHOOSE k \in ks : TRUE] ELSE 0]]
    BY ZenonT(30) DEF Calls
  <1> DEFINE v == IF op = "getOrElse" THEN floor[CHOOSE k \in ks : TRUE] ELSE 0
             n == [NoCall EXCEPT !.at = "call", !.op = op, !.keys = ks, !.live = live, !.since = v]
  <1>2. v \in Versions
    <2>1. 0 \in Versions
      BY CacheAssumption DEF Versions
    <2>2. (CHOOSE k \in ks : TRUE) \in Keys
      OBVIOUS
    <2> QED BY <2>1, <2>2 DEF ShapeInv, EngineShape
  <1>3. call' = [call EXCEPT ![c] = n]
    BY <1>1
  <1> HIDE DEF v
  <1>4. /\ n \in [at : Places, op : Ops \cup {None}, keys : SUBSET Keys, live : BOOLEAN,
                  val : Versions \cup {None}, res : Results, since : Versions]
        /\ n.at = "call" /\ n.op = op /\ n.keys = ks /\ n.res = Ok /\ n.since = v
    <2>1. /\ NoCall \in [at : Places, op : Ops \cup {None}, keys : SUBSET Keys, live : BOOLEAN,
                         val : Versions \cup {None}, res : Results, since : Versions]
          /\ NoCall.res = Ok
      BY CacheAssumption DEF NoCall, Places, Results, Ok, Versions
    <2>2. "call" \in Places
      BY DEF Places
    <2> QED BY <1>2, <2>1, <2>2
  <1> HIDE DEF n
  <1>5. /\ CallShape' /\ call'[c] = n /\ \A d \in Callers \ {c} : call'[d] = call[d]
    BY <1>3, <1>4 DEF ShapeInv, CallShape
  <1>6. call'[c].op = "getOrElse" => call'[c].since = floor[KeyOf(c)'] /\ KeyOf(c)' \in Keys
    <2>1. KeyOf(c)' = CHOOSE k \in ks : TRUE
      BY <1>4, <1>5 DEF KeyOf
    <2>2. (CHOOSE k \in ks : TRUE) \in Keys
      OBVIOUS
    <2>3. call'[c].op = op /\ call'[c].since = v
      BY <1>4, <1>5
    <2> QED BY <2>1, <2>2, <2>3 DEF v
  <1>7. call'[c].op # "del" => \E k \in Keys : call'[c].keys = {k}
    BY <1>1, <1>4, <1>5
  <1> QED BY <1>4, <1>5, <1>6, <1>7

\* A call begins.
LEMMA CallsShape ==
  ASSUME ShapeInv, NEW c \in Callers, Calls(c)
  PROVE  KeepsShape
  <1>1. /\ CallShape' /\ \A d \in Callers \ {c} : call'[d] = call[d]
        /\ call'[c].at = "call" /\ call'[c].res = Ok
        /\ call'[c].op # "del" => \E k \in Keys : call'[c].keys = {k}
    BY Called
  <1>2. OneKey' /\ OneFlight'
    <2>1. UNCHANGED flight /\ call[c].at \notin Running
      BY DEF Calls, Running
    <2> QED BY <1>1, <2>1, QuietShape
  <1>3. EngineShape'
    BY DEF ShapeInv, EngineShape, Calls, engineVars, history
  <1>4. CancelStaysPrivate => CancelStaysPrivate'
    BY <1>1 DEF CancelStaysPrivate, Ok, Cancelled
  <1> QED BY <1>1, <1>2, <1>3, <1>4 DEF KeepsShape, ShapeInv

\* A call ends.
LEMMA DoneShape ==
  ASSUME ShapeInv, NEW c \in Callers, Done(c)
  PROVE  KeepsShape
  <1>1. NoCall \in [at : Places, op : Ops \cup {None}, keys : SUBSET Keys, live : BOOLEAN,
               val : Versions \cup {None}, res : Results, since : Versions]
    BY CacheAssumption DEF NoCall, Places, Results, Ok, Versions
  <1>2. /\ CallShape' /\ call'[c] = NoCall /\ \A d \in Callers \ {c} : call'[d] = call[d]
    BY <1>1 DEF ShapeInv, CallShape, Done
  <1>3. OneKey' /\ OneFlight'
    BY <1>2, QuietShape DEF Done, Running, NoCall
  <1>4. EngineShape'
    BY DEF ShapeInv, EngineShape, Done, engineVars, history
  <1>5. CancelStaysPrivate => CancelStaysPrivate'
    BY <1>2 DEF CancelStaysPrivate, Ok, Cancelled, NoCall
  <1> QED BY <1>2, <1>3, <1>4, <1>5 DEF KeepsShape, ShapeInv

\* A call that is not one of Del is about its key.
LEMMA KeyKnown ==
  ASSUME ShapeInv, NEW c \in Callers, call[c].at # "idle", call[c].op # "del"
  PROVE  KeyOf(c) \in Keys /\ call[c].keys = {KeyOf(c)}
  BY DEF ShapeInv, OneKey

\* Get and TryGet answer their own caller, with its own context.
LEMMA ReadShape ==
  ASSUME ShapeInv, NEW c \in Callers, Read(c)
  PROVE  KeepsShape
  <1>1. KeyOf(c) \in Keys /\ call[c].live \in BOOLEAN
    BY KeyKnown DEF Read, ShapeInv, CallShape
  <1>2. PICK r \in EngineGet(KeyOf(c), call[c].live) :
          Returns(c, IF call[c].op = "get" THEN Recovered(r) ELSE r)
    BY DEF Read
  <1> DEFINE q == IF call[c].op = "get" THEN Recovered(r) ELSE r
  <1>3. q \in Results /\ (call[c].live => q # Cancelled)
    BY <1>1, Answers DEF ShapeInv
  <1> HIDE DEF q
  <1>4. /\ CallShape' /\ KeepsCalls /\ call'[c].at = "return" /\ call'[c].res = q
        /\ \A d \in Callers \ {c} : call'[d] = call[d]
    <2>1. Returns(c, q)
      BY <1>2 DEF q
    <2> QED BY <1>3, <2>1, Returned DEF ShapeInv
  <1>5. OneKey' /\ OneFlight'
    BY <1>4, StepShape DEF Read, Running
  <1>6. EngineShape'
    BY DEF ShapeInv, EngineShape, Read, engineVars, history
  <1>7. CancelStaysPrivate => CancelStaysPrivate'
    BY <1>3, <1>4, Private
  <1> QED BY <1>4, <1>5, <1>6, <1>7 DEF KeepsShape, ShapeInv

\* The first read of GetOrElse is the caller's own too.
LEMMA FirstGetShape ==
  ASSUME ShapeInv, NEW c \in Callers, FirstGet(c)
  PROVE  KeepsShape
  <1>1. KeyOf(c) \in Keys /\ call[c].live \in BOOLEAN
    BY KeyKnown DEF FirstGet, ShapeInv, CallShape
  <1>2. PICK r \in EngineGet(KeyOf(c), call[c].live) :
          IF IsMiss(r) THEN call' = [call EXCEPT ![c].at = "do"] ELSE Returns(c, Recovered(r))
    BY DEF FirstGet
  <1>3. Recovered(r) \in Results /\ (call[c].live => Recovered(r) # Cancelled)
    BY <1>1, Answers DEF ShapeInv
  <1>4. /\ CallShape' /\ KeepsCalls /\ call'[c].at \in {"do", "return"}
        /\ call'[c].res \in {call[c].res, Recovered(r)}
        /\ \A d \in Callers \ {c} : call'[d] = call[d]
    <2>1. CASE call' = [call EXCEPT ![c].at = "do"]
      BY <2>1, Moved DEF ShapeInv, Places
    <2>2. CASE Returns(c, Recovered(r))
      BY <1>3, <2>2, Returned DEF ShapeInv
    <2> QED BY <1>2, <2>1, <2>2
  <1>5. OneKey' /\ OneFlight'
    BY <1>4, StepShape DEF FirstGet, Running
  <1>6. EngineShape'
    BY DEF ShapeInv, EngineShape, FirstGet, engineVars, history
  <1>7. CancelStaysPrivate => CancelStaysPrivate'
    BY <1>3, <1>4, Private
  <1> QED BY <1>4, <1>5, <1>6, <1>7 DEF KeepsShape, ShapeInv

\* singleflight lets one goroutine in for a key.
LEMMA DoJoinsShape ==
  ASSUME ShapeInv, NEW c \in Callers, DoJoins(c)
  PROVE  KeepsShape
  <1> DEFINE k0 == KeyOf(c)
  <1>1. k0 \in Keys /\ call[c].keys = {k0} /\ call[c].op = "getOrElse" /\ call[c].at = "do"
    BY DEF DoJoins, ShapeInv, OneKey
  <1>2. /\ CallShape' /\ KeepsCalls /\ call'[c].at \in {"check", "wait"} /\ call'[c].res = call[c].res
        /\ call'[c].val = call[c].val
        /\ \A d \in Callers \ {c} : call'[d] = call[d]
    <2>1. CASE call' = [call EXCEPT ![c].at = "check"]
      BY <2>1, Moved DEF ShapeInv, Places
    <2>2. CASE call' = [call EXCEPT ![c].at = "wait"]
      BY <2>2, Moved DEF ShapeInv, Places
    <2> QED BY <2>1, <2>2 DEF DoJoins
  <1>3. \A d \in Callers : KeyOf(d)' = KeyOf(d)
    BY <1>2, KeyStays DEF KeepsCalls
  <1>4. OneKey'
    BY <1>1, <1>2, <1>3 DEF ShapeInv, OneKey, KeepsCalls, Running
  <1>5. None \notin Callers /\ flight \in [Keys -> Callers \cup {None}]
    BY CacheAssumption DEF ShapeInv, OneFlight
  <1>6. \A k \in Keys : flight[k] # None =>
          /\ flight[k] # c /\ call'[flight[k]].at \in Running /\ call'[flight[k]].keys = {k}
    <2> SUFFICES ASSUME NEW k \in Keys, flight[k] # None
                 PROVE  /\ flight[k] # c
                        /\ call'[flight[k]].at \in Running /\ call'[flight[k]].keys = {k}
      OBVIOUS
    <2>1. flight[k] \in Callers /\ call[flight[k]].at \in Running /\ call[flight[k]].keys = {k}
      BY DEF ShapeInv, OneFlight
    <2>2. flight[k] # c
      BY <1>1, <2>1 DEF Running
    <2> QED BY <1>2, <2>1, <2>2
  <1>7. \A d \in Callers \ {c} : /\ call[d].at \in Running => flight[KeyOf(d)] = d
                                 /\ call[d].at = "wait" => flight[KeyOf(d)] \in Callers
                                 /\ call[d].at \in Running \cup {"wait"} => KeyOf(d) \in Keys
    BY DEF ShapeInv, OneFlight, OneKey, Running
  <1>8. OneFlight'
    <2>1. CASE flight[k0] = None
      <3>1. flight' = [flight EXCEPT ![k0] = c] /\ call'[c].at = "check" /\ call'[c].keys = {k0}
        <4>1. call' = [call EXCEPT ![c].at = "check"] /\ flight' = [flight EXCEPT ![k0] = c]
          BY <2>1 DEF DoJoins
        <4> QED BY <1>1, <4>1, Moved DEF ShapeInv, Places, KeepsCalls
      <3>2. flight' \in [Keys -> Callers \cup {None}]
        BY <1>5, <3>1
      <3>3. \A k \in Keys : flight'[k] = IF k = k0 THEN c ELSE flight[k]
        BY <1>5, <3>1
      <3>4. \A k \in Keys : flight'[k] # None =>
              call'[flight'[k]].at \in Running /\ call'[flight'[k]].keys = {k}
        BY <1>6, <3>1, <3>3 DEF Running
      <3>5. \A d \in Callers : call'[d].at \in Running => flight'[KeyOf(d)'] = d
        <4> SUFFICES ASSUME NEW d \in Callers, call'[d].at \in Running PROVE flight'[KeyOf(d)] = d
          BY <1>3
        <4>1. CASE d = c
          BY <1>1, <3>3, <4>1
        <4>2. CASE d # c
          BY <1>2, <1>5, <1>7, <2>1, <3>3, <4>2
        <4> QED BY <4>1, <4>2
      <3>6. \A d \in Callers : call'[d].at = "wait" => flight'[KeyOf(d)'] \in Callers
        <4> SUFFICES ASSUME NEW d \in Callers, call'[d].at = "wait"
                     PROVE  flight'[KeyOf(d)] \in Callers
          BY <1>3
        <4>1. d # c
          BY <3>1
        <4> QED BY <1>2, <1>7, <3>3, <4>1
      <3> QED BY <3>2, <3>4, <3>5, <3>6, SMTT(30) DEF OneFlight
    <2>2. CASE flight[k0] # None
      <3>1. UNCHANGED flight /\ call'[c].at = "wait"
        <4>1. call' = [call EXCEPT ![c].at = "wait"] /\ UNCHANGED flight
          BY <2>2 DEF DoJoins
        <4> QED BY <4>1, Moved DEF ShapeInv, Places
      <3>2. \A d \in Callers : call'[d].at \in Running => flight'[KeyOf(d)'] = d
        BY <1>2, <1>3, <1>7, <3>1 DEF Running
      <3>3. \A d \in Callers : call'[d].at = "wait" => flight'[KeyOf(d)'] \in Callers
        BY <1>1, <1>2, <1>3, <1>5, <1>7, <2>2, <3>1
      <3> QED BY <1>5, <1>6, <3>1, <3>2, <3>3 DEF OneFlight
    <2> QED BY <2>1, <2>2
  <1>9. EngineShape'
    BY DEF ShapeInv, EngineShape, DoJoins, engineVars, history
  <1>10. CancelStaysPrivate => CancelStaysPrivate'
    BY <1>2, Private
  <1> QED BY <1>2, <1>4, <1>8, <1>9, <1>10 DEF KeepsShape, ShapeInv

\* The second read is done for all that wait, without anybody's context.
LEMMA DoubleCheckShape ==
  ASSUME ShapeInv, NEW c \in Callers, DoubleCheck(c)
  PROVE  KeepsShape
  <1>1. KeyOf(c) \in Keys /\ call[c].at = "check" /\ call[c].op = "getOrElse"
    BY DEF DoubleCheck, ShapeInv, OneKey, Running
  <1>2. PICK r \in EngineGet(KeyOf(c), TRUE) :
          IF IsMiss(r) THEN call' = [call EXCEPT ![c].at = "load"] /\ UNCHANGED flight
          ELSE DoReturns(c, r)
    BY DEF DoubleCheck, CheckContext
  <1>3. r \in Results /\ Recovered(r) # Cancelled
    BY <1>1, Answers DEF ShapeInv
  <1>4. EngineShape'
    BY DEF ShapeInv, EngineShape, DoubleCheck, engineVars, history
  <1>5. CASE call' = [call EXCEPT ![c].at = "load"] /\ UNCHANGED flight
    <2>1. /\ CallShape' /\ KeepsCalls /\ call'[c].at = "load" /\ call'[c].res = call[c].res
          /\ \A d \in Callers \ {c} : call'[d] = call[d]
      BY <1>5, Moved DEF ShapeInv, Places
    <2>2. OneKey' /\ OneFlight'
      BY <1>1, <1>5, <2>1, StepShape DEF Running
    <2>3. CancelStaysPrivate => CancelStaysPrivate'
      BY <2>1, Private
    <2> QED BY <1>4, <2>1, <2>2, <2>3 DEF KeepsShape, ShapeInv
  <1>6. CASE DoReturns(c, r)
    BY <1>1, <1>3, <1>4, <1>6, DoReturnsKeeps DEF Running
  <1> QED BY <1>2, <1>5, <1>6

\* The loader fails, or has a value.
LEMMA LoadShape ==
  ASSUME ShapeInv, NEW c \in Callers, Load(c)
  PROVE  KeepsShape
  <1>1. KeyOf(c) \in Keys /\ call[c].at = "load" /\ call[c].op = "getOrElse"
    BY DEF Load, ShapeInv, OneKey, Running
  <1>2. EngineShape'
    <2>1. excused' \in [Keys -> BOOLEAN]
      BY DEF ShapeInv, EngineShape, Load
    <2>2. spared' \subseteq Keys
      BY DEF ShapeInv, EngineShape, Load
    <2> QED BY <2>1, <2>2 DEF ShapeInv, EngineShape, Load, engineVars
  <1>3. CASE DoReturns(c, LoadFailed)
    BY <1>1, <1>2, <1>3, DoReturnsKeeps DEF LoadFailed, Running, Results, Cancelled, Recovered, Panic
  <1>4. CASE /\ call' = [call EXCEPT ![c].at = "store", ![c].val = source[KeyOf(c)]]
             /\ UNCHANGED flight
    <2>0. source[KeyOf(c)] \in Versions
      BY <1>1 DEF ShapeInv, EngineShape
    <2>1. /\ CallShape' /\ KeepsCalls /\ call'[c].at = "store" /\ call'[c].res = call[c].res
          /\ call'[c].val \in Versions
          /\ \A d \in Callers \ {c} : call'[d] = call[d]
      BY <1>4, <2>0, Loaded DEF ShapeInv
    <2>2. OneKey' /\ OneFlight'
      BY <1>1, <1>4, <2>1, StepShape DEF Running
    <2>3. CancelStaysPrivate => CancelStaysPrivate'
      BY <2>1, Private
    <2> QED BY <1>2, <2>1, <2>2, <2>3 DEF KeepsShape, ShapeInv
  <1> QED BY <1>3, <1>4 DEF Load

\* The step from one place of the function to the next.
LEMMA GoesOn ==
  ASSUME ShapeInv, NEW c \in Callers, call[c].at \in {"store", "sync"},
         NEW a \in {"sync", "syncing"},
         call' = [call EXCEPT ![c].at = a], UNCHANGED flight, EngineShape'
  PROVE  KeepsShape
  <1>1. /\ CallShape' /\ KeepsCalls /\ call'[c].at = a /\ call'[c].res = call[c].res
        /\ call'[c].val = call[c].val
        /\ \A d \in Callers \ {c} : call'[d] = call[d]
    BY Moved DEF ShapeInv, Places
  <1>2. call[c].val \in Versions /\ call[c].op = "getOrElse"
    BY DEF ShapeInv, OneKey, Running
  <1>3. OneKey' /\ OneFlight'
    BY <1>1, <1>2, StepShape DEF Running
  <1>4. CancelStaysPrivate => CancelStaysPrivate'
    BY <1>1, Private
  <1> QED BY <1>1, <1>3, <1>4 DEF KeepsShape, ShapeInv

\* The write is accepted, or the function ends with the backend's panic.
LEMMA StoreShape ==
  ASSUME ShapeInv, NEW c \in Callers, Store(c)
  PROVE  KeepsShape
  <1>1. KeyOf(c) \in Keys /\ call[c].at = "store" /\ call[c].val \in Versions
    BY DEF Store, ShapeInv, OneKey, Running
  <1>2. CASE /\ EngineSet(KeyOf(c), call[c].val)
             /\ call' = [call EXCEPT ![c].at = "sync"] /\ UNCHANGED flight
    <2>1. EngineShape'
      BY <1>1, <1>2, SetShape DEF ShapeInv, Store
    <2> QED BY <1>1, <1>2, <2>1, GoesOn
  <1>3. CASE /\ \E r \in {Value(call[c].val), Panic} : DoReturns(c, r)
             /\ excused' = [excused EXCEPT ![KeyOf(c)] = TRUE] /\ UNCHANGED <<stored, setBuf>>
    <2>1. EngineShape'
      <3>1. excused' \in [Keys -> BOOLEAN]
        BY <1>3 DEF ShapeInv, EngineShape
      <3> QED BY <1>3, <3>1 DEF ShapeInv, EngineShape, Store
    <2>2. PICK r \in {Value(call[c].val), Panic} : DoReturns(c, r)
      BY <1>3
    <2>3. r \in Results /\ Recovered(r) # Cancelled
      BY <1>1 DEF Value, Panic, Results, Recovered, Backend, Cancelled
    <2> QED BY <1>1, <2>1, <2>2, <2>3, DoReturnsKeeps DEF Running
  <1> QED BY <1>2, <1>3 DEF Store

\* The marker is an item.
LEMMA SyncShape ==
  ASSUME ShapeInv, NEW c \in Callers, Sync(c)
  PROVE  KeepsShape
  <1>1. KeyOf(c) \in Keys /\ call[c].at = "sync"
    BY DEF Sync, ShapeInv, OneKey, Running
  <1>2. /\ setBuf' \in Seq(Items) /\ Len(setBuf)' <= SetBufSize
        /\ \A i \in DOMAIN setBuf' : setBuf'[i].is = "new" => setBuf'[i].val \in Versions
    BY <1>1, AppendShape DEF Sync, ShapeInv
  <1>3. EngineShape'
    BY <1>2 DEF ShapeInv, EngineShape, Sync, history
  <1> QED BY <1>1, <1>3, GoesOn DEF Sync

\* The function ends with the loaded value.
LEMMA SyncedShape ==
  ASSUME ShapeInv, NEW c \in Callers, Synced(c)
  PROVE  KeepsShape
  <1>1. call[c].at = "syncing" /\ call[c].val \in Versions
    BY DEF Synced, ShapeInv, OneKey, Running
  <1>2. EngineShape'
    BY DEF ShapeInv, EngineShape, Synced, engineVars, history
  <1>3. Value(call[c].val) \in Results /\ Recovered(Value(call[c].val)) # Cancelled
    BY <1>1 DEF Value, Panic, Results, Recovered, Backend, Cancelled
  <1> QED BY <1>1, <1>2, <1>3, DoReturnsKeeps DEF Synced, Running

\* A call that writes ends with a result.
LEMMA WriteReturns ==
  ASSUME ShapeInv, NEW c \in Callers, call[c].at = "call", NEW r \in {Ok, Backend},
         Returns(c, r), UNCHANGED flight, EngineShape'
  PROVE  KeepsShape
  <1>1. r \in Results /\ r # Cancelled
    BY DEF Ok, Backend, Results, Cancelled
  <1>2. /\ CallShape' /\ KeepsCalls /\ call'[c].at = "return" /\ call'[c].res = r
        /\ \A d \in Callers \ {c} : call'[d] = call[d]
    BY <1>1, Returned DEF ShapeInv
  <1>3. OneKey' /\ OneFlight'
    BY <1>2, StepShape DEF Running
  <1>4. CancelStaysPrivate => CancelStaysPrivate'
    BY <1>1, <1>2, Private
  <1> QED BY <1>2, <1>3, <1>4 DEF KeepsShape, ShapeInv

\* Plain Set.
LEMMA SetsShape ==
  ASSUME ShapeInv, NEW c \in Callers, Set(c)
  PROVE  KeepsShape
  <1>1. KeyOf(c) \in Keys /\ call[c].at = "call"
    BY KeyKnown DEF Set
  <1>2. source[KeyOf(c)] \in Versions
    BY <1>1 DEF ShapeInv, EngineShape
  <1>3. CASE EngineSet(KeyOf(c), source[KeyOf(c)]) /\ Returns(c, Ok)
    <2>1. EngineShape'
      BY <1>1, <1>2, <1>3, SetShape DEF ShapeInv, Set
    <2> QED BY <1>1, <1>3, <2>1, WriteReturns DEF Set
  <1>4. CASE Returns(c, Backend) /\ UNCHANGED <<stored, setBuf, excused>>
    <2>1. EngineShape'
      BY <1>4 DEF ShapeInv, EngineShape, Set
    <2> QED BY <1>1, <1>4, <2>1, WriteReturns DEF Set
  <1> QED BY <1>3, <1>4 DEF Set

\* Del, one key at a time.
LEMMA DelsShape ==
  ASSUME ShapeInv, NEW c \in Callers, Del(c)
  PROVE  KeepsShape
  <1>1. call[c].at = "call" /\ call[c].op = "del" /\ call[c].keys \subseteq Keys
    BY DEF Del, ShapeInv, CallShape
  <1>2. ASSUME NEW k \in call[c].keys, EngineDel(k), floor' = Floor({k}),
               IF call[c].keys = {k} THEN Returns(c, Ok)
               ELSE call' = [call EXCEPT ![c].keys = @ \ {k}]
        PROVE  KeepsShape
    <2>1. EngineShape'
      <3>1. floor' \in [Keys -> Versions]
        BY <1>2, FloorShape DEF ShapeInv
      <3> QED BY <1>1, <1>2, <3>1, DelShape DEF Del, ShapeInv
    <2>2. CASE Returns(c, Ok)
      BY <1>1, <2>1, <2>2, WriteReturns DEF Del
    <2>3. CASE call' = [call EXCEPT ![c].keys = @ \ {k}]
      <3>1. /\ CallShape' /\ call'[c].at = "call" /\ call'[c].op = "del"
            /\ call'[c].live = call[c].live /\ call'[c].res = call[c].res
            /\ \A d \in Callers \ {c} : call'[d] = call[d]
        BY <1>1, <2>3 DEF ShapeInv, CallShape
      <3>2. OneKey' /\ OneFlight'
        BY <1>1, <3>1, QuietShape DEF Del, Running
      <3>3. CancelStaysPrivate => CancelStaysPrivate'
        BY <3>1 DEF CancelStaysPrivate
      <3> QED BY <2>1, <3>1, <3>2, <3>3 DEF KeepsShape, ShapeInv
    <2> QED BY <1>2, <2>2, <2>3
  <1>3. CASE Returns(c, Backend) /\ UNCHANGED <<stored, setBuf, excused, floor>>
    <2>1. EngineShape'
      BY <1>3 DEF ShapeInv, EngineShape, Del
    <2> QED BY <1>1, <1>3, <2>1, WriteReturns DEF Del
  <1> QED BY <1>2, <1>3 DEF Del

\* Clear.
LEMMA ClearShape ==
  ASSUME ShapeInv, NEW c \in Callers, Clear(c)
  PROVE  KeepsShape
  <1>1. call[c].at = "call"
    BY DEF Clear
  <1>2. CASE EngineClear /\ floor' = Floor(Keys) /\ Returns(c, Ok)
    <2>1. EngineShape'
      <3>1. floor' \in [Keys -> Versions]
        BY <1>2, FloorShape DEF ShapeInv
      <3>2. setBuf' \in Seq(Items) /\ Len(setBuf)' = 0 /\ DOMAIN setBuf' = {}
        BY <1>2 DEF EngineClear
      <3>3. /\ stored' \in [Keys -> Versions \cup {None}] /\ excused' \in [Keys -> BOOLEAN]
            /\ Len(setBuf)' <= SetBufSize
        BY <1>2, <3>2, CacheAssumption DEF EngineClear
      <3> QED BY <3>1, <3>2, <3>3 DEF ShapeInv, EngineShape, Clear
    <2> QED BY <1>1, <1>2, <2>1, WriteReturns DEF Clear
  <1>3. CASE Returns(c, Backend) /\ UNCHANGED <<stored, setBuf, excused, floor>>
    <2>1. EngineShape'
      BY <1>3 DEF ShapeInv, EngineShape, Clear
    <2> QED BY <1>1, <1>3, <2>1, WriteReturns DEF Clear
  <1> QED BY <1>2, <1>3 DEF Clear

\* The shape and the privacy of contexts are inductive.
LEMMA NextShape == ShapeInv /\ [Next]_vars => ShapeInv' /\ (CancelStaysPrivate => CancelStaysPrivate')
  <1> SUFFICES ASSUME ShapeInv, [Next]_vars PROVE KeepsShape
    BY DEF KeepsShape
  <1>1. ASSUME NEW c \in Callers,
               Calls(c) \/ Done(c) \/ Read(c) \/ GetOrElse(c) \/ Del(c) \/ Clear(c) \/ Set(c)
        PROVE  KeepsShape
    <2>1. CASE Calls(c) \/ Done(c) \/ Read(c)
      BY <2>1, CallsShape, DoneShape, ReadShape
    <2>2. CASE GetOrElse(c)
      BY <2>2, FirstGetShape, DoJoinsShape, DoubleCheckShape, LoadShape, StoreShape, SyncShape,
         SyncedShape DEF GetOrElse
    <2>3. CASE Del(c) \/ Clear(c) \/ Set(c)
      BY <2>3, DelsShape, ClearShape, SetsShape
    <2> QED BY <1>1, <2>1, <2>2, <2>3
  <1>2. ASSUME UNCHANGED <<call, flight>>, EngineShape' PROVE KeepsShape
    <2>1. \A d \in Callers : KeyOf(d)' = KeyOf(d)
      BY <1>2 DEF KeyOf
    <2>2. CallShape' /\ OneKey' /\ OneFlight'
      BY <1>2, <2>1 DEF ShapeInv, CallShape, OneKey, OneFlight
    <2> QED BY <1>2, <2>2 DEF KeepsShape, ShapeInv, CancelStaysPrivate
  <1>3. ASSUME NEW k \in Keys, EngineEvicts(k) PROVE KeepsShape
    <2>1. stored' \in [Keys -> Versions \cup {None}] /\ excused' \in [Keys -> BOOLEAN]
      BY <1>3 DEF ShapeInv, EngineShape, EngineEvicts
    <2>2. EngineShape'
      BY <1>3, <2>1 DEF ShapeInv, EngineShape, EngineEvicts
    <2> QED BY <1>2, <1>3, <2>2 DEF EngineEvicts
  <1>4. ASSUME NEW k \in Keys, SourceChanges(k) PROVE KeepsShape
    <2>1. source' \in [Keys -> Versions]
      BY <1>4, CacheAssumption DEF ShapeInv, EngineShape, SourceChanges, Versions
    <2>2. EngineShape'
      BY <1>4, <2>1 DEF ShapeInv, EngineShape, SourceChanges, engineVars, history
    <2> QED BY <1>2, <1>4, <2>2 DEF SourceChanges
  <1>5. CASE EngineApplies
    BY <1>2, <1>5, AppliesShape DEF EngineApplies, ShapeInv
  <1>6. CASE BackendFails
    <2>1. EngineShape'
      BY <1>6 DEF BackendFails, ShapeInv, EngineShape
    <2> QED BY <1>2, <1>6, <2>1 DEF BackendFails
  <1>7. CASE BackendHeals
    <2>1. EngineShape'
      BY <1>7 DEF BackendHeals, ShapeInv, EngineShape, history
    <2> QED BY <1>2, <1>7, <2>1 DEF BackendHeals
  <1>8. CASE UNCHANGED vars
    <2>1. EngineShape' /\ UNCHANGED <<call, flight>>
      BY <1>8 DEF vars, engineVars, history, ShapeInv, EngineShape
    <2> QED BY <1>2, <2>1
  <1> QED BY <1>1, <1>3, <1>4, <1>5, <1>6, <1>7, <1>8 DEF Next, WithoutSet

\* What is in the buffer is an item.
LEMMA BufferHolds ==
  ASSUME EngineShape, NEW i \in DOMAIN setBuf
  PROVE  setBuf[i].is \in {"new", "del", "wait"} /\ setBuf[i].key \in Keys
  <1>1. setBuf[i] \in Items
    BY DEF EngineShape
  <1> QED BY <1>1 DEF Items

\* The shape is the type invariant, and more.
LEMMA ShapeTypeOK == ShapeInv => TypeOK
  <1> SUFFICES ASSUME ShapeInv PROVE TypeOK
    OBVIOUS
  <1>1. \A i \in 1 .. Len(setBuf) :
         setBuf[i].is \in {"new", "del", "wait"} /\ setBuf[i].key \in Keys
    <2>1. DOMAIN setBuf = 1 .. Len(setBuf)
      BY DEF ShapeInv, EngineShape
    <2> QED BY <2>1, BufferHolds DEF ShapeInv
  <1>2. \A c \in Callers :
         /\ call[c].op \in Ops \cup {None} /\ call[c].keys \subseteq Keys
         /\ call[c].at \in Places
    BY DEF ShapeInv, CallShape
  <1>3. \A c \in Callers : call[c].at \in Running <=> \E k \in Keys : flight[k] = c
    <2> TAKE c \in Callers
    <2>1. ASSUME call[c].at \in Running PROVE \E k \in Keys : flight[k] = c
      <3>1. KeyOf(c) \in Keys /\ flight[KeyOf(c)] = c
        BY <2>1 DEF ShapeInv, OneKey, OneFlight, Running
      <3> QED BY <3>1
    <2>2. ASSUME NEW k \in Keys, flight[k] = c PROVE call[c].at \in Running
      BY <2>2, CacheAssumption DEF ShapeInv, OneFlight
    <2> QED BY <2>1, <2>2
  <1>4. /\ flight \in [Keys -> Callers \cup {None}]
        /\ \A c \in Callers : call[c].at = "wait" => flight[KeyOf(c)] \in Callers
    BY DEF ShapeInv, OneFlight
  <1> QED BY <1>1, <1>2, <1>3, <1>4 DEF TypeOK, ShapeInv, EngineShape, Running, Places

\* The end of one caller's context stays that caller's (typed.go:112-128): whatever
\* goroutines, keys and operations there are, plain Set included, a caller whose context
\* lives is never answered with the error of another one's.
THEOREM CachePrivate == Spec => []CancelStaysPrivate
  <1>1. Init => ShapeInv /\ CancelStaysPrivate
    <2>1. Init => CancelStaysPrivate
      BY DEF Init, CancelStaysPrivate, NoCall, Ok, Cancelled
    <2> QED BY <2>1, InitShape
  <1>2. ShapeInv /\ CancelStaysPrivate /\ [Next]_vars => (ShapeInv /\ CancelStaysPrivate)'
    BY NextShape
  <1> QED BY <1>1, <1>2, PTL DEF Spec

-------------------------------------------------------------------------------
(* The read-through cache.                                                 *)

\* Two goroutines never run the function for the same key.
LEMMA Alone ==
  ASSUME ShapeInv, NEW c \in Callers, NEW d \in Callers, call[c].at \in Running,
         call[d].at \in Running, c # d
  PROVE  KeyOf(c) # KeyOf(d)
  BY DEF ShapeInv, OneFlight

\* While the function runs elsewhere than in its store, no write of its key is buffered.
LEMMA NoWrite ==
  ASSUME ShapeInv, WritesOwned, NEW k \in Keys,
         flight[k] = None \/ call[flight[k]].at \notin {"sync", "syncing"}
  PROVE  \A i \in DOMAIN setBuf : ~(setBuf[i].is = "new" /\ setBuf[i].key = k)
  BY CacheAssumption DEF WritesOwned

\* What the value of a buffered write is.
LEMMA WriteFresh ==
  ASSUME CacheInv, NEW i \in DOMAIN setBuf, setBuf[i].is = "new"
  PROVE  setBuf[i].key \in Keys /\ setBuf[i].val \in Versions /\ setBuf[i].val >= floor[setBuf[i].key]
  <1> DEFINE k == setBuf[i].key  c == flight[k]
  <1>1. k \in Keys /\ setBuf[i].val \in Versions
    BY BufferHolds DEF CacheInv, ShapeInv, EngineShape
  <1>2. c \in Callers /\ call[c].at \in {"sync", "syncing"} /\ setBuf[i].val = call[c].val
    BY DEF CacheInv, WritesOwned
  <1>3. KeyOf(c) = k
    <2>1. call[c].keys = {k}
      BY <1>1, <1>2, CacheAssumption DEF CacheInv, ShapeInv, OneFlight
    <2> QED BY <2>1, KeyIs
  <1>4. call[c].val >= floor[k]
    BY <1>2, <1>3 DEF CacheInv, Fresh, StoresFresh, Storage
  <1> QED BY <1>1, <1>2, <1>4

\* What goes on storing goes on with the same value.
KeepsStorage ==
    \A d \in Callers : call[d].at \in Storage \/ call'[d].at \in Storage => call'[d] = call[d]

\* A step that leaves the engine and the storing goroutines alone.
LEMMA FrameStep ==
  ASSUME CacheInv, ShapeInv', UNCHANGED <<source, stored, setBuf, excused, floor>>, KeepsStorage
  PROVE  WritesOwned' /\ NotLost' /\ FloorBound' /\ InvalidationSticks' /\ StoresFresh'
  <1>1. \A k \in Keys : Storing(k) =>
          /\ flight[k] \in Callers /\ flight'[k] = flight[k] /\ call'[flight[k]] = call[flight[k]]
    <2> SUFFICES ASSUME NEW k \in Keys, Storing(k)
                 PROVE  /\ flight[k] \in Callers /\ flight'[k] = flight[k]
                        /\ call'[flight[k]] = call[flight[k]]
      OBVIOUS
    <2>0. flight[k] \in Callers
      BY DEF Storing, CacheInv, ShapeInv, OneFlight
    <2> PICK d \in Callers : d = flight[k]
      BY <2>0
    <2>1. d \in Callers /\ call[d].at \in Storage /\ call[d].keys = {k}
      BY DEF Storing, Storage, CacheInv, ShapeInv, OneFlight
    <2>2. call'[d] = call[d]
      BY <2>1 DEF KeepsStorage
    <2>3. KeyOf(d)' = k
      BY <2>1, <2>2 DEF KeyOf
    <2>4. call'[d].at \in Running
      BY <2>1, <2>2 DEF Storage, Running
    <2>5. flight'[k] = d
      BY <2>1, <2>3, <2>4 DEF ShapeInv, OneFlight
    <2> QED BY <2>1, <2>2, <2>5
  <1>2. \A i \in DOMAIN setBuf : setBuf[i].is = "new" =>
          setBuf[i].key \in Keys /\ Storing(setBuf[i].key)
    BY CacheAssumption, BufferHolds DEF CacheInv, WritesOwned, ShapeInv, Storing
  <1>3. WritesOwned'
    BY <1>1, <1>2 DEF CacheInv, WritesOwned
  <1>4. NotLost'
    <2> SUFFICES ASSUME NEW k \in Keys, ~excused[k] PROVE Held(k)'
      BY DEF NotLost
    <2>1. Held(k)
      BY DEF CacheInv, Excuses, NotLost
    <2>2. CASE flight[k] \in Callers /\ call[flight[k]].at = "store"
      <3>1. Storing(k)
        BY <2>2, CacheAssumption DEF Storing
      <3> QED BY <1>1, <2>2, <3>1 DEF Held
    <2> QED BY <2>1, <2>2 DEF Held
  <1>5. FloorBound' /\ InvalidationSticks'
    BY DEF CacheInv, Fresh, FloorBound, InvalidationSticks
  <1>6. StoresFresh'
    <2> SUFFICES ASSUME NEW d \in Callers, call'[d].at \in Storage
                 PROVE  call'[d].val >= floor[KeyOf(d)']
      BY DEF StoresFresh
    <2>1. call'[d] = call[d]
      BY DEF KeepsStorage
    <2>2. KeyOf(d)' = KeyOf(d)
      BY <2>1, KeyStays
    <2> QED BY <2>1, <2>2 DEF CacheInv, Fresh, StoresFresh
  <1> QED BY <1>3, <1>4, <1>5, <1>6

\* What a step may do to a call of GetOrElse: nothing, take it further, answer it with
\* what is not older than the floor, begin it, or end it.
Goes(d) ==
    /\ call'[d].op = call[d].op /\ call'[d].keys = call[d].keys /\ call'[d].since = call[d].since
    /\ call'[d].res = call[d].res
    /\ call[d].at \notin {"idle", "return"}

Answered(d) ==
    /\ call'[d].op = call[d].op /\ call'[d].keys = call[d].keys /\ call'[d].since = call[d].since
    /\ call[d].at \notin {"idle", "return"} /\ call'[d].at = "return"
    /\ call'[d].res.is = "value" =>
         call'[d].res.val \in Versions /\ call'[d].res.val >= floor[KeyOf(d)]

Begins(d) == call'[d].res = Ok /\ call'[d].since = floor[KeyOf(d)'] /\ KeyOf(d)' \in Keys

Honest(d) ==
    \/ call'[d] = call[d] \/ call'[d] = NoCall \/ call'[d].op # "getOrElse"
    \/ Goes(d) \/ Answered(d) \/ Begins(d)

FloorRises == \A k \in Keys : floor[k] <= floor'[k]

\* Steps that are honest to every call keep answers fresh.
LEMMA HonestStep ==
  ASSUME CacheInv, ShapeInv', FloorRises, \A d \in Callers : Honest(d)
  PROVE  AsksFresh' /\ NoStaleAnswer'
  <1> SUFFICES ASSUME NEW d \in Callers, call'[d].op = "getOrElse"
               PROVE  /\ call'[d].at \notin {"idle", "return"} =>
                           call'[d].since <= floor'[KeyOf(d)'] /\ call'[d].res = Ok
                      /\ call'[d].res.is = "value" => call'[d].res.val >= call'[d].since
    BY DEF AsksFresh, NoStaleAnswer
  <1>0. /\ floor \in [Keys -> Versions] /\ floor' \in [Keys -> Versions]
        /\ call[d].since \in Versions /\ Versions \subseteq Int
    BY DEF CacheInv, ShapeInv, EngineShape, CallShape, Versions
  <1>1. ASSUME call[d].op = "getOrElse", call[d].at \notin {"idle", "return"}
        PROVE  /\ KeyOf(d) \in Keys /\ call[d].since <= floor[KeyOf(d)] /\ call[d].res = Ok
               /\ floor[KeyOf(d)] <= floor'[KeyOf(d)]
               /\ call[d].since <= floor'[KeyOf(d)]
    <2>1. KeyOf(d) \in Keys
      BY <1>1, KeyKnown DEF CacheInv
    <2>2. call[d].since <= floor[KeyOf(d)] /\ call[d].res = Ok
      BY <1>1 DEF CacheInv, Fresh, AsksFresh
    <2>3. floor[KeyOf(d)] <= floor'[KeyOf(d)]
      BY <2>1 DEF FloorRises
    <2>4. call[d].since \in Int /\ floor[KeyOf(d)] \in Int /\ floor'[KeyOf(d)] \in Int
      BY <1>0, <2>1
    <2> QED BY <2>1, <2>2, <2>3, <2>4
  <1>2. CASE call'[d] = call[d]
    <2>1. KeyOf(d)' = KeyOf(d)
      BY <1>2, KeyStays
    <2>2. call[d].res.is = "value" => call[d].res.val >= call[d].since
      BY <1>2 DEF CacheInv, Fresh, NoStaleAnswer
    <2> QED BY <1>1, <1>2, <2>1, <2>2
  <1>3. CASE Goes(d)
    <2>1. KeyOf(d)' = KeyOf(d)
      BY <1>3, KeyStays DEF Goes
    <2>2. call[d].since <= floor'[KeyOf(d)] /\ call[d].res = Ok
      BY <1>1, <1>3 DEF Goes
    <2> QED BY <1>3, <2>1, <2>2 DEF Goes, Ok
  <1>4. CASE Answered(d)
    <2>1. call[d].since <= floor[KeyOf(d)] /\ KeyOf(d) \in Keys
      BY <1>1, <1>4 DEF Answered
    <2>2. call'[d].at = "return" /\ call'[d].since = call[d].since
      BY <1>4 DEF Answered
    <2>3. ASSUME call'[d].res.is = "value" PROVE call'[d].res.val >= call[d].since
      <3>1. call'[d].res.val \in Versions /\ call'[d].res.val >= floor[KeyOf(d)]
        BY <1>4, <2>3 DEF Answered
      <3>2. floor[KeyOf(d)] \in Int /\ call[d].since \in Int /\ call'[d].res.val \in Int
        BY <1>0, <2>1, <3>1
      <3> QED BY <2>1, <3>1, <3>2
    <2> QED BY <2>2, <2>3
  <1>5. CASE Begins(d)
    <2>1. floor[KeyOf(d)'] <= floor'[KeyOf(d)']
      BY <1>5 DEF Begins, FloorRises
    <2> QED BY <1>5, <2>1 DEF Begins, Ok
  <1>6. CASE call'[d] = NoCall
    BY <1>6 DEF NoCall, Ok
  <1> QED BY <1>2, <1>3, <1>4, <1>5, <1>6 DEF Honest

\* A step of a call that leaves the engine alone.
LEMMA CallStep ==
  ASSUME CacheInv, ShapeInv', UNCHANGED <<source, engineVars, history>>, KeepsStorage,
         \A d \in Callers : Honest(d),
         \A d \in Callers : call'[d].at = "load" =>
           /\ KeyOf(d)' = KeyOf(d)
           /\ call[d].at = "load" \/ (excused[KeyOf(d)] = TRUE /\ down = FALSE)
  PROVE  CacheInv'
  <1>1. WritesOwned' /\ NotLost' /\ FloorBound' /\ InvalidationSticks' /\ StoresFresh'
    BY FrameStep DEF engineVars, history
  <1>2. AsksFresh' /\ NoStaleAnswer'
    <2>1. FloorRises
      BY DEF FloorRises, history, CacheInv, ShapeInv, EngineShape, Versions
    <2> QED BY <2>1, HonestStep
  <1>3. LoadExcused'
    <2> SUFFICES ASSUME NEW d \in Callers, call'[d].at = "load"
                 PROVE  excused[KeyOf(d)] /\ (down => KeyOf(d) \in spared)
      BY DEF LoadExcused, engineVars, history
    <2>1. CASE call[d].at = "load"
      BY <2>1 DEF CacheInv, Excuses, LoadExcused
    <2> QED BY <2>1
  <1> QED BY <1>1, <1>2, <1>3 DEF CacheInv, Fresh, Excuses

\* The answer of the function, given to all that wait for it.
LEMMA DoReturnsHonest ==
  ASSUME CacheInv, NEW c \in Callers, call[c].at \in Running, NEW r \in Results, DoReturns(c, r),
         Recovered(r).is = "value" =>
           Recovered(r).val \in Versions /\ Recovered(r).val >= floor[KeyOf(c)]
  PROVE  /\ \A d \in Callers : Honest(d) /\ KeyOf(d)' = KeyOf(d)
         /\ call'[c].at = "return"
         /\ \A d \in Callers \ {c} :
              call[d].at \in Running \/ call'[d].at \in Running => call'[d] = call[d]
  <1>1. /\ KeepsCalls
        /\ \A d \in Told(c) : call'[d].at = "return" /\ call'[d].res = Recovered(r)
        /\ \A d \in Callers \ Told(c) : call'[d] = call[d]
        /\ c \in Told(c)
    BY DoReturned DEF CacheInv, ShapeInv
  <1>2. \A d \in Callers : KeyOf(d)' = KeyOf(d)
    BY <1>1, KeyStays DEF KeepsCalls
  <1>3. \A d \in Told(c) : d \in Callers /\ call[d].keys = call[c].keys /\ (d = c \/ call[d].at = "wait")
    BY DEF Told
  <1>4. ASSUME NEW d \in Told(c) PROVE Answered(d)
    <2>1. KeyOf(d) = KeyOf(c)
      BY <1>3 DEF KeyOf
    <2>2. call[d].at \notin {"idle", "return"}
      BY <1>3 DEF Running
    <2> QED BY <1>1, <1>3, <2>1, <2>2 DEF Answered, KeepsCalls
  <1>5. \A d \in Callers : Honest(d)
    BY <1>1, <1>4 DEF Honest
  <1>6. \A d \in Callers \ {c} :
          call[d].at \in Running \/ call'[d].at \in Running => call'[d] = call[d]
    BY <1>1, <1>3 DEF Running
  <1> QED BY <1>1, <1>2, <1>5, <1>6

\* A call notes the floor it begins with.
LEMMA CallsKeeps ==
  ASSUME CacheInv, ShapeInv', NEW c \in Callers, Calls(c)
  PROVE  CacheInv'
  <1>1. /\ \A d \in Callers \ {c} : call'[d] = call[d]
        /\ call'[c].at = "call" /\ call'[c].res = Ok
        /\ call'[c].op = "getOrElse" => call'[c].since = floor[KeyOf(c)'] /\ KeyOf(c)' \in Keys
    BY Called DEF CacheInv
  <1>2. KeepsStorage
    BY <1>1 DEF KeepsStorage, Storage, Calls
  <1>3. \A d \in Callers : Honest(d)
    BY <1>1 DEF Honest, Begins
  <1>4. \A d \in Callers : call'[d].at = "load" => KeyOf(d)' = KeyOf(d) /\ call[d].at = "load"
    BY <1>1, KeyStays
  <1> QED BY <1>2, <1>3, <1>4, CallStep DEF Calls

\* A call that ends asks for nothing.
LEMMA DoneKeeps ==
  ASSUME CacheInv, ShapeInv', NEW c \in Callers, Done(c)
  PROVE  CacheInv'
  <1>1. /\ \A d \in Callers \ {c} : call'[d] = call[d]
        /\ call'[c] = NoCall /\ call'[c].at = "idle"
    BY DEF CacheInv, ShapeInv, CallShape, Done, NoCall
  <1>2. KeepsStorage
    BY <1>1 DEF KeepsStorage, Storage, Done
  <1>3. \A d \in Callers : Honest(d)
    BY <1>1 DEF Honest
  <1>4. \A d \in Callers : call'[d].at = "load" => KeyOf(d)' = KeyOf(d) /\ call[d].at = "load"
    BY <1>1, KeyStays
  <1> QED BY <1>2, <1>3, <1>4, CallStep DEF Done

\* Get and TryGet change nothing a read-through depends on.
LEMMA ReadKeeps ==
  ASSUME CacheInv, ShapeInv', NEW c \in Callers, Read(c)
  PROVE  CacheInv'
  <1>1. /\ \A d \in Callers \ {c} : call'[d] = call[d]
        /\ call'[c].at = "return" /\ call'[c].op = call[c].op
    BY DEF CacheInv, ShapeInv, CallShape, Read, Returns
  <1>2. KeepsStorage
    BY <1>1 DEF KeepsStorage, Storage, Read
  <1>3. call'[c].op # "getOrElse"
    BY <1>1 DEF Read
  <1>4. \A d \in Callers : Honest(d)
    BY <1>1, <1>3 DEF Honest
  <1>5. \A d \in Callers : call'[d].at = "load" => KeyOf(d)' = KeyOf(d) /\ call[d].at = "load"
    BY <1>1, KeyStays
  <1> QED BY <1>2, <1>4, <1>5, CallStep DEF Read

\* What the engine answers with is an entry, and no entry is older than the floor.
LEMMA AnswerFresh ==
  ASSUME CacheInv, NEW k \in Keys, NEW live \in BOOLEAN, NEW r \in EngineGet(k, live)
  PROVE  /\ r \in Results /\ Recovered(r) \in Results
         /\ Recovered(r).is = "value" => Recovered(r).val \in Versions /\ Recovered(r).val >= floor[k]
         /\ r.is = "miss" => ~down /\ stored[k] = None
  BY Answers DEF CacheInv, ShapeInv, EngineShape, Fresh, InvalidationSticks

\* The first read answers with an entry, or goes on.
LEMMA FirstGetKeeps ==
  ASSUME CacheInv, ShapeInv', NEW c \in Callers, FirstGet(c)
  PROVE  CacheInv'
  <1>1. /\ KeyOf(c) \in Keys /\ call[c].live \in BOOLEAN /\ call[c].at = "call"
    BY KeyKnown DEF FirstGet, CacheInv, ShapeInv, CallShape
  <1>2. PICK r \in EngineGet(KeyOf(c), call[c].live) :
          IF IsMiss(r) THEN call' = [call EXCEPT ![c].at = "do"] ELSE Returns(c, Recovered(r))
    BY DEF FirstGet
  <1>3. /\ Recovered(r) \in Results
        /\ Recovered(r).is = "value" =>
             Recovered(r).val \in Versions /\ Recovered(r).val >= floor[KeyOf(c)]
    BY <1>1, AnswerFresh
  <1>4. /\ KeepsCalls /\ call'[c].at \in {"do", "return"}
        /\ call'[c].at = "do" => call'[c].res = call[c].res
        /\ call'[c].at = "return" => call'[c].res = Recovered(r)
        /\ \A d \in Callers \ {c} : call'[d] = call[d]
    <2>1. CASE call' = [call EXCEPT ![c].at = "do"]
      BY <2>1, Moved DEF CacheInv, ShapeInv, Places
    <2>2. CASE Returns(c, Recovered(r))
      BY <1>3, <2>2, Returned DEF CacheInv, ShapeInv
    <2> QED BY <1>2, <2>1, <2>2
  <1>5. KeepsStorage
    BY <1>1, <1>4 DEF KeepsStorage, Storage
  <1>6. \A d \in Callers : Honest(d)
    <2>1. CASE call'[c].at = "do"
      <3>1. Goes(c)
        BY <1>1, <1>4, <2>1 DEF Goes, KeepsCalls
      <3> QED BY <1>4, <3>1 DEF Honest
    <2>2. CASE call'[c].at = "return"
      <3>1. Answered(c)
        BY <1>1, <1>3, <1>4, <2>2 DEF Answered, KeepsCalls
      <3> QED BY <1>4, <3>1 DEF Honest
    <2> QED BY <1>4, <2>1, <2>2
  <1>7. \A d \in Callers : call'[d].at = "load" => KeyOf(d)' = KeyOf(d) /\ call[d].at = "load"
    BY <1>4, KeyStays
  <1> QED BY <1>5, <1>6, <1>7, CallStep DEF FirstGet

\* Joining the flight of a key asks for no more than was asked.
LEMMA DoJoinsKeeps ==
  ASSUME CacheInv, ShapeInv', NEW c \in Callers, DoJoins(c)
  PROVE  CacheInv'
  <1>1. call[c].at = "do"
    BY DEF DoJoins
  <1>2. /\ KeepsCalls /\ call'[c].at \in {"check", "wait"} /\ call'[c].res = call[c].res
        /\ \A d \in Callers \ {c} : call'[d] = call[d]
    <2>1. CASE call' = [call EXCEPT ![c].at = "check"]
      BY <2>1, Moved DEF CacheInv, ShapeInv, Places
    <2>2. CASE call' = [call EXCEPT ![c].at = "wait"]
      BY <2>2, Moved DEF CacheInv, ShapeInv, Places
    <2> QED BY <2>1, <2>2 DEF DoJoins
  <1>3. KeepsStorage
    BY <1>1, <1>2 DEF KeepsStorage, Storage
  <1>4. Goes(c)
    BY <1>1, <1>2 DEF Goes, KeepsCalls
  <1>5. \A d \in Callers : Honest(d)
    BY <1>2, <1>4 DEF Honest
  <1>6. \A d \in Callers : call'[d].at = "load" => KeyOf(d)' = KeyOf(d) /\ call[d].at = "load"
    BY <1>2, KeyStays
  <1> QED BY <1>3, <1>5, <1>6, CallStep DEF DoJoins

\* The second read decides to load only what is excused: a value that is not would be
\* visible, or its writer would be the one that runs the function.
LEMMA DoubleCheckKeeps ==
  ASSUME CacheInv, ShapeInv', NEW c \in Callers, DoubleCheck(c)
  PROVE  CacheInv'
  <1>1. /\ KeyOf(c) \in Keys /\ call[c].at = "check" /\ call[c].at \in Running
        /\ flight[KeyOf(c)] = c
    BY DEF DoubleCheck, CacheInv, ShapeInv, OneKey, OneFlight, Running
  <1>2. PICK r \in EngineGet(KeyOf(c), TRUE) :
          IF IsMiss(r) THEN call' = [call EXCEPT ![c].at = "load"] /\ UNCHANGED flight
          ELSE DoReturns(c, r)
    BY DEF DoubleCheck, CheckContext
  <1>3. /\ r \in Results /\ Recovered(r) \in Results
        /\ Recovered(r).is = "value" =>
             Recovered(r).val \in Versions /\ Recovered(r).val >= floor[KeyOf(c)]
        /\ r.is = "miss" => ~down /\ stored[KeyOf(c)] = None
    BY <1>1, AnswerFresh
  <1>4. CASE IsMiss(r)
    <2>1. /\ KeepsCalls /\ call'[c].at = "load" /\ call'[c].res = call[c].res
          /\ \A d \in Callers \ {c} : call'[d] = call[d]
      BY <1>2, <1>4, Moved DEF CacheInv, ShapeInv, Places
    <2>2. down = FALSE /\ stored[KeyOf(c)] = None
      BY <1>3, <1>4 DEF IsMiss, CacheInv, ShapeInv, EngineShape
    <2>3. excused[KeyOf(c)] = TRUE
      <3>1. \A i \in DOMAIN setBuf : ~(setBuf[i].is = "new" /\ setBuf[i].key = KeyOf(c))
        BY <1>1, NoWrite DEF CacheInv
      <3>2. ~Held(KeyOf(c))
        BY <1>1, <2>2, <3>1 DEF Held
      <3>3. excused[KeyOf(c)]
        BY <1>1, <3>2 DEF CacheInv, Excuses, NotLost
      <3> QED BY <1>1, <3>3, Zenon DEF CacheInv, ShapeInv, EngineShape
    <2>4. KeepsStorage
      BY <1>1, <2>1 DEF KeepsStorage, Storage
    <2>5. Goes(c)
      BY <1>1, <2>1 DEF Goes, KeepsCalls
    <2>6. \A d \in Callers : Honest(d)
      BY <2>1, <2>5 DEF Honest
    <2>7. \A d \in Callers : KeyOf(d)' = KeyOf(d)
      BY <2>1, KeyStays DEF KeepsCalls
    <2>8. \A d \in Callers : call'[d].at = "load" =>
            call[d].at = "load" \/ (excused[KeyOf(d)] = TRUE /\ down = FALSE)
      BY <2>1, <2>2, <2>3
    <2> QED BY <2>4, <2>6, <2>7, <2>8, CallStep DEF DoubleCheck
  <1>5. CASE DoReturns(c, r)
    <2>1. /\ \A d \in Callers : Honest(d) /\ KeyOf(d)' = KeyOf(d)
          /\ call'[c].at = "return"
          /\ \A d \in Callers \ {c} :
               call[d].at \in Running \/ call'[d].at \in Running => call'[d] = call[d]
      BY <1>1, <1>3, <1>5, DoReturnsHonest
    <2>2. KeepsStorage
      BY <1>1, <2>1 DEF KeepsStorage, Storage, Running
    <2>3. \A d \in Callers : call'[d].at = "load" => call[d].at = "load"
      BY <2>1 DEF Running
    <2> QED BY <2>1, <2>2, <2>3, CallStep DEF DoubleCheck
  <1> QED BY <1>2, <1>4, <1>5

\* What a goroutine that runs the function does to others: to those of other keys nothing.
RunsAlone(c) ==
    \A d \in Callers \ {c} :
      call[d].at \in Running \/ call'[d].at \in Running => call'[d] = call[d]

\* The flights of other keys go on as they were.
LEMMA OtherKeys ==
  ASSUME ShapeInv, ShapeInv', NEW c \in Callers, call[c].at \in Running, RunsAlone(c)
  PROVE  /\ \A k \in Keys \ {KeyOf(c)} : flight[k] \in Callers =>
              flight[k] # c /\ flight'[k] = flight[k] /\ call'[flight[k]] = call[flight[k]]
         /\ \A d \in Callers \ {c} : call'[d].at \in Running =>
              /\ call'[d] = call[d] /\ KeyOf(d)' = KeyOf(d)
              /\ KeyOf(d) \in Keys /\ KeyOf(d) # KeyOf(c)
  <1>1. ASSUME NEW k \in Keys \ {KeyOf(c)}, flight[k] \in Callers
        PROVE  flight[k] # c /\ flight'[k] = flight[k] /\ call'[flight[k]] = call[flight[k]]
    <2> PICK d \in Callers : d = flight[k]
      BY <1>1
    <2>1. call[d].at \in Running /\ call[d].keys = {k}
      BY <1>1, CacheAssumption DEF ShapeInv, OneFlight
    <2>2. KeyOf(d) = k
      BY <2>1, KeyIs
    <2>3. d # c
      BY <1>1, <2>2
    <2>4. call'[d] = call[d]
      BY <2>1, <2>3 DEF RunsAlone
    <2>5. KeyOf(d)' = k
      BY <2>2, <2>4, KeyStays
    <2>6. flight'[k] = d
      BY <2>1, <2>4, <2>5 DEF ShapeInv, OneFlight
    <2> QED BY <2>3, <2>4, <2>6
  <1>2. ASSUME NEW d \in Callers \ {c}, call'[d].at \in Running
        PROVE  /\ call'[d] = call[d] /\ KeyOf(d)' = KeyOf(d)
               /\ KeyOf(d) \in Keys /\ KeyOf(d) # KeyOf(c)
    <2>1. call'[d] = call[d]
      BY <1>2 DEF RunsAlone
    <2>2. KeyOf(d) # KeyOf(c)
      BY <1>2, <2>1, Alone
    <2>3. KeyOf(d) \in Keys
      BY <1>2, <2>1 DEF ShapeInv, OneKey, Running
    <2> QED BY <2>1, <2>2, <2>3, KeyStays
  <1> QED BY <1>1, <1>2

\* The clause of WritesOwned for one item.
Owned(i) ==
    LET k == setBuf[i].key  c == flight[k] IN
    /\ c \in Callers /\ call[c].at \in {"sync", "syncing"} /\ setBuf[i].val = call[c].val
    /\ call[c].at = "syncing" =>
         \E j \in DOMAIN setBuf : i < j /\ setBuf[j] = Item("wait", k, c)

\* WritesOwned, item by item.
LEMMA OwnedIs == WritesOwned <=> \A i \in DOMAIN setBuf : setBuf[i].is = "new" => Owned(i)
  BY DEF WritesOwned, Owned

\* The same of the next state.
LEMMA OwnedIsNext ==
  (\A i \in DOMAIN setBuf' : setBuf'[i].is = "new" => Owned(i)') => WritesOwned'
  BY DEF WritesOwned, Owned

\* A step of the goroutine that runs the function for k0, about nothing but that key.
LEMMA OwnStep ==
  ASSUME CacheInv, ShapeInv', NEW c \in Callers, NEW k0 \in Keys, k0 = KeyOf(c),
         call[c].at \in Running, call'[c].at # "load", RunsAlone(c), KeyOf(c)' = KeyOf(c),
         UNCHANGED <<source, floor, down>>,
         \A k \in Keys \ {k0} : /\ stored'[k] = stored[k] /\ excused'[k] = excused[k]
                                /\ k \in spared => k \in spared',
         \A i \in DOMAIN setBuf : i \in DOMAIN setBuf' /\ setBuf'[i] = setBuf[i],
         \A i \in DOMAIN setBuf' : setBuf'[i].is = "new" /\ setBuf'[i].key # k0 => i \in DOMAIN setBuf,
         \A i \in DOMAIN setBuf' : setBuf'[i].is = "new" /\ setBuf'[i].key = k0 => Owned(i)',
         ~excused'[k0] => Held(k0)',
         stored'[k0] # None => stored'[k0] >= floor[k0],
         call'[c].at \in Storage => call'[c].val >= floor[k0],
         \A d \in Callers : Honest(d)
  PROVE  CacheInv'
  <1>1. /\ \A k \in Keys \ {k0} : flight[k] \in Callers =>
              flight[k] # c /\ flight'[k] = flight[k] /\ call'[flight[k]] = call[flight[k]]
        /\ \A d \in Callers \ {c} : call'[d].at \in Running =>
              /\ call'[d] = call[d] /\ KeyOf(d)' = KeyOf(d)
              /\ KeyOf(d) \in Keys /\ KeyOf(d) # k0
    BY OtherKeys DEF CacheInv
  <1>2. WritesOwned'
    <2> SUFFICES ASSUME NEW i \in DOMAIN setBuf', setBuf'[i].is = "new", setBuf'[i].key # k0
                 PROVE  Owned(i)'
      BY OwnedIsNext
    <2>1. i \in DOMAIN setBuf /\ setBuf'[i] = setBuf[i]
      OBVIOUS
    <2>2. setBuf[i].key \in Keys /\ Owned(i)
      BY <2>1, BufferHolds, OwnedIs DEF CacheInv, ShapeInv
    <2> PICK k \in Keys : k = setBuf[i].key
      BY <2>2
    <2>3. flight[k] \in Callers /\ flight'[k] = flight[k] /\ call'[flight[k]] = call[flight[k]]
      BY <1>1, <2>1, <2>2 DEF Owned
    <2> QED BY <2>1, <2>2, <2>3 DEF Owned
  <1>3. NotLost'
    <2> SUFFICES ASSUME NEW k \in Keys \ {k0}, ~excused'[k] PROVE Held(k)'
      BY DEF NotLost
    <2>1. Held(k)
      BY DEF CacheInv, Excuses, NotLost
    <2>2. CASE flight[k] \in Callers /\ call[flight[k]].at = "store"
      BY <1>1, <2>2 DEF Held
    <2> QED BY <2>1, <2>2 DEF Held
  <1>4. FloorBound' /\ InvalidationSticks'
    BY DEF CacheInv, Fresh, FloorBound, InvalidationSticks
  <1>5. StoresFresh'
    <2> SUFFICES ASSUME NEW d \in Callers \ {c}, call'[d].at \in Storage
                 PROVE  call'[d].val >= floor[KeyOf(d)']
      BY DEF StoresFresh
    <2>1. call'[d] = call[d] /\ KeyOf(d)' = KeyOf(d)
      BY <1>1 DEF Storage, Running
    <2> QED BY <2>1 DEF CacheInv, Fresh, StoresFresh
  <1>6. LoadExcused'
    <2> SUFFICES ASSUME NEW d \in Callers \ {c}, call'[d].at = "load"
                 PROVE  excused'[KeyOf(d)'] /\ (down' => KeyOf(d)' \in spared')
      BY DEF LoadExcused
    <2>1. /\ call'[d] = call[d] /\ KeyOf(d)' = KeyOf(d)
          /\ KeyOf(d) \in Keys /\ KeyOf(d) # k0
      BY <1>1 DEF Running
    <2>2. excused[KeyOf(d)] /\ (down => KeyOf(d) \in spared)
      BY <2>1 DEF CacheInv, Excuses, LoadExcused
    <2> QED BY <2>1, <2>2
  <1>7. FloorRises
    BY DEF FloorRises, CacheInv, ShapeInv, EngineShape, Versions
  <1>8. AsksFresh' /\ NoStaleAnswer'
    BY <1>7, HonestStep
  <1> QED BY <1>2, <1>3, <1>4, <1>5, <1>6, <1>8 DEF CacheInv, Fresh, Excuses

\* The loader reads what the source has now, which is not older than the floor.
LEMMA LoadKeeps ==
  ASSUME CacheInv, ShapeInv', NEW c \in Callers, Load(c)
  PROVE  CacheInv'
  <1>1. /\ KeyOf(c) \in Keys /\ call[c].at = "load" /\ call[c].at \in Running
        /\ flight[KeyOf(c)] = c
    BY DEF Load, CacheInv, ShapeInv, OneKey, OneFlight, Running
  <1> PICK k0 \in Keys : k0 = KeyOf(c)
    BY <1>1
  <1>2. \A i \in DOMAIN setBuf : ~(setBuf[i].is = "new" /\ setBuf[i].key = k0)
    BY <1>1, NoWrite DEF CacheInv
  <1>3. UNCHANGED <<source, floor, down, setBuf, stored>>
    BY DEF Load, engineVars
  <1>4. \A k \in Keys \ {k0} : k \in spared => k \in spared'
    BY DEF Load
  <1>5. stored[k0] # None => stored[k0] >= floor[k0]
    BY DEF CacheInv, Fresh, InvalidationSticks
  <1>6. CASE DoReturns(c, LoadFailed) /\ UNCHANGED excused
    <2>1. LoadFailed \in Results /\ Recovered(LoadFailed).is # "value"
      BY DEF LoadFailed, Results, Recovered, Panic, Backend
    <2>2. /\ \A d \in Callers : Honest(d) /\ KeyOf(d)' = KeyOf(d)
          /\ call'[c].at = "return" /\ RunsAlone(c)
      BY <1>1, <1>6, <2>1, DoReturnsHonest DEF RunsAlone
    <2>3. excused[k0]
      BY <1>1 DEF CacheInv, Excuses, LoadExcused
    <2> QED BY <1>1, <1>2, <1>3, <1>4, <1>5, <1>6, <2>2, <2>3, OwnStep DEF Storage
  <1>7. CASE /\ call' = [call EXCEPT ![c].at = "store", ![c].val = source[KeyOf(c)]]
             /\ excused' = [excused EXCEPT ![KeyOf(c)] = FALSE]
             /\ UNCHANGED flight
    <2>1. source[k0] \in Versions /\ source[k0] >= floor[k0]
      BY DEF CacheInv, ShapeInv, EngineShape, Fresh, FloorBound, Versions
    <2>2. /\ KeepsCalls /\ call'[c].at = "store" /\ call'[c].res = call[c].res
          /\ call'[c].val = source[k0]
          /\ \A d \in Callers \ {c} : call'[d] = call[d]
      BY <1>7, <2>1, Loaded DEF CacheInv, ShapeInv
    <2>3. Goes(c)
      BY <1>1, <2>2 DEF Goes, KeepsCalls
    <2>4. \A d \in Callers : Honest(d)
      BY <2>2, <2>3 DEF Honest
    <2>5. RunsAlone(c) /\ KeyOf(c)' = KeyOf(c)
      BY <2>2, KeyStays DEF RunsAlone, KeepsCalls
    <2>6. Held(k0)'
      BY <1>1, <1>7, <2>2 DEF Held
    <2>7. \A k \in Keys \ {k0} : excused'[k] = excused[k]
      BY <1>7, Zenon DEF CacheInv, ShapeInv, EngineShape
    <2> QED BY <1>1, <1>2, <1>3, <1>4, <1>5, <2>1, <2>2, <2>4, <2>5, <2>6, <2>7, OwnStep
  <1> QED BY <1>6, <1>7 DEF Load

\* The loaded value becomes visible, is buffered or is dropped.
LEMMA StoreKeeps ==
  ASSUME CacheInv, ShapeInv', NEW c \in Callers, Store(c)
  PROVE  CacheInv'
  <1>1. /\ KeyOf(c) \in Keys /\ call[c].at = "store" /\ call[c].at \in Running
        /\ flight[KeyOf(c)] = c /\ call[c].val \in Versions
    BY DEF Store, CacheInv, ShapeInv, OneKey, OneFlight, Running
  <1> PICK k0 \in Keys : k0 = KeyOf(c)
    BY <1>1
  <1>2. \A i \in DOMAIN setBuf : ~(setBuf[i].is = "new" /\ setBuf[i].key = k0)
    BY <1>1, NoWrite DEF CacheInv
  <1>3. UNCHANGED <<source, floor, down, spared>>
    BY DEF Store
  <1>4. call[c].val >= floor[k0] /\ (stored[k0] # None => stored[k0] >= floor[k0])
    BY <1>1 DEF CacheInv, Fresh, StoresFresh, InvalidationSticks, Storage
  <1>5. /\ stored \in [Keys -> Versions \cup {None}] /\ excused \in [Keys -> BOOLEAN]
        /\ setBuf \in Seq(Items)
    BY DEF CacheInv, ShapeInv, EngineShape
  <1>6. CASE /\ ~down /\ EngineSet(KeyOf(c), call[c].val)
             /\ call' = [call EXCEPT ![c].at = "sync"] /\ UNCHANGED flight
    <2>1. /\ KeepsCalls /\ call'[c].at = "sync" /\ call'[c].res = call[c].res
          /\ call'[c].val = call[c].val
          /\ \A d \in Callers \ {c} : call'[d] = call[d]
      BY <1>6, Moved DEF CacheInv, ShapeInv, Places
    <2>2. Goes(c)
      BY <1>1, <2>1 DEF Goes, KeepsCalls
    <2>3. \A d \in Callers : Honest(d)
      BY <2>1, <2>2 DEF Honest
    <2>4. RunsAlone(c) /\ KeyOf(c)' = KeyOf(c)
      BY <2>1, KeyStays DEF RunsAlone, KeepsCalls
    <2>5. CASE stored' = [stored EXCEPT ![k0] = call[c].val] /\ UNCHANGED <<setBuf, excused>>
      <3>1. stored'[k0] = call[c].val /\ \A k \in Keys \ {k0} : stored'[k] = stored[k]
        BY <1>5, <2>5
      <3>2. Held(k0)'
        BY <1>1, <3>1, CacheAssumption DEF Held, Versions
      <3> QED BY <1>1, <1>2, <1>3, <1>4, <2>1, <2>3, <2>4, <2>5, <3>1, <3>2, OwnStep
    <2>6. CASE /\ Room /\ setBuf' = Append(setBuf, Item("new", k0, call[c].val))
               /\ UNCHANGED <<stored, excused>>
      <3> DEFINE it == Item("new", k0, call[c].val)
      <3>1. it \in Items /\ it.is = "new" /\ it.key = k0 /\ it.val = call[c].val
        BY <1>1, ItemIs
      <3> HIDE DEF it
      <3>2. setBuf' = Append(setBuf, it)
        BY <2>6 DEF it
      <3>3. /\ \A i \in DOMAIN setBuf : i \in DOMAIN setBuf' /\ setBuf'[i] = setBuf[i]
            /\ \A i \in DOMAIN setBuf' : i \in DOMAIN setBuf \/ setBuf'[i] = it
            /\ \E i \in DOMAIN setBuf' : setBuf'[i] = it
        BY <1>5, <3>1, <3>2, Buffered
      <3>4. Held(k0)'
        BY <3>1, <3>3 DEF Held
      <3>5. \A i \in DOMAIN setBuf' : setBuf'[i].is = "new" /\ setBuf'[i].key = k0 => Owned(i)'
        <4> SUFFICES ASSUME NEW i \in DOMAIN setBuf', setBuf'[i].is = "new", setBuf'[i].key = k0
                     PROVE  Owned(i)'
          OBVIOUS
        <4>1. setBuf'[i] = it
          BY <1>2, <3>3
        <4>2. flight'[k0] = c
          BY <1>1, <1>6
        <4> QED BY <2>1, <3>1, <4>1, <4>2 DEF Owned
      <3>6. \A i \in DOMAIN setBuf' : setBuf'[i].is = "new" /\ setBuf'[i].key # k0 => i \in DOMAIN setBuf
        BY <3>1, <3>3
      <3> QED BY <1>1, <1>3, <1>4, <2>1, <2>3, <2>4, <2>6, <3>3, <3>4, <3>5, <3>6, OwnStep
    <2>7. CASE excused' = [excused EXCEPT ![k0] = TRUE] /\ UNCHANGED <<stored, setBuf>>
      <3>1. excused'[k0] = TRUE /\ \A k \in Keys \ {k0} : excused'[k] = excused[k]
        BY <1>5, <2>7, Zenon
      <3>2. ~excused'[k0] => Held(k0)'
        BY <3>1
      <3>3. UNCHANGED <<stored, setBuf>>
        BY <2>7
      <3> QED BY <1>1, <1>2, <1>3, <1>4, <2>1, <2>3, <2>4, <3>1, <3>2, <3>3, OwnStep
    <2> QED BY <1>6, <2>5, <2>6, <2>7 DEF EngineSet
  <1>7. CASE /\ \E r \in {Value(call[c].val), Panic} : DoReturns(c, r)
             /\ excused' = [excused EXCEPT ![KeyOf(c)] = TRUE] /\ UNCHANGED <<stored, setBuf>>
    <2>1. PICK r \in {Value(call[c].val), Panic} : DoReturns(c, r)
      BY <1>7
    <2>2. /\ r \in Results
          /\ Recovered(r).is = "value" =>
               Recovered(r).val \in Versions /\ Recovered(r).val >= floor[k0]
      BY <1>1, <1>4 DEF Value, Panic, Results, Recovered, Backend
    <2>3. /\ \A d \in Callers : Honest(d) /\ KeyOf(d)' = KeyOf(d)
          /\ call'[c].at = "return" /\ RunsAlone(c)
      BY <1>1, <2>1, <2>2, DoReturnsHonest DEF RunsAlone
    <2>4. excused'[k0] = TRUE /\ \A k \in Keys \ {k0} : excused'[k] = excused[k]
      BY <1>5, <1>7, Zenon
    <2> QED BY <1>1, <1>2, <1>3, <1>4, <1>7, <2>3, <2>4, OwnStep, ZenonT(30) DEF Storage
  <1> QED BY <1>6, <1>7 DEF Store

\* The marker goes behind the write.
LEMMA SyncKeeps ==
  ASSUME CacheInv, ShapeInv', NEW c \in Callers, Sync(c)
  PROVE  CacheInv'
  <1>1. /\ KeyOf(c) \in Keys /\ call[c].at = "sync" /\ call[c].at \in Running
        /\ flight[KeyOf(c)] = c
    BY DEF Sync, CacheInv, ShapeInv, OneKey, OneFlight, Running
  <1> PICK k0 \in Keys : k0 = KeyOf(c)
    BY <1>1
  <1>2. UNCHANGED <<source, floor, down, spared, stored, excused, flight>>
    BY DEF Sync, history
  <1>3. /\ call[c].val >= floor[k0] /\ (stored[k0] # None => stored[k0] >= floor[k0])
        /\ setBuf \in Seq(Items)
    BY <1>1 DEF CacheInv, Fresh, StoresFresh, InvalidationSticks, Storage, ShapeInv, EngineShape
  <1>4. /\ KeepsCalls /\ call'[c].at = "syncing" /\ call'[c].res = call[c].res
        /\ call'[c].val = call[c].val
        /\ \A d \in Callers \ {c} : call'[d] = call[d]
    BY Moved DEF CacheInv, ShapeInv, Places, Sync
  <1>5. Goes(c)
    BY <1>1, <1>4 DEF Goes, KeepsCalls
  <1>6. \A d \in Callers : Honest(d)
    BY <1>4, <1>5 DEF Honest
  <1>7. RunsAlone(c) /\ KeyOf(c)' = KeyOf(c)
    BY <1>4, KeyStays DEF RunsAlone, KeepsCalls
  <1> DEFINE it == Item("wait", k0, c)
  <1>8. it \in Items /\ it.is = "wait"
    BY ItemIs
  <1> HIDE DEF it
  <1>9. setBuf' = Append(setBuf, it)
    BY DEF Sync, it
  <1>10. /\ Len(setBuf) \in Nat
         /\ \A i \in DOMAIN setBuf : i \in DOMAIN setBuf' /\ setBuf'[i] = setBuf[i]
         /\ \A i \in DOMAIN setBuf' : i \in DOMAIN setBuf \/ setBuf'[i] = it
         /\ Len(setBuf) + 1 \in DOMAIN setBuf' /\ setBuf'[Len(setBuf) + 1] = it
    BY <1>3, <1>8, <1>9, Buffered
  <1>11. \A i \in DOMAIN setBuf : i < Len(setBuf) + 1
    BY <1>3
  <1>12. \A i \in DOMAIN setBuf' : setBuf'[i].is = "new" => i \in DOMAIN setBuf
    BY <1>8, <1>10
  <1>13. \A i \in DOMAIN setBuf' : setBuf'[i].is = "new" /\ setBuf'[i].key = k0 => Owned(i)'
    <2> SUFFICES ASSUME NEW i \in DOMAIN setBuf', setBuf'[i].is = "new", setBuf'[i].key = k0
                 PROVE  Owned(i)'
      OBVIOUS
    <2>1. i \in DOMAIN setBuf /\ setBuf'[i] = setBuf[i]
      BY <1>10, <1>12
    <2>2. flight'[k0] = c
      BY <1>1, <1>2
    <2>3. setBuf[i].val = call[c].val
      BY <1>1, <2>1, OwnedIs DEF CacheInv, Owned
    <2>4. \E j \in DOMAIN setBuf' : i < j /\ setBuf'[j] = Item("wait", k0, c)
      BY <1>10, <1>11, <2>1 DEF it
    <2> QED BY <1>4, <2>1, <2>2, <2>3, <2>4 DEF Owned
  <1>14. ~excused'[k0] => Held(k0)'
    <2> SUFFICES ASSUME ~excused[k0] PROVE Held(k0)'
      BY <1>2
    <2>1. Held(k0)
      BY DEF CacheInv, Excuses, NotLost
    <2> QED BY <1>1, <1>2, <1>10, <2>1 DEF Held
  <1> QED BY <1>1, <1>2, <1>3, <1>4, <1>6, <1>7, <1>10, <1>12, <1>13, <1>14, OwnStep

\* The marker has gone, and with it the write: nothing of the key is buffered.
LEMMA SyncedKeeps ==
  ASSUME CacheInv, ShapeInv', NEW c \in Callers, Synced(c)
  PROVE  CacheInv'
  <1>1. /\ KeyOf(c) \in Keys /\ call[c].at = "syncing" /\ call[c].at \in Running
        /\ flight[KeyOf(c)] = c /\ call[c].val \in Versions
    BY DEF Synced, CacheInv, ShapeInv, OneKey, OneFlight, Running
  <1> PICK k0 \in Keys : k0 = KeyOf(c)
    BY <1>1
  <1>2. UNCHANGED <<source, floor, down, spared, stored, excused, setBuf>>
    BY DEF Synced, history, engineVars
  <1>3. call[c].val >= floor[k0] /\ (stored[k0] # None => stored[k0] >= floor[k0])
    BY <1>1 DEF CacheInv, Fresh, StoresFresh, InvalidationSticks, Storage
  <1>4. \A j \in DOMAIN setBuf : setBuf[j] # Item("wait", k0, c)
    BY DEF Synced, Range
  <1>5. \A i \in DOMAIN setBuf : ~(setBuf[i].is = "new" /\ setBuf[i].key = k0)
    BY <1>1, <1>4, OwnedIs DEF CacheInv, Owned
  <1>6. /\ Value(call[c].val) \in Results
        /\ Recovered(Value(call[c].val)).is = "value" =>
             /\ Recovered(Value(call[c].val)).val \in Versions
             /\ Recovered(Value(call[c].val)).val >= floor[k0]
    BY <1>1, <1>3 DEF Value, Panic, Results, Recovered, Backend
  <1>7. /\ \A d \in Callers : Honest(d) /\ KeyOf(d)' = KeyOf(d)
        /\ call'[c].at = "return" /\ RunsAlone(c)
    BY <1>1, <1>6, DoReturnsHonest DEF RunsAlone, Synced
  <1>8. ~excused'[k0] => Held(k0)'
    <2> SUFFICES ASSUME ~excused[k0] PROVE Held(k0)'
      BY <1>2
    <2>1. Held(k0)
      BY DEF CacheInv, Excuses, NotLost
    <2>2. stored[k0] # None
      BY <1>1, <1>5, <2>1 DEF Held
    <2> QED BY <1>2, <2>2 DEF Held
  <1> QED BY <1>1, <1>2, <1>3, <1>5, <1>7, <1>8, OwnStep DEF Storage

\* The floor never falls, never passes the source, and stays for a key that is stored.
LEMMA FloorFacts ==
  ASSUME CacheInv, NEW ks, floor' = Floor(ks)
  PROVE  /\ FloorRises
         /\ \A k \in Keys : floor'[k] <= source[k]
         /\ \A k \in Keys : Storing(k) \/ k \notin ks => floor'[k] = floor[k]
  BY DEF CacheInv, ShapeInv, EngineShape, Fresh, FloorBound, Floor, FloorRises, Versions

\* The keys ks are deleted, and the buffer loses either nothing or all.
LEMMA Invalidate ==
  ASSUME CacheInv, ShapeInv', NEW c \in Callers, call[c].at = "call", call[c].op \in {"del", "clear"},
         call'[c].at \in {"call", "return"}, call'[c].op = call[c].op,
         \A d \in Callers \ {c} : call'[d] = call[d],
         UNCHANGED <<source, down, flight, spared>>,
         NEW ks \in SUBSET Keys, floor' = Floor(ks),
         \A k \in ks : stored'[k] = None /\ excused'[k] = TRUE,
         \A k \in Keys \ ks : stored'[k] = stored[k] /\ excused'[k] = excused[k],
         \A i \in DOMAIN setBuf' : setBuf'[i].is = "new" =>
           /\ i \in DOMAIN setBuf
           /\ \A j \in DOMAIN setBuf : j \in DOMAIN setBuf' /\ setBuf'[j] = setBuf[j],
         \A k \in Keys \ ks : \A j \in DOMAIN setBuf : j \in DOMAIN setBuf' /\ setBuf'[j] = setBuf[j]
  PROVE  CacheInv'
  <1>1. /\ FloorRises
        /\ \A k \in Keys : floor'[k] <= source[k]
        /\ \A k \in Keys : Storing(k) \/ k \notin ks => floor'[k] = floor[k]
    BY FloorFacts
  <1>2. \A d \in Callers : call[d].at \in Running => d # c /\ call'[d] = call[d]
    BY DEF Running
  <1>3. \A k \in Keys : flight[k] # None =>
          flight[k] \in Callers /\ call'[flight[k]] = call[flight[k]]
    BY <1>2 DEF CacheInv, ShapeInv, OneFlight
  <1>4. WritesOwned'
    <2> SUFFICES ASSUME NEW i \in DOMAIN setBuf', setBuf'[i].is = "new" PROVE Owned(i)'
      BY OwnedIsNext
    <2>1. /\ i \in DOMAIN setBuf /\ setBuf'[i] = setBuf[i]
          /\ \A j \in DOMAIN setBuf : j \in DOMAIN setBuf' /\ setBuf'[j] = setBuf[j]
      OBVIOUS
    <2>2. setBuf[i].key \in Keys /\ Owned(i)
      BY <2>1, BufferHolds, OwnedIs DEF CacheInv, ShapeInv
    <2> PICK k \in Keys : k = setBuf[i].key
      BY <2>2
    <2>3. flight[k] \in Callers /\ flight'[k] = flight[k] /\ call'[flight[k]] = call[flight[k]]
      BY <1>2, <2>2 DEF Owned, Running
    <2> QED BY <2>1, <2>2, <2>3 DEF Owned
  <1>5. NotLost'
    <2> SUFFICES ASSUME NEW k \in Keys \ ks, ~excused[k] PROVE Held(k)'
      BY DEF NotLost
    <2>1. Held(k)
      BY DEF CacheInv, Excuses, NotLost
    <2>2. CASE flight[k] \in Callers /\ call[flight[k]].at = "store"
      BY <1>2, <2>2 DEF Held, Running
    <2> QED BY <2>1, <2>2 DEF Held
  <1>6. FloorBound' /\ InvalidationSticks'
    BY <1>1 DEF CacheInv, Fresh, FloorBound, InvalidationSticks
  <1>7. \A d \in Callers : call'[d].at \in Running =>
          call'[d] = call[d] /\ KeyOf(d)' = KeyOf(d) /\ KeyOf(d) \in Keys /\ flight[KeyOf(d)] = d
    <2> SUFFICES ASSUME NEW d \in Callers, call'[d].at \in Running
                 PROVE  /\ call'[d] = call[d] /\ KeyOf(d)' = KeyOf(d)
                        /\ KeyOf(d) \in Keys /\ flight[KeyOf(d)] = d
      OBVIOUS
    <2>1. d # c
      BY DEF Running
    <2>2. call'[d] = call[d]
      BY <2>1
    <2> QED BY <2>2, KeyStays DEF CacheInv, ShapeInv, OneKey, OneFlight, Running
  <1>8. StoresFresh'
    <2> SUFFICES ASSUME NEW d \in Callers, call'[d].at \in Storage
                 PROVE  call'[d].val >= floor'[KeyOf(d)']
      BY DEF StoresFresh
    <2>1. call'[d] = call[d] /\ KeyOf(d)' = KeyOf(d) /\ KeyOf(d) \in Keys /\ flight[KeyOf(d)] = d
      BY <1>7 DEF Storage, Running
    <2>2. Storing(KeyOf(d))
      BY <2>1, CacheAssumption DEF Storing, Storage
    <2>3. floor'[KeyOf(d)] = floor[KeyOf(d)]
      BY <1>1, <2>1, <2>2
    <2> QED BY <2>1, <2>3 DEF CacheInv, Fresh, StoresFresh
  <1>9. LoadExcused'
    <2> SUFFICES ASSUME NEW d \in Callers, call'[d].at = "load"
                 PROVE  excused'[KeyOf(d)'] /\ (down => KeyOf(d)' \in spared)
      BY DEF LoadExcused
    <2>1. call'[d] = call[d] /\ KeyOf(d)' = KeyOf(d) /\ KeyOf(d) \in Keys
      BY <1>7 DEF Running
    <2>2. excused[KeyOf(d)] /\ (down => KeyOf(d) \in spared)
      BY <2>1 DEF CacheInv, Excuses, LoadExcused
    <2>3. excused'[KeyOf(d)]
      BY <2>1, <2>2
    <2> QED BY <2>1, <2>2, <2>3
  <1>10. \A d \in Callers : Honest(d)
    BY DEF Honest
  <1>11. AsksFresh' /\ NoStaleAnswer'
    BY <1>1, <1>10, HonestStep
  <1> QED BY <1>4, <1>5, <1>6, <1>8, <1>9, <1>11 DEF CacheInv, Fresh, Excuses

\* Del invalidates one key, or fails.
LEMMA DelKeeps ==
  ASSUME CacheInv, ShapeInv', NEW c \in Callers, Del(c)
  PROVE  CacheInv'
  <1>1. /\ call[c].at = "call" /\ call[c].op = "del" /\ call[c].keys \subseteq Keys
        /\ setBuf \in Seq(Items) /\ UNCHANGED <<source, down, flight, spared>>
        /\ stored \in [Keys -> Versions \cup {None}] /\ excused \in [Keys -> BOOLEAN]
    BY DEF Del, CacheInv, ShapeInv, CallShape, EngineShape
  <1>2. ASSUME NEW k \in call[c].keys, EngineDel(k), floor' = Floor({k}),
               IF call[c].keys = {k} THEN Returns(c, Ok)
               ELSE call' = [call EXCEPT ![c].keys = @ \ {k}]
        PROVE  CacheInv'
    <2>1. /\ call'[c].at \in {"call", "return"} /\ call'[c].op = call[c].op
          /\ \A d \in Callers \ {c} : call'[d] = call[d]
      <3>1. CASE Returns(c, Ok)
        BY <3>1 DEF Returns, CacheInv, ShapeInv, CallShape
      <3>2. CASE call' = [call EXCEPT ![c].keys = @ \ {k}]
        BY <1>1, <3>2 DEF CacheInv, ShapeInv, CallShape
      <3> QED BY <1>2, <3>1, <3>2
    <2> DEFINE it == Item("del", k, None)
    <2>2. it \in Items /\ it.is = "del"
      BY <1>1, ItemIs
    <2> HIDE DEF it
    <2>3. setBuf' = Append(setBuf, it)
      BY <1>2 DEF it, EngineDel
    <2>4. /\ \A i \in DOMAIN setBuf : i \in DOMAIN setBuf' /\ setBuf'[i] = setBuf[i]
          /\ \A i \in DOMAIN setBuf' : setBuf'[i].is = "new" => i \in DOMAIN setBuf
      BY <1>1, <2>2, <2>3, Buffered
    <2>5. /\ k \in Keys /\ stored'[k] = None
          /\ \A l \in Keys \ {k} : stored'[l] = stored[l]
      BY <1>1, <1>2 DEF EngineDel
    <2>6. excused'[k] = TRUE /\ \A l \in Keys \ {k} : excused'[l] = excused[l]
      BY <1>1, <1>2, Zenon DEF EngineDel
    <2> DEFINE ks == {k}
    <2>7. /\ ks \in SUBSET Keys /\ floor' = Floor(ks)
          /\ \A l \in ks : stored'[l] = None /\ excused'[l] = TRUE
          /\ \A l \in Keys \ ks : stored'[l] = stored[l] /\ excused'[l] = excused[l]
      BY <1>2, <2>5, <2>6
    <2> HIDE DEF ks
    <2> QED BY <1>1, <2>1, <2>4, <2>7, Invalidate
  <1>3. CASE Returns(c, Backend) /\ UNCHANGED <<stored, setBuf, excused, floor>>
    <2>1. /\ call'[c].at = "return" /\ call'[c].op = call[c].op
          /\ \A d \in Callers \ {c} : call'[d] = call[d]
      BY <1>3 DEF Returns, CacheInv, ShapeInv, CallShape
    <2>2. KeepsStorage
      BY <1>1, <2>1 DEF KeepsStorage, Storage
    <2>3. \A d \in Callers : Honest(d)
      BY <1>1, <2>1 DEF Honest
    <2>4. \A d \in Callers : call'[d].at = "load" => KeyOf(d)' = KeyOf(d) /\ call[d].at = "load"
      BY <2>1, KeyStays
    <2> QED BY <1>1, <1>3, <2>2, <2>3, <2>4, CallStep DEF engineVars, history
  <1> QED BY <1>2, <1>3 DEF Del

\* Clear invalidates all of them, or fails.
LEMMA ClearKeeps ==
  ASSUME CacheInv, ShapeInv', NEW c \in Callers, Clear(c)
  PROVE  CacheInv'
  <1>1. call[c].at = "call" /\ call[c].op = "clear" /\ UNCHANGED <<source, down, flight, spared>>
    BY DEF Clear
  <1>2. ASSUME NEW r, Returns(c, r)
        PROVE  /\ call'[c].at = "return" /\ call'[c].op = call[c].op
               /\ \A d \in Callers \ {c} : call'[d] = call[d]
    BY <1>2 DEF Returns, CacheInv, ShapeInv, CallShape
  <1>3. CASE EngineClear /\ floor' = Floor(Keys) /\ Returns(c, Ok)
    <2>1. /\ call'[c].at = "return" /\ call'[c].op = call[c].op
          /\ \A d \in Callers \ {c} : call'[d] = call[d]
      BY <1>2, <1>3
    <2>2. DOMAIN setBuf' = {} /\ \A k \in Keys : stored'[k] = None /\ excused'[k] = TRUE
      BY <1>3 DEF EngineClear
    <2> QED BY <1>1, <1>3, <2>1, <2>2, Invalidate
  <1>4. CASE Returns(c, Backend) /\ UNCHANGED <<stored, setBuf, excused, floor>>
    <2>1. /\ call'[c].at = "return" /\ call'[c].op = call[c].op
          /\ \A d \in Callers \ {c} : call'[d] = call[d]
      BY <1>2, <1>4
    <2>2. KeepsStorage
      BY <1>1, <2>1 DEF KeepsStorage, Storage
    <2>3. \A d \in Callers : Honest(d)
      BY <1>1, <2>1 DEF Honest
    <2>4. \A d \in Callers : call'[d].at = "load" => KeyOf(d)' = KeyOf(d) /\ call[d].at = "load"
      BY <2>1, KeyStays
    <2> QED BY <1>1, <1>4, <2>2, <2>3, <2>4, CallStep DEF engineVars, history
  <1> QED BY <1>3, <1>4 DEF Clear

\* A step of the engine or of the world, which leaves the calls alone.
LEMMA WorldStep ==
  ASSUME CacheInv, ShapeInv', UNCHANGED <<call, flight, floor>>, WritesOwned', NotLost', LoadExcused',
         FloorBound', InvalidationSticks'
  PROVE  CacheInv'
  <1>1. \A d \in Callers : KeyOf(d)' = KeyOf(d)
    BY KeyStays
  <1>2. StoresFresh'
    BY <1>1 DEF StoresFresh, CacheInv, Fresh
  <1>3. AsksFresh' /\ NoStaleAnswer'
    BY <1>1 DEF AsksFresh, NoStaleAnswer, CacheInv, Fresh
  <1> QED BY <1>2, <1>3 DEF CacheInv, Fresh, Excuses

\* The engine applies the oldest item: a write brings what its owner loaded, and a
\* marker only leaves behind the writes before it.
LEMMA AppliesKeeps ==
  ASSUME CacheInv, ShapeInv', EngineApplies
  PROVE  CacheInv'
  <1> DEFINE it == Head(setBuf)
  <1>1. /\ 1 \in DOMAIN setBuf /\ it = setBuf[1]
        /\ DOMAIN setBuf \subseteq Nat
        /\ \A i \in DOMAIN setBuf' : i + 1 \in DOMAIN setBuf /\ setBuf'[i] = setBuf[i + 1]
        /\ \A i \in DOMAIN setBuf : i # 1 => i - 1 \in DOMAIN setBuf' /\ setBuf'[i - 1] = setBuf[i]
    BY Applied DEF EngineApplies, CacheInv, ShapeInv, EngineShape
  <1>2. UNCHANGED <<source, down, call, flight, spared, floor>>
    BY DEF EngineApplies
  <1>3. /\ it.key \in Keys
        /\ it.is = "new" => it.val \in Versions /\ it.val >= floor[it.key]
    BY <1>1, BufferHolds, WriteFresh DEF CacheInv, ShapeInv
  <1>4. stored \in [Keys -> Versions \cup {None}] /\ excused \in [Keys -> BOOLEAN]
    BY DEF CacheInv, ShapeInv, EngineShape
  <1> PICK k0 \in Keys : k0 = it.key
    BY <1>3
  <1>5. DOMAIN setBuf' \subseteq Nat
    BY DEF ShapeInv, EngineShape
  <1>6. WritesOwned'
    <2> SUFFICES ASSUME NEW i \in DOMAIN setBuf', setBuf'[i].is = "new" PROVE Owned(i)'
      BY OwnedIsNext
    <2>1. i + 1 \in DOMAIN setBuf /\ setBuf'[i] = setBuf[i + 1] /\ i \in Nat
      BY <1>1, <1>5
    <2>2. Owned(i + 1)
      BY <2>1, OwnedIs DEF CacheInv
    <2> PICK k, c : k = setBuf[i + 1].key /\ c = flight[k]
      OBVIOUS
    <2>3. ASSUME call[c].at = "syncing"
          PROVE  \E j \in DOMAIN setBuf' : i < j /\ setBuf'[j] = Item("wait", k, c)
      <3>1. PICK j \in DOMAIN setBuf : i + 1 < j /\ setBuf[j] = Item("wait", k, c)
        BY <2>2, <2>3 DEF Owned
      <3>2. j \in Nat /\ j # 1 /\ i < j - 1
        BY <1>1, <2>1, <3>1
      <3> QED BY <1>1, <3>1, <3>2
    <2> QED BY <1>2, <2>1, <2>2, <2>3 DEF Owned
  <1>7. \A k \in Keys : /\ k # k0 => stored'[k] = stored[k] /\ excused'[k] = excused[k]
                        /\ excused[k] = TRUE => excused'[k] = TRUE
    <2>1. CASE UNCHANGED excused
      BY <1>4, <2>1 DEF EngineApplies
    <2>2. CASE /\ excused' = [excused EXCEPT ![it.key] = @ \/ stored[it.key] = None]
               /\ UNCHANGED stored
      BY <1>4, <2>2, Zenon
    <2>3. CASE /\ excused' = [excused EXCEPT ![it.key] = TRUE]
               /\ stored' = [stored EXCEPT ![it.key] = None]
      BY <1>4, <2>3, Zenon
    <2> QED BY <2>1, <2>2, <2>3 DEF EngineApplies
  <1>8. excused'[k0] = TRUE \/ stored'[k0] # None \/ (it.is = "wait" /\ UNCHANGED <<stored, excused>>)
    <2>1. CASE it.is = "new" /\ stored' = [stored EXCEPT ![it.key] = it.val]
      BY <1>3, <1>4, <2>1, CacheAssumption DEF Versions
    <2>2. CASE /\ excused' = [excused EXCEPT ![it.key] = @ \/ stored[it.key] = None]
               /\ UNCHANGED stored
      BY <1>4, <2>2, Zenon
    <2>3. CASE excused' = [excused EXCEPT ![it.key] = TRUE]
      BY <1>4, <2>3, Zenon
    <2>4. CASE it.is = "wait" /\ UNCHANGED <<stored, excused>>
      BY <2>4
    <2> QED BY <2>1, <2>2, <2>3, <2>4 DEF EngineApplies
  <1>9. NotLost'
    <2> SUFFICES ASSUME NEW k \in Keys, ~excused'[k] PROVE Held(k)'
      BY DEF NotLost
    <2>0. ~excused[k]
      <3>1. excused[k] \in BOOLEAN
        BY <1>4
      <3> QED BY <1>7, <3>1
    <2>1. Held(k)
      BY <2>0 DEF CacheInv, Excuses, NotLost
    <2>2. CASE flight[k] \in Callers /\ call[flight[k]].at = "store"
      BY <1>2, <2>2 DEF Held
    <2>3. CASE stored'[k] # None
      BY <2>3 DEF Held
    <2>4. CASE stored[k] # None /\ stored'[k] = None
      <3>1. k = k0
        BY <1>7, <2>4
      <3> QED BY <1>8, <2>4, <3>1
    <2>5. ASSUME NEW i \in DOMAIN setBuf, setBuf[i].is = "new", setBuf[i].key = k, stored'[k] = None
          PROVE  Held(k)'
      <3>1. i # 1
        BY <1>1, <1>8, <2>5
      <3> QED BY <1>1, <2>5, <3>1 DEF Held
    <2> QED BY <2>1, <2>2, <2>3, <2>4, <2>5 DEF Held
  <1>10. LoadExcused'
    <2> SUFFICES ASSUME NEW d \in Callers, call[d].at = "load"
                 PROVE  excused'[KeyOf(d)] /\ (down => KeyOf(d) \in spared)
      BY <1>2, KeyStays DEF LoadExcused
    <2>1. excused[KeyOf(d)] /\ (down => KeyOf(d) \in spared) /\ KeyOf(d) \in Keys
      BY DEF CacheInv, Excuses, LoadExcused, ShapeInv, OneKey, Running
    <2>2. excused[KeyOf(d)] = TRUE
      BY <1>4, <2>1, Zenon
    <2> QED BY <1>7, <2>1, <2>2
  <1>11. FloorBound'
    BY <1>2 DEF CacheInv, Fresh, FloorBound
  <1>12. InvalidationSticks'
    <2> SUFFICES ASSUME NEW k \in Keys, stored'[k] # None PROVE stored'[k] >= floor[k]
      BY <1>2 DEF InvalidationSticks
    <2>1. stored[k] # None => stored[k] >= floor[k]
      BY DEF CacheInv, Fresh, InvalidationSticks
    <2>2. stored'[k] = stored[k] \/ (k = k0 /\ it.is = "new" /\ stored'[k] = it.val)
      BY <1>4 DEF EngineApplies
    <2> QED BY <1>3, <2>1, <2>2
  <1> QED BY <1>2, <1>6, <1>9, <1>10, <1>11, <1>12, WorldStep

\* An eviction excuses the next load.
LEMMA EvictsKeeps ==
  ASSUME CacheInv, ShapeInv', NEW k \in Keys, EngineEvicts(k)
  PROVE  CacheInv'
  <1>1. UNCHANGED <<source, setBuf, down, call, flight, spared, floor>>
    BY DEF EngineEvicts
  <1>2. stored'[k] = None /\ \A l \in Keys \ {k} : stored'[l] = stored[l]
    BY DEF EngineEvicts, CacheInv, ShapeInv, EngineShape
  <1>3. excused'[k] = TRUE /\ \A l \in Keys \ {k} : excused'[l] = excused[l]
    BY Zenon DEF EngineEvicts, CacheInv, ShapeInv, EngineShape
  <1>4. WritesOwned'
    BY <1>1 DEF WritesOwned, CacheInv
  <1>5. NotLost'
    BY <1>1, <1>2, <1>3 DEF NotLost, Held, CacheInv, Excuses
  <1>6. LoadExcused'
    <2> SUFFICES ASSUME NEW d \in Callers, call[d].at = "load"
                 PROVE  excused'[KeyOf(d)] /\ (down => KeyOf(d) \in spared)
      BY <1>1, KeyStays DEF LoadExcused
    <2>1. excused[KeyOf(d)] /\ (down => KeyOf(d) \in spared) /\ KeyOf(d) \in Keys
      BY DEF CacheInv, Excuses, LoadExcused, ShapeInv, OneKey, Running
    <2> QED BY <1>3, <2>1
  <1>7. FloorBound' /\ InvalidationSticks'
    BY <1>1, <1>2 DEF CacheInv, Fresh, FloorBound, InvalidationSticks
  <1> QED BY <1>1, <1>4, <1>5, <1>6, <1>7, WorldStep

\* The source changes, and the backend goes and comes back.
LEMMA WorldKeeps ==
  ASSUME CacheInv, ShapeInv',
         (\E k \in Keys : SourceChanges(k)) \/ BackendFails \/ BackendHeals \/ UNCHANGED vars
  PROVE  CacheInv'
  <1>1. UNCHANGED <<stored, setBuf, call, flight, excused, floor>>
    BY DEF SourceChanges, BackendFails, BackendHeals, vars, engineVars, history
  <1>2. WritesOwned' /\ NotLost' /\ InvalidationSticks'
    BY <1>1 DEF WritesOwned, NotLost, Held, InvalidationSticks, CacheInv, Excuses, Fresh
  <1>3. FloorBound'
    <2> SUFFICES ASSUME NEW l \in Keys PROVE floor[l] <= source'[l]
      BY <1>1 DEF FloorBound
    <2>1. floor[l] <= source[l] /\ floor[l] \in Int /\ source[l] \in Int
      BY DEF CacheInv, Fresh, FloorBound, ShapeInv, EngineShape, Versions
    <2>2. source'[l] = source[l] \/ source'[l] = source[l] + 1
      BY DEF SourceChanges, BackendFails, BackendHeals, vars, CacheInv, ShapeInv, EngineShape
    <2> QED BY <2>1, <2>2
  <1>4. LoadExcused'
    <2> SUFFICES ASSUME NEW d \in Callers, call[d].at = "load"
                 PROVE  excused[KeyOf(d)] /\ (down' => KeyOf(d) \in spared')
      BY <1>1, KeyStays DEF LoadExcused
    <2>1. excused[KeyOf(d)] /\ (down => KeyOf(d) \in spared) /\ KeyOf(d) \in Keys
      BY DEF CacheInv, Excuses, LoadExcused, ShapeInv, OneKey, Running
    <2>2. down' => KeyOf(d) \in spared'
      BY <2>1 DEF SourceChanges, BackendFails, BackendHeals, vars, engineVars, history
    <2> QED BY <2>1, <2>2
  <1> QED BY <1>1, <1>2, <1>3, <1>4, WorldStep

\* An empty cache.
LEMMA InitInv == Init => CacheInv
  <1> SUFFICES ASSUME Init PROVE CacheInv
    OBVIOUS
  <1>1. ShapeInv
    BY InitShape
  <1>2. WritesOwned
    BY DEF Init, WritesOwned
  <1>3. Fresh
    BY DEF Init, Fresh, FloorBound, InvalidationSticks, StoresFresh, AsksFresh, NoStaleAnswer,
           NoCall, Ok, Storage
  <1>4. Excuses
    BY DEF Init, Excuses, NotLost, LoadExcused, NoCall
  <1> QED BY <1>1, <1>2, <1>3, <1>4 DEF CacheInv

\* The invariant of the read-through cache is inductive.
LEMMA NextInv == CacheInv /\ [WithoutSet]_vars => CacheInv'
  <1> SUFFICES ASSUME CacheInv, [WithoutSet]_vars PROVE CacheInv'
    OBVIOUS
  <1>1. ShapeInv'
    BY NextShape DEF CacheInv, Next
  <1>2. ASSUME NEW c \in Callers,
               Calls(c) \/ Done(c) \/ Read(c) \/ GetOrElse(c) \/ Del(c) \/ Clear(c)
        PROVE  CacheInv'
    <2>1. CASE Calls(c) \/ Done(c) \/ Read(c)
      BY <1>1, <2>1, CallsKeeps, DoneKeeps, ReadKeeps
    <2>2. CASE GetOrElse(c)
      BY <1>1, <2>2, FirstGetKeeps, DoJoinsKeeps, DoubleCheckKeeps, LoadKeeps, StoreKeeps,
         SyncKeeps, SyncedKeeps DEF GetOrElse
    <2>3. CASE Del(c) \/ Clear(c)
      BY <1>1, <2>3, DelKeeps, ClearKeeps
    <2> QED BY <1>2, <2>1, <2>2, <2>3
  <1>3. ASSUME NEW k \in Keys, EngineEvicts(k) PROVE CacheInv'
    BY <1>1, <1>3, EvictsKeeps
  <1>4. CASE EngineApplies
    BY <1>1, <1>4, AppliesKeeps
  <1>5. CASE (\E k \in Keys : SourceChanges(k)) \/ BackendFails \/ BackendHeals \/ UNCHANGED vars
    BY <1>1, <1>5, WorldKeeps
  <1> QED BY <1>2, <1>3, <1>4, <1>5 DEF WithoutSet

\* The read-through cache is coherent (GetOrElse, Del and Clear, typed.go:87-229): what
\* was invalidated stays out of it and no caller is answered with it, however many
\* goroutines load, delete and clear while the engine applies its buffer.
THEOREM CacheCoherent == ReadThrough => []Coherent
  <1>1. CacheInv => Coherent
    BY ShapeTypeOK DEF CacheInv, Fresh, Coherent
  <1> QED BY <1>1, InitInv, NextInv, PTL DEF ReadThrough

\* The source behind the read-through cache is spared (typed.go:99-155): a value is
\* loaded again only after its entry or its write was lost, and after the backend went
\* down only by a call that had seen the miss before.
THEOREM CacheSpares == ReadThrough => SourceSpared
  <1>1. CacheInv /\ [WithoutSet]_vars =>
          [\A c \in Callers : Loads(c) => excused[KeyOf(c)]]_vars
    BY DEF CacheInv, Excuses, LoadExcused, Loads
  <1>2. CacheInv /\ [WithoutSet]_vars =>
          [\A c \in Callers :
             (call[c].at = "load" /\ call'[c].at # "load" /\ down) => KeyOf(c) \in spared]_vars
    BY DEF CacheInv, Excuses, LoadExcused
  <1> QED BY <1>1, <1>2, InitInv, NextInv, PTL
        DEF ReadThrough, SourceSpared, NoRedundantLoad, OutageSparesSource
=============================================================================
