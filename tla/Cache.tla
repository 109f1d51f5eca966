-------------------------------- MODULE Cache --------------------------------
(***************************************************************************)
(* One cache of ag/ag_cache: goroutines call the operations of a           *)
(* typedCache over an asynchronous engine.  GetOrElse is the read-through: *)
(* a miss is loaded once for all the goroutines that miss it               *)
(* (singleflight), stored, and made visible before anybody returns.        *)
(*                                                                         *)
(* call[c].since is history: the floor when c called.                      *)
(* A value is the version of the source it was read from; serialization is *)
(* a bijection on those.  A step of a goroutine ends at its next call of   *)
(* the engine, of the loader or of singleflight.  The engine is external:  *)
(* ristretto, as agristretto uses it.  An entry that expires is evicted.   *)
(***************************************************************************)
EXTENDS Integers, Sequences, Functions

CONSTANTS
    Callers,     \* goroutines
    Keys,
    None,        \* no entry, no caller, no key
    Ops,         \* the operations the application calls
    Outages,     \* whether the engine can become unreachable
    MaxVersion,  \* bound: versions of the source
    SetBufSize   \* capacity of the engine's write buffer

ASSUME CacheAssumption ==
    /\ MaxVersion \in Nat /\ SetBufSize \in Nat \ {0}
    /\ Outages \in BOOLEAN
    /\ None \notin Callers \cup Keys \cup (0 .. MaxVersion)
    /\ Ops \subseteq {"get", "tryGet", "getOrElse", "set", "del", "clear"}

VARIABLES
    source,   \* the version the loader finds for each key
    stored,   \* the engine's visible entries
    setBuf,   \* the engine's writes and Sync markers not yet applied
    down,     \* the engine's backend is unreachable
    call,     \* each goroutine: where it is in its call
    flight,   \* sf: the goroutine that runs the function for each key
    excused,  \* history: the entry of the key was lost, or its write was, since the last load
    spared,   \* history: the keys not loaded since the backend went down
    floor     \* history: the version at the last deletion no loaded value could overtake

engineVars == <<stored, setBuf, down>>
history == <<excused, spared, floor>>
vars == <<source, engineVars, call, flight, history>>

Versions == 0 .. MaxVersion

Value(v) == [is |-> "value", val |-> v]
Miss == [is |-> "miss", val |-> None]
\* ErrBackend; Cancelled is the ErrBackend of a caller whose context ended.
Backend == [is |-> "backend", val |-> None]
Cancelled == [is |-> "cancelled", val |-> None]
LoadFailed == [is |-> "loadFailed", val |-> None]
Panic == [is |-> "panic", val |-> None]
Ok == [is |-> "ok", val |-> None]

NoCall == [at |-> "idle", op |-> None, keys |-> {}, live |-> TRUE, val |-> None, res |-> Ok,
           since |-> 0]

Init ==
    /\ source = [k \in Keys |-> 0]
    /\ stored = [k \in Keys |-> None]
    /\ setBuf = <<>>
    /\ down = FALSE
    /\ call = [c \in Callers |-> NoCall]
    /\ flight = [k \in Keys |-> None]
    /\ excused = [k \in Keys |-> TRUE]
    /\ spared = Keys
    /\ floor = [k \in Keys |-> 0]

KeyOf(c) == CHOOSE k \in call[c].keys : TRUE

------------------------------------------------------------------------------
(* The engine (external).                                                  *)

Room == Len(setBuf) < SetBufSize
Item(kind, k, v) == [is |-> kind, key |-> k, val |-> v]

\* What engine.Get may answer: the entry, a miss, an error or a panic of an
\* unreachable backend, the end of the caller's context.
EngineGet(k, live) ==
    IF down THEN {Backend, Panic}
    ELSE {IF stored[k] = None THEN Miss ELSE Value(stored[k])}
         \cup (IF live THEN {} ELSE {Cancelled})

\* An entry that exists is updated in place; a new one goes through the
\* buffer, and is dropped when the buffer is full.
EngineSet(k, v) ==
    \/ /\ stored[k] # None
       /\ stored' = [stored EXCEPT ![k] = v]
       /\ UNCHANGED <<setBuf, excused>>
    \/ /\ stored[k] = None /\ Room
       /\ setBuf' = Append(setBuf, Item("new", k, v))
       /\ UNCHANGED <<stored, excused>>
    \/ /\ stored[k] = None /\ ~Room
       /\ excused' = [excused EXCEPT ![k] = TRUE]
       /\ UNCHANGED <<stored, setBuf>>

\* The entry goes at once; the buffered deletion removes what an earlier
\* buffered write is still to bring.
EngineDel(k) ==
    /\ Room
    /\ stored' = [stored EXCEPT ![k] = None]
    /\ setBuf' = Append(setBuf, Item("del", k, None))
    /\ excused' = [excused EXCEPT ![k] = TRUE]

EngineClear ==
    /\ stored' = [k \in Keys |-> None]
    /\ setBuf' = <<>>
    /\ excused' = [k \in Keys |-> TRUE]

\* The engine applies the oldest buffered item; its policy may refuse a write.
EngineApplies ==
    /\ setBuf # <<>>
    /\ setBuf' = Tail(setBuf)
    /\ LET i == Head(setBuf) IN
         \/ /\ i.is = "new"
            /\ stored' = [stored EXCEPT ![i.key] = i.val]
            /\ UNCHANGED excused
         \/ /\ i.is = "new"
            /\ excused' = [excused EXCEPT ![i.key] = @ \/ stored[i.key] = None]
            /\ UNCHANGED stored
         \/ /\ i.is = "del"
            /\ stored' = [stored EXCEPT ![i.key] = None]
            /\ excused' = [excused EXCEPT ![i.key] = TRUE]
         \/ /\ i.is = "wait"
            /\ UNCHANGED <<stored, excused>>
    /\ UNCHANGED <<source, down, call, flight, spared, floor>>

EngineEvicts(k) ==
    /\ stored[k] # None
    /\ stored' = [stored EXCEPT ![k] = None]
    /\ excused' = [excused EXCEPT ![k] = TRUE]
    /\ UNCHANGED <<source, setBuf, down, call, flight, spared, floor>>

BackendFails ==
    /\ Outages /\ ~down
    /\ down' = TRUE
    /\ spared' = Keys
    /\ UNCHANGED <<source, stored, setBuf, call, flight, excused, floor>>

BackendHeals ==
    /\ down
    /\ down' = FALSE
    /\ UNCHANGED <<source, stored, setBuf, call, flight, history>>

\* What the loader reads changes.
SourceChanges(k) ==
    /\ source[k] < MaxVersion
    /\ source' = [source EXCEPT ![k] = @ + 1]
    /\ UNCHANGED <<engineVars, call, flight, history>>

------------------------------------------------------------------------------
(* typedCache.                                                             *)

\* A panic of the engine becomes ErrBackend.
Recovered(r) == IF r = Panic THEN Backend ELSE r

Returns(c, r) == call' = [call EXCEPT ![c].at = "return", ![c].res = r]

\* Get and TryGet: TryGet has no recoverPanic.
Read(c) ==
    /\ call[c].at = "call" /\ call[c].op \in {"get", "tryGet"}
    /\ \E r \in EngineGet(KeyOf(c), call[c].live) :
         Returns(c, IF call[c].op = "get" THEN Recovered(r) ELSE r)
    /\ UNCHANGED <<source, engineVars, flight, history>>

\* Mutant of IsMiss: every error of the engine is a miss.
IsAnyError(r) == r.is # "value"

\* errors.Is(err, ErrCacheMiss)
IsMiss(r) == r.is = "miss"

\* GetOrElse: the first read, with the caller's context.
FirstGet(c) ==
    /\ call[c].at = "call" /\ call[c].op = "getOrElse"
    /\ \E r \in EngineGet(KeyOf(c), call[c].live) :
         IF IsMiss(r) THEN call' = [call EXCEPT ![c].at = "do"]
         ELSE Returns(c, Recovered(r))
    /\ UNCHANGED <<source, engineVars, flight, history>>

\* Mutant of DoJoins: every caller runs the function itself.
DoAlone(c) ==
    /\ call[c].at = "do"
    /\ call' = [call EXCEPT ![c].at = "check"]
    /\ flight' = [flight EXCEPT ![KeyOf(c)] = c]
    /\ UNCHANGED <<source, engineVars, history>>

\* sf.Do: the first caller for the key runs the function, the others wait.
DoJoins(c) ==
    /\ call[c].at = "do"
    /\ IF flight[KeyOf(c)] = None
       THEN /\ call' = [call EXCEPT ![c].at = "check"]
            /\ flight' = [flight EXCEPT ![KeyOf(c)] = c]
       ELSE /\ call' = [call EXCEPT ![c].at = "wait"]
            /\ UNCHANGED flight
    /\ UNCHANGED <<source, engineVars, history>>

\* Mutant of DoReturns: only the caller that ran the function gets its result.
DoReturnsOne(c, r) ==
    /\ call' = [call EXCEPT ![c].at = "return", ![c].res = Recovered(r)]
    /\ flight' = [flight EXCEPT ![KeyOf(c)] = None]

\* The function returns or panics: everybody who waits has its result, and
\* a panic, which sf.Do repeats in each of them, is recovered in each.
DoReturns(c, r) ==
    /\ call' = [d \in Callers |->
                  IF d = c \/ (call[d].at = "wait" /\ call[d].keys = call[c].keys)
                  THEN [call[d] EXCEPT !.at = "return", !.res = Recovered(r)]
                  ELSE call[d]]
    /\ flight' = [flight EXCEPT ![KeyOf(c)] = None]

\* Mutant of CheckContext: the second read is done with the caller's context.
CheckInherited(c) == call[c].live

\* The second read and the loader get context.WithoutCancel(ctx).
CheckContext(c) == TRUE

\* Mutant of DoubleCheck: the loader is called without a second read.
NoDoubleCheck(c) ==
    /\ call[c].at = "check"
    /\ call' = [call EXCEPT ![c].at = "load"]
    /\ UNCHANGED <<source, engineVars, flight, history>>

DoubleCheck(c) ==
    /\ call[c].at = "check"
    /\ \E r \in EngineGet(KeyOf(c), CheckContext(c)) :
         IF IsMiss(r)
         THEN call' = [call EXCEPT ![c].at = "load"] /\ UNCHANGED flight
         ELSE DoReturns(c, r)
    /\ UNCHANGED <<source, engineVars, history>>

\* The loader is called: it fails (an error, a recovered panic, a value that
\* cannot be serialized) or reads the source.
Load(c) ==
    /\ call[c].at = "load"
    /\ \/ /\ DoReturns(c, LoadFailed)
          /\ UNCHANGED excused
       \/ /\ call' = [call EXCEPT ![c].at = "store", ![c].val = source[KeyOf(c)]]
          /\ excused' = [excused EXCEPT ![KeyOf(c)] = FALSE]
          /\ UNCHANGED flight
    /\ spared' = IF down THEN spared \ {KeyOf(c)} ELSE spared
    /\ UNCHANGED <<source, engineVars, floor>>

\* engine.Set of the loaded value: a failed write does not fail the call,
\* a panic does.
Store(c) ==
    /\ call[c].at = "store"
    /\ \/ /\ ~down
          /\ EngineSet(KeyOf(c), call[c].val)
          /\ call' = [call EXCEPT ![c].at = "sync"]
          /\ UNCHANGED flight
       \/ /\ down
          /\ \E r \in {Value(call[c].val), Panic} : DoReturns(c, r)
          /\ excused' = [excused EXCEPT ![KeyOf(c)] = TRUE]
          /\ UNCHANGED <<stored, setBuf>>
    /\ UNCHANGED <<source, down, spared, floor>>

\* Mutant of Sync: the call does not wait for the write to be applied.
NoSync(c) ==
    /\ call[c].at = "sync"
    /\ DoReturns(c, Value(call[c].val))
    /\ UNCHANGED <<source, engineVars, history>>

\* Sync: a marker follows the write through the buffer ...
Sync(c) ==
    /\ call[c].at = "sync" /\ Room
    /\ setBuf' = Append(setBuf, Item("wait", KeyOf(c), c))
    /\ call' = [call EXCEPT ![c].at = "syncing"]
    /\ UNCHANGED <<source, stored, down, flight, history>>

\* ... and the call goes on when the marker has gone.
Synced(c) ==
    /\ call[c].at = "syncing"
    /\ Item("wait", KeyOf(c), c) \notin Range(setBuf)
    /\ DoReturns(c, Value(call[c].val))
    /\ UNCHANGED <<source, engineVars, history>>

\* Set and SetWithTTL write the current version.
Set(c) ==
    /\ call[c].at = "call" /\ call[c].op = "set"
    /\ \/ /\ ~down
          /\ EngineSet(KeyOf(c), source[KeyOf(c)])
          /\ Returns(c, Ok)
       \/ /\ down
          /\ Returns(c, Backend)
          /\ UNCHANGED <<stored, setBuf, excused>>
    /\ UNCHANGED <<source, down, flight, spared, floor>>

\* A value loaded for the key is on its way to the engine.
Storing(k) == flight[k] # None /\ call[flight[k]].at \in {"store", "sync", "syncing"}

Floor(ks) == [k \in Keys |-> IF k \in ks /\ ~Storing(k) THEN source[k] ELSE floor[k]]

\* Mutant of Del: the loop ends after its first key.
DelFirst(c) ==
    /\ call[c].at = "call" /\ call[c].op = "del"
    /\ \E k \in call[c].keys :
         EngineDel(k) /\ Returns(c, Ok) /\ floor' = Floor(call[c].keys)
    /\ UNCHANGED <<source, down, flight, spared>>

\* Del deletes one key after the other and gives up at the first error.
Del(c) ==
    /\ call[c].at = "call" /\ call[c].op = "del"
    /\ \/ \E k \in call[c].keys :
            /\ ~down
            /\ EngineDel(k)
            /\ floor' = Floor({k})
            /\ IF call[c].keys = {k} THEN Returns(c, Ok)
               ELSE call' = [call EXCEPT ![c].keys = @ \ {k}]
       \/ /\ down
          /\ Returns(c, Backend)
          /\ UNCHANGED <<stored, setBuf, excused, floor>>
    /\ UNCHANGED <<source, down, flight, spared>>

Clear(c) ==
    /\ call[c].at = "call" /\ call[c].op = "clear"
    /\ \/ /\ ~down
          /\ EngineClear
          /\ floor' = Floor(Keys)
          /\ Returns(c, Ok)
       \/ /\ down
          /\ Returns(c, Backend)
          /\ UNCHANGED <<stored, setBuf, excused, floor>>
    /\ UNCHANGED <<source, down, flight, spared>>

\* A goroutine calls an operation, with a context that may already have ended;
\* Del takes several keys.
Calls(c) ==
    /\ call[c].at = "idle"
    /\ \E op \in Ops, ks \in (SUBSET Keys) \ {{}}, live \in BOOLEAN :
         /\ op # "del" => \E k \in Keys : ks = {k}
         /\ ~live => op \in {"get", "tryGet", "getOrElse"}
         /\ call' = [call EXCEPT ![c] = [NoCall EXCEPT !.at = "call", !.op = op,
                       !.keys = ks, !.live = live,
                       !.since = IF op = "getOrElse" THEN floor[CHOOSE k \in ks : TRUE] ELSE 0]]
    /\ UNCHANGED <<source, engineVars, flight, history>>

\* The caller has its result and goes on.
Done(c) ==
    /\ call[c].at = "return"
    /\ call' = [call EXCEPT ![c] = NoCall]
    /\ UNCHANGED <<source, engineVars, flight, history>>

GetOrElse(c) ==
    \/ FirstGet(c) \/ DoJoins(c) \/ DoubleCheck(c) \/ Load(c) \/ Store(c) \/ Sync(c) \/ Synced(c)

\* Everything but plain Set, whose value may become visible late.
WithoutSet ==
    \/ \E c \in Callers : Calls(c) \/ Done(c) \/ Read(c) \/ GetOrElse(c) \/ Del(c) \/ Clear(c)
    \/ \E k \in Keys : EngineEvicts(k) \/ SourceChanges(k)
    \/ EngineApplies \/ BackendFails \/ BackendHeals

Next == WithoutSet \/ \E c \in Callers : Set(c)

Spec == Init /\ [][Next]_vars

\* The read-through cache: all that is written was loaded.
ReadThrough == Init /\ [][WithoutSet]_vars

\* Goroutines run and loaders return; the engine applies its buffer; a
\* goroutine that waits to write to the buffer's channel gets its turn, as
\* Go serves the senders of a channel in the order they came.
Fairness ==
    /\ WF_vars(EngineApplies)
    /\ \A c \in Callers :
         /\ WF_vars(Read(c)) /\ WF_vars(Set(c)) /\ WF_vars(Clear(c))
         /\ WF_vars(FirstGet(c)) /\ WF_vars(DoJoins(c)) /\ WF_vars(DoubleCheck(c))
         /\ WF_vars(Load(c)) /\ WF_vars(Store(c)) /\ WF_vars(Synced(c))
         /\ SF_vars(Sync(c)) /\ SF_vars(Del(c))

FairSpec == Spec /\ Fairness

------------------------------------------------------------------------------
(* Properties.                                                             *)

\* The state has its shape: the goroutine that runs the function for a key is
\* in that function and no other is, the others at most wait for it, and
\* a buffer never holds more than its size.
TypeOK ==
    /\ source \in [Keys -> Versions] /\ floor \in [Keys -> Versions]
    /\ stored \in [Keys -> Versions \cup {None}]
    /\ Len(setBuf) <= SetBufSize
    /\ \A i \in 1 .. Len(setBuf) :
         setBuf[i].is \in {"new", "del", "wait"} /\ setBuf[i].key \in Keys
    /\ down \in BOOLEAN /\ excused \in [Keys -> BOOLEAN] /\ spared \subseteq Keys
    /\ \A c \in Callers :
         /\ call[c].op \in Ops \cup {None} /\ call[c].keys \subseteq Keys
         /\ call[c].at \in {"idle", "call", "do", "check", "load", "store", "sync",
                            "syncing", "wait", "return"}
         /\ call[c].at \in {"check", "load", "store", "sync", "syncing"}
              <=> \E k \in Keys : flight[k] = c
         /\ call[c].at = "wait" => flight[KeyOf(c)] \in Callers
    /\ flight \in [Keys -> Callers \cup {None}]

Loads(c) == call[c].at = "load" /\ call'[c].at = "store"

\* "loader is called exactly once" (GetOrElse, typed.go:111-155): a value is
\* loaded a second time only when, since the last load, the entry was deleted,
\* evicted or refused, or its write failed - never because a second goroutine
\* missed before the first had loaded, or before the write became visible.
NoRedundantLoad ==
    [][\A c \in Callers : Loads(c) => excused[KeyOf(c)]]_vars

\* A backend that fails is not a miss (typed.go:99-103): however many
\* goroutines ask, after the backend went down the loader is called at most
\* once more for a key, by a call that had seen the miss before.
OutageSparesSource ==
    [][\A c \in Callers :
         (call[c].at = "load" /\ call'[c].at # "load" /\ down) => KeyOf(c) \in spared]_vars

\* The end of one caller's context is that caller's (typed.go:112-128): a
\* caller whose context lives never gets the error of another one's.
CancelStaysPrivate ==
    \A c \in Callers : call[c].live => call[c].res # Cancelled

\* Del and Clear invalidate (typed.go:203-229): in a read-through cache no entry
\* is older than the source was at the last deletion of its key, unless a value
\* loaded before the deletion was being stored at that moment.
InvalidationSticks ==
    \A k \in Keys : stored[k] # None => stored[k] >= floor[k]

\* Nor does anybody see such an entry: a GetOrElse called after the deletion
\* returns what the source held then or later, also when it joins a load that
\* was under way (typed.go:111-158).
NoStaleAnswer ==
    \A c \in Callers :
      (call[c].op = "getOrElse" /\ call[c].res.is = "value") =>
        call[c].res.val >= call[c].since

\* The cache is coherent: its state is well formed, what was invalidated stays
\* out of it, and nobody is answered with what was (Del, Clear, GetOrElse).
Coherent == TypeOK /\ InvalidationSticks /\ NoStaleAnswer

\* The source behind the cache is spared: no load that the cache made needless,
\* and none because the backend is down (GetOrElse).
SourceSpared == NoRedundantLoad /\ OutageSparesSource

\* Every call of GetOrElse returns: a goroutine that waits for another one's load
\* is never left behind.
GetOrElseReturns ==
    \A c \in Callers :
      (call[c].at \notin {"idle", "return"} /\ call[c].op = "getOrElse") ~> call[c].at = "return"
==============================================================================
