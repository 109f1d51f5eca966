--------------------------- MODULE ComponentsProofs ---------------------------
(***************************************************************************)
(* Theorems about small components: the cache manager keeps one open cache *)
(* per name and forgets no engine; a future of the pool is awaited by its  *)
(* own callers only; snapshots of the copy-on-write slice never change;    *)
(* transactions of service calls are all or nothing; generated             *)
(* repositories lose no confirmed update, query by indexes and page        *)
(* through all rows.  For all goroutines, names, engines, futures, calls,  *)
(* clients, rows and page sizes, for all middlewares in every order        *)
(* sort.Sort may leave them, and for every depth of calls inside calls.    *)
(***************************************************************************)
EXTENDS CacheManager, FuturePool, CopyOnWrite, ServiceCall, GeneratedDao, Facts

-------------------------------------------------------------------------------
(* The cache manager *)

\* What a goroutine holds: past the first lookup it has a name, and the engine it
\* built is open until it is installed or closed.
HoldsOwn ==
    \A c \in Callers :
      /\ call[c].at \in {"create", "install", "return"} => call[c].name \in Names
      /\ call[c].got # None => call[c].name \in Names
      /\ call[c].at = "install" => /\ call[c].built \in Engines
                                   /\ engine[call[c].built] = "open"

\* The inductive invariant: the checked properties need the owners of TypeOK
\* (closing a loser's engine must not close an installed one) and HoldsOwn.
ManagerInv ==
    TypeOK /\ HoldsOwn /\ InstalledIsOpen /\ OneCachePerName /\ NoEngineForgotten

\* A new Manager has no cache, no engine and no caller.
LEMMA InitManager == Init => ManagerInv
  <1> SUFFICES ASSUME Init PROVE ManagerInv
    OBVIOUS
  <1> USE CacheManagerAssumption DEF Init, NoCall
  <1>1. Shape
    BY DEF Shape
  <1>2. OneOwner
    BY DEF OneOwner, Builds
  <1>3. HoldsOwn /\ InstalledIsOpen /\ OneCachePerName /\ NoEngineForgotten
    BY DEF HoldsOwn, InstalledIsOpen, OneCachePerName, NoEngineForgotten
  <1> QED BY <1>1, <1>2, <1>3 DEF ManagerInv, TypeOK

\* getOrCreate's first look into m.caches hands out what is installed, and that is open.
LEMMA LookupKeeps ==
  ASSUME ManagerInv, NEW c \in Callers, NEW n \in Names, Lookup(c, n)
  PROVE  ManagerInv'
  <1> USE CacheManagerAssumption DEF ManagerInv, Lookup, NoCall
  <1>1. TypeOK'
    <2>1. Shape'
      BY DEF TypeOK, Shape
    <2>2. OneOwner'
      BY DEF TypeOK, Shape, OneOwner, Builds
    <2> QED BY <2>1, <2>2 DEF TypeOK
  <1>2. HoldsOwn'
    BY DEF TypeOK, Shape, HoldsOwn
  <1>3. InstalledIsOpen'
    BY DEF InstalledIsOpen
  <1>4. OneCachePerName'
    BY DEF TypeOK, Shape, InstalledIsOpen, OneCachePerName
  <1>5. NoEngineForgotten'
    BY DEF TypeOK, Shape, NoEngineForgotten, Builds
  <1> QED BY <1>1, <1>2, <1>3, <1>4, <1>5

\* An engine that was just built is nobody's yet: nothing installed or built before is it.
LEMMA CreateKeeps ==
  ASSUME ManagerInv, NEW c \in Callers, Create(c)
  PROVE  ManagerInv'
  <1> USE CacheManagerAssumption DEF ManagerInv
  <1>1. CASE Returns(c, None) /\ UNCHANGED <<caches, engine, stopped>> /\ call[c].at = "create"
    <2> USE <1>1 DEF Returns
    <2>1. TypeOK'
      <3>1. Shape'
        BY ZenonT(30) DEF TypeOK, Shape
      <3>2. OneOwner'
        BY DEF TypeOK, Shape, OneOwner, Builds
      <3> QED BY <3>1, <3>2 DEF TypeOK
    <2>2. HoldsOwn'
      BY DEF TypeOK, Shape, HoldsOwn
    <2>3. InstalledIsOpen'
      BY DEF InstalledIsOpen
    <2>4. OneCachePerName'
      BY DEF TypeOK, Shape, OneCachePerName
    <2>5. NoEngineForgotten'
      BY DEF TypeOK, Shape, NoEngineForgotten, Builds
    <2> QED BY <2>1, <2>2, <2>3, <2>4, <2>5
  <1>2. ASSUME NEW e \in Engines, engine[e] = "unbuilt", engine' = [engine EXCEPT ![e] = "open"],
               call' = [call EXCEPT ![c].at = "install", ![c].built = e],
               call[c].at = "create", UNCHANGED <<caches, stopped>>
        PROVE  ManagerInv'
    <2> USE <1>2
    <2>1. /\ \A n \in Names : caches[n] # e
          /\ \A d \in Callers : ~Builds(d, e)
      BY DEF TypeOK, Shape, HoldsOwn, InstalledIsOpen, Builds
    <2>2. TypeOK'
      <3>1. Shape'
        BY <2>1, ZenonT(30) DEF TypeOK, Shape
      <3>2. OneOwner'
        BY <2>1 DEF TypeOK, Shape, OneOwner, Builds
      <3> QED BY <3>1, <3>2 DEF TypeOK
    <2>3. HoldsOwn'
      BY DEF TypeOK, Shape, HoldsOwn
    <2>4. InstalledIsOpen'
      BY DEF TypeOK, Shape, InstalledIsOpen
    <2>5. OneCachePerName'
      BY DEF TypeOK, Shape, HoldsOwn, OneCachePerName
    <2>6. NoEngineForgotten'
      BY DEF TypeOK, Shape, NoEngineForgotten, Builds
    <2> QED BY <2>2, <2>3, <2>4, <2>5, <2>6
  <1> QED BY <1>1, <1>2 DEF Create

\* The winner installs an engine only it held; the loser closes an engine that is
\* not installed, so no cache anybody holds is closed.
LEMMA InstallKeeps ==
  ASSUME ManagerInv, NEW c \in Callers, Install(c)
  PROVE  ManagerInv'
  <1> DEFINE n == call[c].name
             e == call[c].built
  <1> USE CacheManagerAssumption DEF ManagerInv, Install, Returns
  <1>0. n \in Names /\ e \in Engines /\ engine[e] = "open" /\ Builds(c, e)
    BY DEF TypeOK, Shape, HoldsOwn, Builds
  <1>1. CASE caches[n] # None
    <2> USE <1>1 DEF CloseEngines
    <2>0. /\ engine' = [engine EXCEPT ![e] = "closed"]
          /\ caches[n] \in Engines
      BY <1>0 DEF TypeOK, Shape
    <2>1. TypeOK'
      <3>1. Shape'
        BY <1>0, <2>0 DEF TypeOK, Shape
      <3>2. OneOwner'
        BY <1>0, <2>0 DEF TypeOK, Shape, OneOwner, Builds
      <3> QED BY <3>1, <3>2 DEF TypeOK
    <2>2. HoldsOwn'
      BY <1>0, <2>0 DEF TypeOK, Shape, OneOwner, HoldsOwn, Builds
    <2>3. InstalledIsOpen'
      BY <1>0, <2>0 DEF TypeOK, Shape, OneOwner, Builds, InstalledIsOpen
    <2>4. OneCachePerName'
      BY <1>0, <2>0 DEF TypeOK, Shape, OneOwner, Builds, HoldsOwn, InstalledIsOpen, OneCachePerName
    <2>5. NoEngineForgotten'
      BY <1>0, <2>0 DEF TypeOK, Shape, NoEngineForgotten, Builds
    <2> QED BY <2>1, <2>2, <2>3, <2>4, <2>5
  <1>2. CASE caches[n] = None
    <2> USE <1>2
    <2>1. TypeOK'
      <3>1. Shape'
        BY <1>0 DEF TypeOK, Shape
      <3>2. OneOwner'
        BY <1>0, SMTT(30) DEF TypeOK, Shape, OneOwner, Builds
      <3> QED BY <3>1, <3>2 DEF TypeOK
    <2>2. HoldsOwn'
      BY <1>0 DEF TypeOK, Shape, HoldsOwn
    <2>3. InstalledIsOpen'
      BY <1>0 DEF TypeOK, Shape, InstalledIsOpen
    <2>4. OneCachePerName'
      <3>1. \A d \in Callers : call[d].got # None => stopped \/ call[d].name # n
        BY <1>0 DEF OneCachePerName
      <3> QED BY <1>0, <3>1 DEF TypeOK, Shape, HoldsOwn, OneCachePerName
    <2>5. NoEngineForgotten'
      BY <1>0 DEF TypeOK, Shape, NoEngineForgotten, Builds
    <2> QED BY <2>1, <2>2, <2>3, <2>4, <2>5
  <1> QED BY <1>1, <1>2

\* Returning from getOrCreate changes no engine and no entry.
LEMMA DoneKeeps ==
  ASSUME ManagerInv, NEW c \in Callers, Done(c)
  PROVE  ManagerInv'
  <1> USE CacheManagerAssumption DEF ManagerInv, Done
  <1>1. TypeOK'
    <2>1. Shape'
      BY ZenonT(30) DEF TypeOK, Shape
    <2>2. OneOwner'
      BY DEF TypeOK, Shape, OneOwner, Builds
    <2> QED BY <2>1, <2>2 DEF TypeOK
  <1>2. HoldsOwn'
    BY DEF TypeOK, Shape, HoldsOwn
  <1>3. InstalledIsOpen' /\ OneCachePerName'
    BY DEF TypeOK, Shape, InstalledIsOpen, OneCachePerName
  <1>4. NoEngineForgotten'
    BY DEF TypeOK, Shape, NoEngineForgotten, Builds
  <1> QED BY <1>1, <1>2, <1>3, <1>4

\* Close closes the installed engines and forgets exactly those.
LEMMA ManagerCloseKeeps ==
  ASSUME ManagerInv, Close
  PROVE  ManagerInv'
  <1> USE CacheManagerAssumption DEF ManagerInv, Close, CloseEngines
  <1>1. TypeOK'
    <2>1. Shape'
      BY DEF TypeOK, Shape
    <2>2. OneOwner'
      BY DEF TypeOK, Shape, OneOwner, Builds
    <2> QED BY <2>1, <2>2 DEF TypeOK
  <1>2. HoldsOwn'
    BY DEF TypeOK, Shape, OneOwner, HoldsOwn, Builds
  <1>3. InstalledIsOpen' /\ OneCachePerName'
    BY DEF TypeOK, Shape, InstalledIsOpen, OneCachePerName
  <1>4. NoEngineForgotten'
    BY DEF TypeOK, Shape, NoEngineForgotten, Builds
  <1> QED BY <1>1, <1>2, <1>3, <1>4

\* A step that changes nothing keeps the invariant.
LEMMA StutterKeeps ==
  ASSUME ManagerInv, UNCHANGED vars
  PROVE  ManagerInv'
  BY DEF ManagerInv, vars, TypeOK, Shape, OneOwner, HoldsOwn, InstalledIsOpen, OneCachePerName, NoEngineForgotten, Builds

\* Every reachable state satisfies the inductive invariant.
THEOREM ManagerInvariant == Spec => []ManagerInv
  <1>1. ManagerInv /\ [Next]_vars => ManagerInv'
    BY LookupKeeps, CreateKeeps, InstallKeeps, DoneKeeps, ManagerCloseKeeps, StutterKeeps DEF Next
  <1> QED BY InitManager, <1>1, PTL DEF Spec

\* Engines have one owner each, whatever getOrCreate and Close do at once.
THEOREM ManagerType == Spec => []TypeOK
  <1>1. ManagerInv => TypeOK
    BY DEF ManagerInv
  <1> QED BY ManagerInvariant, <1>1, PTL

\* getOrCreate gives every goroutine that asks for a name the same open cache.
THEOREM ManagerOneCache == Spec => []OneCachePerName
  <1>1. ManagerInv => OneCachePerName
    BY DEF ManagerInv
  <1> QED BY ManagerInvariant, <1>1, PTL

\* No open engine is without an owner that will close it.
THEOREM ManagerForgetsNothing == Spec => [](NoEngineForgotten /\ InstalledIsOpen)
  <1>1. ManagerInv => NoEngineForgotten /\ InstalledIsOpen
    BY DEF ManagerInv
  <1> QED BY ManagerInvariant, <1>1, PTL

-------------------------------------------------------------------------------
(* The pool of futures *)

Awaits == [at : {"idle", "holds", "wait"}, f : Futures \cup {"none"}, ticket : Nat,
           awaits : Nat, got : Nat]

\* Types of the futures, the tasks and the goroutines.
FutureType ==
    /\ fut \in [Futures -> [val : Nat, ready : BOOLEAN, consumed : BOOLEAN]]
    /\ pool \subseteq Futures
    /\ tasks \subseteq [f : Futures, ticket : Nat]
    /\ await \in [Awaiters -> Awaits]
    /\ tickets \in Nat

\* A goroutine owns its future from NewFuture until its one Await returns.
Owns(c) == await[c].at = "wait" \/ (await[c].at = "holds" /\ await[c].awaits = 0)

\* An owned future is out of the pool and has one owner, and what is in it is the
\* owner's.
Owned ==
    \A c \in Awaiters : Owns(c) =>
        /\ await[c].at = "wait" => await[c].awaits = 1
        /\ await[c].f \in Futures \ pool
        /\ fut[await[c].f].val \in {NoResult, Rejected, await[c].ticket}
        /\ \A d \in Awaiters : Owns(d) /\ await[d].f = await[c].f => d = c

\* A future a task will write is out of the pool, not ready, written by no other
\* task, and if somebody owns it then whoever submitted the task.
Written ==
    \A t \in tasks :
        /\ t.f \notin pool /\ fut[t.f].ready = FALSE
        /\ \A u \in tasks : u.f = t.f => u = t
        /\ \A c \in Awaiters : Owns(c) /\ await[c].f = t.f => await[c].ticket = t.ticket

FutureInv ==
    /\ FutureType /\ Owned /\ Written
    /\ \A c \in Awaiters : await[c].got \in {NoResult, Rejected, await[c].ticket}

\* The invariant holds of a pool nobody has used.
LEMMA FutureInvInit == FutureInit => FutureInv
BY DEF FutureInit, FutureInv, FutureType, Owned, Written, Owns, Awaits, FreshFuture, NoFuture,
       NoResult, Rejected

\* NewFuture makes its caller the one owner of a future nobody writes any more.
LEMMA NewFutureKeeps ==
    ASSUME FutureInv, NEW c \in Awaiters, NewFuture(c)
    PROVE  FutureInv'
<1> USE DEF FutureInv
<1>1. PICK f \in pool :
        /\ pool' = pool \ {f}
        /\ tickets' = tickets + 1
        /\ await' = [await EXCEPT ![c] =
                        [NoFuture EXCEPT !.at = "holds", !.f = f, !.ticket = tickets']]
        /\ \/ /\ tasks' = tasks \cup {[f |-> f, ticket |-> tickets']}
              /\ fut' = [fut EXCEPT ![f] = FreshFuture]
           \/ /\ fut' = [fut EXCEPT ![f] = [FreshFuture EXCEPT !.val = Rejected, !.ready = TRUE]]
              /\ UNCHANGED tasks
  BY DEF NewFuture
<1>2. f \in Futures /\ tickets' \in Nat
  BY <1>1 DEF FutureType
<1>3. /\ await'[c] = [at |-> "holds", f |-> f, ticket |-> tickets', awaits |-> 0, got |-> 0]
      /\ \A d \in Awaiters \ {c} : await'[d] = await[d]
      /\ await' \in [Awaiters -> Awaits]
  BY <1>1, <1>2 DEF FutureType, Awaits, NoFuture, NoResult
<1>4. /\ fut'[f].val \in {NoResult, Rejected}
      /\ \A g \in Futures \ {f} : fut'[g] = fut[g]
      /\ fut' \in [Futures -> [val : Nat, ready : BOOLEAN, consumed : BOOLEAN]]
  <2> DEFINE R == [val : Nat, ready : BOOLEAN, consumed : BOOLEAN]
             refused == [FreshFuture EXCEPT !.val = Rejected, !.ready = TRUE]
  <2>1. FreshFuture \in R /\ FreshFuture.val = NoResult
    BY DEF FreshFuture, NoResult
  <2>2. refused \in R /\ refused.val = Rejected
    BY <2>1 DEF Rejected
  <2>3. PICK v \in {FreshFuture, refused} : fut' = [fut EXCEPT ![f] = v]
    BY <1>1
  <2> HIDE DEF refused
  <2> QED BY <1>2, <2>1, <2>2, <2>3 DEF FutureType
<1>5. FutureType'
  BY <1>1, <1>2, <1>3, <1>4 DEF FutureType
<1>6. Owned'
  <2> SUFFICES ASSUME NEW d \in Awaiters, Owns(d)'
               PROVE  /\ await'[d].at = "wait" => await'[d].awaits = 1
                      /\ await'[d].f \in Futures \ pool'
                      /\ fut'[await'[d].f].val \in {NoResult, Rejected, await'[d].ticket}
                      /\ \A e \in Awaiters : Owns(e)' /\ await'[e].f = await'[d].f => e = d
    BY DEF Owned
  <2>1. CASE d = c
    BY <1>1, <1>2, <1>3, <1>4, <2>1 DEF Owned, Owns
  <2>2. CASE d # c
    BY <1>1, <1>2, <1>3, <1>4, <2>2 DEF Owned, Owns
  <2> QED BY <2>1, <2>2
<1>7. Written'
  <2> SUFFICES ASSUME NEW t \in tasks'
               PROVE  /\ t.f \notin pool' /\ fut'[t.f].ready = FALSE
                      /\ \A u \in tasks' : u.f = t.f => u = t
                      /\ \A d \in Awaiters :
                            Owns(d)' /\ await'[d].f = t.f => await'[d].ticket = t.ticket
    BY DEF Written
  <2>1. CASE t \in tasks
    <3>1. t.f # f /\ t.f \in Futures
      BY <1>1, <2>1 DEF Written, FutureType
    <3>2. \A u \in tasks' : u.f # f => u \in tasks
      BY <1>1
    <3> QED BY <1>1, <1>3, <1>4, <2>1, <3>1, <3>2 DEF Written, Owns
  <2>2. CASE t \notin tasks
    <3>1. t = [f |-> f, ticket |-> tickets'] /\ fut'[f] = FreshFuture
      BY <1>1, <1>2, <2>2 DEF FutureType
    <3>2. \A u \in tasks : u.f # f
      BY <1>1 DEF Written
    <3>3. \A d \in Awaiters : Owns(d)' /\ await'[d].f = f => d = c
      BY <1>1, <1>3 DEF Owned, Owns
    <3> QED BY <1>1, <1>3, <3>1, <3>2, <3>3 DEF FreshFuture
  <2> QED BY <2>1, <2>2
<1> QED BY <1>3, <1>5, <1>6, <1>7 DEF NoResult

\* A task writes the future of its submitter, or one nobody owns any more.
LEMMA TaskEndsKeeps ==
    ASSUME FutureInv, NEW t \in tasks, TaskEnds(t)
    PROVE  FutureInv'
<1> USE DEF FutureInv
<1>1. PICK v \in {t.ticket, Rejected} : fut' = [fut EXCEPT ![t.f].val = v, ![t.f].ready = TRUE]
  BY DEF TaskEnds
<1>2. t.f \in Futures /\ v \in Nat /\ tasks' = tasks \ {t} /\ UNCHANGED <<pool, await, tickets>>
  BY <1>1 DEF TaskEnds, FutureType, Rejected
<1>3. /\ fut'[t.f].val = v
      /\ \A g \in Futures \ {t.f} : fut'[g] = fut[g]
      /\ fut' \in [Futures -> [val : Nat, ready : BOOLEAN, consumed : BOOLEAN]]
  BY <1>1, <1>2 DEF FutureType
<1>4. FutureType'
  BY <1>2, <1>3 DEF FutureType
<1>5. Owned'
  BY <1>1, <1>2, <1>3 DEF Owned, Owns, Written
<1>6. Written'
  BY <1>2, <1>3 DEF Written, Owns, FutureType
<1> QED BY <1>2, <1>4, <1>5, <1>6

\* A goroutine whose Await has returned owns nothing any more.
LEMMA AwaitedType ==
    ASSUME FutureType, NEW c \in Awaiters, NEW v \in Nat, await[c].awaits = 1,
           await' = [await EXCEPT ![c].at = "holds", ![c].got = v]
    PROVE  /\ await'[c] \in Awaits /\ ~Owns(c)'
           /\ await'[c].got = v /\ await'[c].ticket = await[c].ticket
           /\ \A d \in Awaiters \ {c} : await'[d] = await[d]
           /\ await' \in [Awaiters -> Awaits]
<1>1. await \in [Awaiters -> Awaits] /\ await[c] \in Awaits
  BY DEF FutureType
<1>2. await'[c] = [await[c] EXCEPT !.at = "holds", !.got = v]
  BY <1>1
<1>3. await'[c] \in Awaits /\ await'[c].at = "holds" /\ await'[c].awaits = 1
      /\ await'[c].got = v /\ await'[c].ticket = await[c].ticket
  BY <1>1, <1>2 DEF Awaits
<1>4. \A d \in Awaiters \ {c} : await'[d] = await[d]
  BY <1>1
<1>5. await' \in [Awaiters -> Awaits]
  BY <1>1, <1>3, <1>4
<1> QED BY <1>3, <1>4, <1>5 DEF Owns

\* Await changes its caller, and puts a future back only when it is ready.
LEMMA AwaitKeeps ==
    ASSUME FutureInv, MaxAwaits = 1, NEW c \in Awaiters,
           AwaitEnter(c) \/ AwaitReady(c) \/ AwaitCancelled(c) \/ DropsFuture(c)
    PROVE  FutureInv'
<1> USE DEF FutureInv
<1>1. tasks' = tasks /\ tickets' = tickets /\ await[c] \in Awaits
  BY DEF AwaitEnter, AwaitReady, AwaitCancelled, DropsFuture, FutureType
<1>2. CASE AwaitEnter(c)
  <2>1. Owns(c) /\ await[c].f \in Futures
    BY <1>1, <1>2 DEF AwaitEnter, Owns, Owned, Awaits
  <2>2. /\ await'[c] \in Awaits
        /\ await'[c].f = await[c].f /\ await'[c].ticket = await[c].ticket
        /\ await'[c].got \in {await[c].got, Rejected}
        /\ \A d \in Awaiters \ {c} : await'[d] = await[d]
        /\ await' \in [Awaiters -> Awaits]
    BY <1>1, <1>2 DEF AwaitEnter, FutureType, Awaits, Rejected
  <2>3. /\ \A g \in Futures : fut'[g].val = fut[g].val /\ fut'[g].ready = fut[g].ready
        /\ fut' \in [Futures -> [val : Nat, ready : BOOLEAN, consumed : BOOLEAN]]
    <3>1. CASE fut' = fut
      BY <3>1 DEF FutureType
    <3>2. CASE fut' = [fut EXCEPT ![await[c].f].consumed = TRUE]
      BY <2>1, <3>2 DEF FutureType
    <3> QED BY <1>2, <3>1, <3>2 DEF AwaitEnter
  <2>4. pool' = pool
    BY <1>2 DEF AwaitEnter
  <2>5. \A d \in Awaiters : Owns(d)' => Owns(d)
    BY <2>1, <2>2 DEF Owns
  <2>6. FutureType'
    BY <1>1, <2>2, <2>3, <2>4 DEF FutureType
  <2>7. Owned'
    <3>1. await'[c].at = "wait" => await'[c].awaits = 1
      BY <1>1, <1>2, <2>1 DEF AwaitEnter, Owns, Owned, FutureType, Awaits
    <3> QED BY <2>2, <2>3, <2>4, <2>5, <3>1 DEF Owned
  <2>8. Written'
    BY <1>1, <2>2, <2>3, <2>4, <2>5 DEF Written, FutureType
  <2> QED BY <2>2, <2>6, <2>7, <2>8
<1>3. CASE AwaitReady(c) \/ AwaitCancelled(c) \/ DropsFuture(c)
  <2>1. /\ await'[c] \in Awaits /\ ~Owns(c)'
        /\ await'[c].got \in {NoResult, Rejected, await'[c].ticket}
        /\ \A d \in Awaiters \ {c} : await'[d] = await[d]
        /\ await' \in [Awaiters -> Awaits]
        /\ fut' = fut
    <3>1. CASE AwaitReady(c)
      <4>1. Owns(c) /\ await[c].awaits = 1
        BY <3>1 DEF AwaitReady, Owns, Owned
      <4>2. await' = [await EXCEPT ![c].at = "holds", ![c].got = fut[await[c].f].val]
        BY <3>1 DEF AwaitReady, AwaitReturns
      <4>3. fut[await[c].f].val \in Nat /\ fut[await[c].f].val \in {NoResult, Rejected, await[c].ticket}
        BY <4>1 DEF Owned, FutureType
      <4>4. fut' = fut
        BY <3>1 DEF AwaitReady
      <4> QED BY <4>1, <4>2, <4>3, <4>4, AwaitedType, ZenonT(30)
    <3>2. CASE AwaitCancelled(c)
      <4>1. await[c].awaits = 1
        BY <3>2 DEF AwaitCancelled, Owns, Owned
      <4>2. await' = [await EXCEPT ![c].at = "holds", ![c].got = Rejected] /\ fut' = fut
        BY <3>2 DEF AwaitCancelled, AwaitReturns
      <4> QED BY <4>1, <4>2, AwaitedType DEF Rejected
    <3>3. CASE DropsFuture(c)
      BY <1>1, <3>3 DEF DropsFuture, NoFuture, NoResult, Owns, FutureType, Awaits
    <3> QED BY <1>3, <3>1, <3>2, <3>3
  <2>2. \A d \in Awaiters : Owns(d)' => d # c /\ Owns(d)
    BY <2>1 DEF Owns
  <2>3. \A g \in pool' \ pool : Owns(c) /\ g = await[c].f /\ fut[g].ready = TRUE
    <3>1. CASE AwaitReady(c)
      <4>1. Owns(c) /\ await[c].f \in Futures /\ pool' = pool \cup {await[c].f}
        BY <3>1 DEF AwaitReady, Owns, Owned
      <4>2. fut[await[c].f].ready = TRUE
        BY <3>1, <4>1 DEF AwaitReady, FutureType
      <4> QED BY <4>1, <4>2
    <3> QED BY <1>3, <3>1 DEF AwaitCancelled, DropsFuture
  <2>4. FutureType'
    BY <1>1, <2>1, <2>3 DEF FutureType, Owned
  <2>5. Owned'
    BY <2>1, <2>2, <2>3 DEF Owned
  <2>6. Written'
    <3> SUFFICES ASSUME NEW t \in tasks
                 PROVE  /\ t.f \notin pool'
                        /\ \A d \in Awaiters :
                              Owns(d)' /\ await'[d].f = t.f => await'[d].ticket = t.ticket
      BY <1>1, <2>1 DEF Written
    <3>1. t.f \notin pool'
      BY <2>3 DEF Written
    <3> QED BY <2>1, <2>2, <3>1 DEF Written
  <2> QED BY <2>1, <2>4, <2>5, <2>6
<1> QED BY <1>2, <1>3

\* For goroutines that await what they were handed once, as many of them and of
\* futures as there may be: each gets its own task's result or an error, and no
\* task writes a future in the pool (NewFuture, Await).
THEOREM FuturesOwnResult ==
    ASSUME MaxAwaits = 1
    PROVE  FutureSpec => []OwnResult
<1>1. FutureInv /\ [FutureNext]_futureVars => FutureInv'
  <2> SUFFICES ASSUME FutureInv, [FutureNext]_futureVars
               PROVE  FutureInv'
    OBVIOUS
  <2>1. CASE \E c \in Awaiters : NewFuture(c)
    BY <2>1, NewFutureKeeps
  <2>2. CASE \E c \in Awaiters : AwaitEnter(c) \/ AwaitReady(c) \/ AwaitCancelled(c) \/ DropsFuture(c)
    BY <2>2, AwaitKeeps
  <2>3. CASE \E t \in tasks : TaskEnds(t)
    BY <2>3, TaskEndsKeeps
  <2>4. CASE UNCHANGED futureVars
    BY <2>4 DEF futureVars, FutureInv, FutureType, Owned, Written, Owns
  <2> QED BY <2>1, <2>2, <2>3, <2>4 DEF FutureNext
<1>2. FutureInv => OwnResult
  BY DEF FutureInv, Written, OwnResult
<1> QED BY <1>1, <1>2, FutureInvInit, PTL DEF FutureSpec

-------------------------------------------------------------------------------
(* The copy-on-write slice *)

\* Delete's loop is well defined, keeps elements of the slice, and never more than
\* there were: they fit the array it allocated.
LEMMA WithoutBound ==
    ASSUME NEW S, NEW s \in Seq(S), NEW e
    PROVE  Without(s, e) \in Seq(S) /\ Len(Without(s, e)) <= Len(s)
<1> DEFINE D == 0..Len(s)
           Step(f, i) == IF i = 0 THEN <<>>
                         ELSE IF s[i] = e THEN f[i - 1] ELSE Append(f[i - 1], s[i])
           Is(f) == f = [i \in D |-> Step(f, i)]
           kept == CHOOSE f : Is(f)
<1>1. \E f : Is(f)
  <2> DEFINE Upto(n) == {f \in [0..n -> Seq(S)] : \A i \in 0..n : f[i] = Step(f, i)}
             Bad == {n \in D : Upto(n) = {}}
  <2>1. Len(s) \in Nat /\ Bad \in SUBSET Nat /\ \A n \in D : n \in Bad <=> Upto(n) = {}
    <3> HIDE DEF Upto
    <3> QED OBVIOUS
  <2>2. \A n \in D : \A f : f \in Upto(n) <=>
            f \in [0..n -> Seq(S)] /\ \A i \in 0..n : f[i] = Step(f, i)
    OBVIOUS
  <2> HIDE DEF Upto, Bad
  <2>3. CASE Bad = {}
    <3>1. PICK f \in Upto(Len(s)) : TRUE
      BY <2>1, <2>3
    <3>2. f \in [D -> Seq(S)] /\ \A i \in D : f[i] = Step(f, i)
      BY <2>1, <2>2, <3>1
    <3>3. f = [i \in D |-> Step(f, i)]
      BY <3>2
    <3> QED BY <3>3
  <2>4. CASE Bad # {}
    <3>1. PICK n \in Bad : \A m \in Bad : n <= m
      BY <2>1, <2>4, Smallest
    <3>2. n \in D
      BY <3>1 DEF Bad
    <3>3. n # 0
      <4> DEFINE f == [i \in 0..0 |-> <<>>]
      <4>1. f \in [0..0 -> Seq(S)] /\ \A i \in 0..0 : f[i] = Step(f, i)
        OBVIOUS
      <4>2. 0 \in D
        BY <2>1
      <4> HIDE DEF f
      <4>3. f \in Upto(0)
        BY <2>2, <4>1, <4>2
      <4> QED BY <2>1, <3>1, <3>2, <4>3
    <3>4. n - 1 \in D /\ n - 1 \notin Bad
      BY <2>1, <3>1, <3>2, <3>3
    <3>5. PICK f \in Upto(n - 1) : TRUE
      BY <2>1, <3>4
    <3>6. f \in [0..(n - 1) -> Seq(S)] /\ \A i \in 0..(n - 1) : f[i] = Step(f, i)
      BY <2>2, <3>4, <3>5
    <3> DEFINE g == [i \in 0..n |-> IF i = n THEN Step(f, n) ELSE f[i]]
    <3>7. s[n] \in S /\ f[n - 1] \in Seq(S)
      BY <2>1, <3>2, <3>3, <3>6
    <3>8. Step(f, n) \in Seq(S)
      BY <3>3, <3>7
    <3>9. g \in [0..n -> Seq(S)]
      BY <2>1, <3>2, <3>6, <3>8
    <3>10. ASSUME NEW i \in 0..n PROVE g[i] = Step(g, i)
      <4>1. i # 0 => g[i - 1] = f[i - 1]
        BY <2>1, <3>2
      <4>2. g[i] = Step(f, i)
        <5>1. CASE i = n
          BY <2>1, <3>2, <5>1
        <5>2. CASE i # n
          <6>1. i \in 0..(n - 1) /\ g[i] = f[i]
            BY <2>1, <3>2, <5>2
          <6> QED BY <3>6, <6>1
        <5> QED BY <5>1, <5>2
      <4> HIDE DEF g
      <4> QED BY <4>1, <4>2
    <3>11. g \in Upto(n)
      BY <2>2, <3>2, <3>9, <3>10, ZenonT(30)
    <3> QED BY <2>1, <3>1, <3>2, <3>11
  <2> QED BY <2>3, <2>4
<1>2. Is(kept)
  BY <1>1, ZenonT(30)
<1>3. Without(s, e) = kept[Len(s)]
  BY DEF Without
<1> HIDE DEF kept
<1> DEFINE Fits(i) == kept[i] \in Seq(S) /\ Len(kept[i]) <= i
           Bad == {i \in D : ~Fits(i)}
<1>4. Len(s) \in Nat /\ Bad \in SUBSET Nat /\ \A i \in D : i \in Bad <=> ~Fits(i)
  OBVIOUS
<1>5. CASE Bad = {}
  <2>1. Fits(Len(s))
    BY <1>4, <1>5
  <2> QED BY <1>3, <2>1
<1>6. CASE Bad # {}
  <2>1. PICK n \in Bad : \A m \in Bad : n <= m
    <3> HIDE DEF Bad
    <3> QED BY <1>4, <1>6, Smallest
  <2>2. n \in D /\ kept[n] = Step(kept, n)
    BY <1>2, <2>1
  <2>3. n # 0
    <3>1. ~Fits(n)
      BY <1>4, <2>1, <2>2
    <3> HIDE DEF Bad
    <3>2. ASSUME n = 0 PROVE FALSE
      <4>1. kept[n] = <<>>
        BY <2>2, <3>2
      <4>2. Len(kept[n]) = 0 /\ kept[n] \in Seq(S)
        BY <4>1
      <4> QED BY <3>1, <3>2, <4>2
    <3> QED BY <3>2
  <2>4. Fits(n - 1) /\ s[n] \in S
    <3> HIDE DEF Bad, Fits
    <3> QED BY <1>4, <2>1, <2>2, <2>3
  <2>5. Fits(n)
    BY <1>4, <2>2, <2>3, <2>4
  <2> QED BY <1>4, <2>1, <2>2, <2>5
<1> QED BY <1>5, <1>6

Cells == Elems \cup {Zero}
Slices == [arr : Arrays \cup {0}, len : Nat]

\* A slice lies inside its array; nil has no elements.
Inside(s, h) == IF s.arr = 0 THEN s.len = 0 ELSE s.len <= Len(h[s.arr])

\* The inductive invariant: what Add writes lies behind every slice somebody holds,
\* because a reader's slice in the published array is no longer than the published
\* one.
SliceInv ==
    /\ heap \in [Arrays -> Seq(Cells)]
    /\ slice \in Slices /\ Inside(slice, heap)
    /\ list \in Seq(Cells)
    /\ view \in [Readers -> [s : Slices, saw : Seq(Cells)]]
    /\ \A r \in Readers :
        /\ Inside(view[r].s, heap)
        /\ view[r].s.arr = slice.arr => view[r].s.len <= slice.len
    /\ SnapshotsStable

\* The invariant holds of the empty slice.
LEMMA SliceInvInit == SliceInit => SliceInv
<1> SUFFICES ASSUME SliceInit PROVE SliceInv
  OBVIOUS
<1>1. NoSlice \in Slices
  BY DEF NoSlice, Slices
<1>2. NoSlice.arr = 0 /\ NoSlice.len = 0
  BY DEF NoSlice
<1>3. \A r \in Readers : view[r] = [s |-> NoSlice, saw |-> <<>>]
  BY DEF SliceInit
<1>4. \A r \in Readers : view[r].s = NoSlice /\ view[r].saw = <<>>
  BY <1>3
<1>5. view \in [Readers -> [s : Slices, saw : Seq(Cells)]]
  <2> DEFINE v == [s |-> NoSlice, saw |-> <<>>]
  <2>1. v \in [s : Slices, saw : Seq(Cells)]
    BY <1>1
  <2> HIDE DEF v
  <2>2. view = [r \in Readers |-> v]
    BY DEF SliceInit, v
  <2> QED BY <2>1, <2>2
<1> QED BY <1>1, <1>2, <1>4, <1>5 DEF SliceInit, SliceInv, Inside, SnapshotsStable, Content

\* A slice's elements are as many as it says.
LEMMA ContentType ==
    ASSUME NEW h \in [Arrays -> Seq(Cells)], NEW s \in Slices, Inside(s, h),
           h = heap
    PROVE  /\ Content(s) \in Seq(Cells) /\ Len(Content(s)) = s.len
           /\ \A i \in 1..s.len : Content(s)[i] = h[s.arr][i] /\ s.arr # 0
<1>1. CASE s.arr = 0
  BY <1>1 DEF Content, Inside, Slices
<1>2. CASE s.arr # 0
  <2>1. h[s.arr] \in Seq(Cells) /\ s.len \in Nat /\ s.len <= Len(h[s.arr])
    BY <1>2 DEF Inside, Slices
  <2>2. Content(s) = SubSeq(h[s.arr], 1, s.len)
    BY <1>2 DEF Content
  <2> QED BY <1>2, <2>1, <2>2
<1> QED BY <1>1, <1>2

\* There is always an array to build in: one for the published slice, one for
\* each reader, and one more.
LEMMA GarbageLeft ==
    ASSUME SliceInv
    PROVE  Garbage # {}
<1> DEFINE n == Cardinality(Readers)
           f == [r \in Readers |-> view[r].s.arr]
           Bad == {view[r].s.arr : r \in Readers}
<1>1. f \in Surjection(Readers, Bad)
  BY DEF Surjection
<1>2. IsFiniteSet(Readers) /\ n \in Nat
  BY SliceAssumption, FS_CardinalityType
<1> HIDE DEF f
<1>3. IsFiniteSet(Bad) /\ Cardinality(Bad) <= n
  <2> HIDE DEF Bad, n
  <2>1. IsFiniteSet(Bad) /\ Cardinality(Bad) <= Cardinality(Readers)
    BY <1>1, <1>2, FS_Surjection
  <2> QED BY <2>1 DEF n
<1> HIDE DEF n
<1>4. Arrays = 1..(n + 2)
  BY DEF Arrays, n
<1> HIDE DEF Bad
<1>5. Cardinality(Bad) \in Nat
  BY <1>3, FS_CardinalityType
<1>6. IsFiniteSet(Bad \cup {slice.arr}) /\ Cardinality(Bad \cup {slice.arr}) <= n + 1
  BY <1>2, <1>3, <1>5, FS_AddElement, SMTT(30)
<1>7. Cardinality(Arrays) = n + 2
  <2>1. n + 2 \in Int /\ 1 <= n + 2
    BY <1>2
  <2>2. Cardinality(1..(n + 2)) = n + 2
    BY <2>1, FS_Interval
  <2> QED BY <1>4, <2>2
<1>8. ASSUME Arrays \subseteq Bad \cup {slice.arr} PROVE FALSE
  <2>1. Cardinality(Arrays) <= Cardinality(Bad \cup {slice.arr})
    BY <1>6, <1>8, FS_Subset
  <2>2. Cardinality(Bad \cup {slice.arr}) \in Nat
    BY <1>6, FS_CardinalityType
  <2> QED BY <1>2, <1>6, <1>7, <2>1, <2>2
<1> QED BY <1>8 DEF Garbage, Bad

\* Publishing a new array keeps the invariant: it is one that nobody reaches.
LEMMA PublishKeeps ==
    ASSUME SliceInv, NEW s \in Seq(Cells), NEW cap \in Nat, Len(s) <= cap,
           Publish(s, cap), Becomes(s)
    PROVE  SliceInv'
<1>1. PICK new \in Garbage :
        /\ slice' = [arr |-> new, len |-> Len(s)]
        /\ heap' = [a \in Arrays |->
                      IF a = new THEN [i \in 1..cap |-> IF i <= Len(s) THEN s[i] ELSE Zero]
                      ELSE IF \E r \in Readers : view[r].s.arr = a THEN heap[a] ELSE <<>>]
  BY GarbageLeft DEF Publish
<1> DEFINE built == [i \in 1..cap |-> IF i <= Len(s) THEN s[i] ELSE Zero]
<1>2. new \in Arrays /\ new # 0 /\ \A r \in Readers : view[r].s.arr # new
  <2>1. new \in Arrays
    BY <1>1 DEF Garbage
  <2>2. 0 \notin Arrays
    BY SliceAssumption, FS_CardinalityType DEF Arrays
  <2> QED BY <1>1, <2>1, <2>2 DEF Garbage
<1>3. built \in Seq(Cells) /\ Len(built) = cap /\ SubSeq(built, 1, Len(s)) = s
  <2>1. \A i \in 1..cap : built[i] \in Cells
    BY DEF Cells
  <2>2. built \in Seq(Cells) /\ Len(built) = cap
    BY <2>1
  <2>3. \A i \in 1..Len(s) : SubSeq(built, 1, Len(s))[i] = s[i]
    BY <2>2
  <2>4. Len(SubSeq(built, 1, Len(s))) = Len(s) /\ SubSeq(built, 1, Len(s)) \in Seq(Cells)
    <3> HIDE DEF built
    <3> QED BY <2>2
  <2> HIDE DEF built
  <2> QED BY <2>2, <2>3, <2>4
<1>4. heap'[new] = built /\ heap' \in [Arrays -> Seq(Cells)]
      /\ \A r \in Readers : view[r].s.arr # 0 => heap'[view[r].s.arr] = heap[view[r].s.arr]
  <2>1. heap \in [Arrays -> Seq(Cells)] /\ view \in [Readers -> [s : Slices, saw : Seq(Cells)]]
    BY DEF SliceInv
  <2> HIDE DEF built
  <2>2. heap' = [a \in Arrays |-> IF a = new THEN built
                    ELSE IF \E r \in Readers : view[r].s.arr = a THEN heap[a] ELSE <<>>]
    BY <1>1 DEF built
  <2>3. heap'[new] = built
    BY <1>2, <2>2
  <2>4. ASSUME NEW a \in Arrays PROVE heap'[a] \in Seq(Cells)
    <3>1. <<>> \in Seq(Cells) /\ heap[a] \in Seq(Cells) /\ built \in Seq(Cells)
      BY <1>3, <2>1
    <3>2. heap'[a] \in {built, heap[a], <<>>}
      BY <2>2
    <3> QED BY <3>1, <3>2
  <2>5. heap' \in [Arrays -> Seq(Cells)]
    BY <2>2, <2>4
  <2>6. ASSUME NEW r \in Readers, view[r].s.arr # 0
        PROVE  heap'[view[r].s.arr] = heap[view[r].s.arr]
    <3>1. view[r].s.arr \in Arrays
      BY <2>1, <2>6 DEF Slices
    <3> QED BY <1>2, <2>2, <3>1
  <2> QED BY <2>3, <2>5, <2>6
<1>5. slice' \in Slices /\ slice'.arr = new /\ slice'.len = Len(s)
  BY <1>1, <1>2 DEF Slices
<1> HIDE DEF built
<1>6. view' = view /\ list' = s
  BY DEF Becomes
<1>7. Inside(slice, heap)' /\ Content(slice)' = s
  BY <1>2, <1>3, <1>4, <1>5 DEF Inside, Content
<1>8. ASSUME NEW r \in Readers
      PROVE  /\ Inside(view'[r].s, heap') /\ view'[r].s.arr # slice'.arr
             /\ Content(view[r].s)' = view'[r].saw
  <2>1. Inside(view[r].s, heap) /\ Content(view[r].s) = view[r].saw
    BY DEF SliceInv, SnapshotsStable
  <2> QED BY <1>2, <1>4, <1>5, <1>6, <2>1 DEF Inside, Content
<1> QED BY <1>4, <1>5, <1>6, <1>7, <1>8 DEF SliceInv, SnapshotsStable

\* Add into spare capacity: the new element lies behind what anybody holds.
LEMMA AppendKeeps ==
    ASSUME SliceInv, NEW e \in Cells, slice.arr # 0, slice.len < Len(heap[slice.arr]),
           heap' = [heap EXCEPT ![slice.arr][slice.len + 1] = e],
           slice' = [slice EXCEPT !.len = @ + 1],
           Becomes(Append(list, e))
    PROVE  SliceInv'
<1> DEFINE a == slice.arr
           n == slice.len
<1>1. /\ heap \in [Arrays -> Seq(Cells)] /\ slice \in Slices
      /\ view \in [Readers -> [s : Slices, saw : Seq(Cells)]]
      /\ Content(slice) = list /\ list \in Seq(Cells)
  BY DEF SliceInv, SnapshotsStable
<1>2. a \in Arrays /\ n \in Nat /\ heap[a] \in Seq(Cells) /\ n < Len(heap[a]) /\ a # 0
  BY <1>1 DEF Slices
<1>3. slice' \in Slices /\ slice'.arr = a /\ slice'.len = n + 1
  <2>1. slice' = [slice EXCEPT !.len = n + 1] /\ n + 1 \in Nat
    BY <1>1, <1>2 DEF Slices
  <2>2. slice \in [arr : Arrays \cup {0}, len : Nat]
    BY <1>1 DEF Slices
  <2> HIDE DEF n
  <2> QED BY <2>1, <2>2 DEF Slices
<1> HIDE DEF a, n
<1>4. heap' = [heap EXCEPT ![a] = [heap[a] EXCEPT ![n + 1] = e]]
  BY <1>1 DEF a, n
<1>5. /\ heap'[a] = [heap[a] EXCEPT ![n + 1] = e]
      /\ \A b \in Arrays \ {a} : heap'[b] = heap[b]
  BY <1>1, <1>2, <1>4
<1>6. /\ heap'[a] \in Seq(Cells) /\ Len(heap'[a]) = Len(heap[a])
      /\ heap'[a][n + 1] = e
      /\ \A i \in 1..Len(heap[a]) : i # n + 1 => heap'[a][i] = heap[a][i]
  <2> DEFINE h == heap[a]
  <2>1. h \in Seq(Cells) /\ n + 1 \in 1..Len(h) /\ heap'[a] = [h EXCEPT ![n + 1] = e]
    BY <1>2, <1>5
  <2> HIDE DEF h
  <2>2. [h EXCEPT ![n + 1] = e] \in Seq(Cells) /\ Len([h EXCEPT ![n + 1] = e]) = Len(h)
    BY <2>1
  <2>3. /\ [h EXCEPT ![n + 1] = e][n + 1] = e
        /\ \A i \in 1..Len(h) : i # n + 1 => [h EXCEPT ![n + 1] = e][i] = h[i]
    BY <2>1
  <2> QED BY <2>1, <2>2, <2>3 DEF h
<1>7. heap' \in [Arrays -> Seq(Cells)]
  BY <1>1, <1>2, <1>4, <1>6
<1>8. ASSUME NEW k \in 0..n PROVE SubSeq(heap'[a], 1, k) = SubSeq(heap[a], 1, k)
  <2>1. \A i \in 1..k : heap'[a][i] = heap[a][i]
    BY <1>2, <1>6
  <2>2. SubSeq(heap'[a], 1, k) \in Seq(Cells) /\ SubSeq(heap[a], 1, k) \in Seq(Cells)
        /\ Len(SubSeq(heap'[a], 1, k)) = k /\ Len(SubSeq(heap[a], 1, k)) = k
    BY <1>2, <1>6
  <2>3. \A i \in 1..k : SubSeq(heap'[a], 1, k)[i] = SubSeq(heap[a], 1, k)[i]
    BY <1>2, <1>6, <2>1
  <2> QED BY <2>2, <2>3, SMTT(30)
<1>9. SubSeq(heap'[a], 1, n + 1) = Append(SubSeq(heap[a], 1, n), e)
  <2> DEFINE s == SubSeq(heap'[a], 1, n + 1)
             t == SubSeq(heap[a], 1, n)
  <2>1. s \in Seq(Cells) /\ Len(s) = n + 1 /\ \A i \in 1..(n + 1) : s[i] = heap'[a][i]
    BY <1>2, <1>6
  <2>2. t \in Seq(Cells) /\ Len(t) = n /\ \A i \in 1..n : t[i] = heap[a][i]
    BY <1>2
  <2> HIDE DEF s, t
  <2>3. \A i \in 1..(n + 1) : s[i] = Append(t, e)[i]
    BY <1>2, <1>6, <2>1, <2>2
  <2>4. Append(t, e) \in Seq(Cells) /\ Len(Append(t, e)) = n + 1
    BY <2>2
  <2>5. s = Append(t, e)
    BY <1>2, <2>1, <2>3, <2>4
  <2> QED BY <2>5 DEF s, t
<1>10. view' = view /\ list' = Append(list, e)
  BY DEF Becomes
<1>11. Content(slice) = SubSeq(heap[a], 1, n)
  BY <1>2 DEF Content, a, n
<1>12. Inside(slice, heap)' /\ Content(slice)' = list' /\ list' \in Seq(Cells)
  <2>1. n + 1 <= Len(heap'[a])
    BY <1>2, <1>6
  <2>2. Inside(slice, heap)'
    BY <1>2, <1>3, <2>1 DEF Inside
  <2>3. Content(slice)' = SubSeq(heap'[a], 1, n + 1)
    BY <1>2, <1>3 DEF Content
  <2>4. list' = Append(SubSeq(heap[a], 1, n), e)
    BY <1>1, <1>10, <1>11
  <2>5. list' \in Seq(Cells)
    BY <1>1, <1>10
  <2> QED BY <1>9, <2>2, <2>3, <2>4, <2>5
<1>13. ASSUME NEW r \in Readers
       PROVE  /\ Inside(view'[r].s, heap')
              /\ view'[r].s.arr = slice'.arr => view'[r].s.len <= slice'.len
              /\ Content(view[r].s)' = view'[r].saw
  <2>1. /\ Inside(view[r].s, heap) /\ Content(view[r].s) = view[r].saw
        /\ view[r].s.arr = slice.arr => view[r].s.len <= slice.len
        /\ view[r].s \in Slices
    BY <1>1 DEF SliceInv, SnapshotsStable
  <2>2. view[r].s.arr \in Arrays \cup {0} /\ view[r].s.len \in Nat
    BY <2>1 DEF Slices
  <2>3. CASE view[r].s.arr = a
    <3>1. view[r].s.len \in 0..n
      BY <1>2, <2>1, <2>2, <2>3 DEF a, n
    <3> QED BY <1>2, <1>3, <1>6, <1>8, <1>10, <2>1, <2>3, <3>1, SMTT(30) DEF Inside, Content
  <2>4. CASE view[r].s.arr # a
    BY <1>3, <1>5, <1>10, <2>1, <2>2, <2>4 DEF Inside, Content
  <2> QED BY <2>3, <2>4
<1> QED BY <1>3, <1>7, <1>10, <1>1, <1>12, <1>13 DEF SliceInv, SnapshotsStable

\* Every writer either appends behind what readers hold or publishes a new array.
LEMMA WritesKeep ==
    ASSUME SliceInv, NEW e \in Elems, NEW i \in Nat,
           Add(e) \/ Delete(e) \/ AddIndex(i, e) \/ Set(i, e)
    PROVE  SliceInv'
<1>1. /\ Content(slice) = list /\ list \in Seq(Cells) /\ Len(list) = slice.len
      /\ slice.len \in Nat /\ e \in Cells /\ slice \in Slices
  BY ContentType DEF SliceInv, SnapshotsStable, Slices, Cells
<1>2. CASE Add(e)
  <2>1. CASE slice.arr # 0 /\ slice.len < Len(heap[slice.arr])
    BY <1>1, <1>2, <2>1, AppendKeeps DEF Add
  <2>2. CASE ~(slice.arr # 0 /\ slice.len < Len(heap[slice.arr]))
    <3>1. PICK cap \in (slice.len + 1)..MaxCap : Publish(Append(list, e), cap)
      BY <1>1, <1>2, <2>2 DEF Add
    <3>2. Append(list, e) \in Seq(Cells) /\ Len(Append(list, e)) = slice.len + 1 /\ cap \in Nat
          /\ slice.len + 1 <= cap
      BY <1>1, <3>1, SliceAssumption
    <3> QED BY <1>2, <3>1, <3>2, PublishKeeps DEF Add
  <2> QED BY <2>1, <2>2
<1>3. CASE Delete(e)
  <2>1. Without(list, e) \in Seq(Cells) /\ Len(Without(list, e)) <= slice.len
    BY <1>1, WithoutBound
  <2> QED BY <1>1, <1>3, <2>1, PublishKeeps DEF Delete
<1>4. CASE AddIndex(i, e)
  <2> DEFINE at == IF i > Len(list) THEN Len(list) ELSE i
             s == SubSeq(list, 1, at) \o <<e>> \o SubSeq(list, at + 1, Len(list))
  <2>1. Publish(s, Len(list) + 1) /\ Becomes(s)
    BY <1>1, <1>4 DEF AddIndex
  <2>2. at \in 0..Len(list)
    BY <1>1
  <2> HIDE DEF at
  <2>3. SubSeq(list, 1, at) \in Seq(Cells) /\ Len(SubSeq(list, 1, at)) = at
    BY <1>1, <2>2
  <2>4. SubSeq(list, at + 1, Len(list)) \in Seq(Cells)
        /\ Len(SubSeq(list, at + 1, Len(list))) = Len(list) - at
    BY <1>1, <2>2
  <2>5. s \in Seq(Cells) /\ Len(s) = Len(list) + 1
    <3> DEFINE p == SubSeq(list, 1, at)
               q == SubSeq(list, at + 1, Len(list))
    <3>1. p \in Seq(Cells) /\ Len(p) = at /\ q \in Seq(Cells) /\ Len(q) = Len(list) - at
      BY <2>3, <2>4
    <3> HIDE DEF p, q
    <3>2. p \o <<e>> \in Seq(Cells) /\ Len(p \o <<e>>) = at + 1
      BY <1>1, <2>2, <3>1
    <3>3. p \o <<e>> \o q \in Seq(Cells) /\ Len(p \o <<e>> \o q) = at + 1 + (Len(list) - at)
      BY <3>1, <3>2
    <3>4. at + 1 + (Len(list) - at) = Len(list) + 1
      BY <1>1, <2>2
    <3> QED BY <3>3, <3>4 DEF p, q
  <2> HIDE DEF s
  <2> QED BY <1>1, <2>1, <2>5, PublishKeeps
<1>5. CASE Set(i, e)
  <2>1. [list EXCEPT ![i] = e] \in Seq(Cells) /\ Len([list EXCEPT ![i] = e]) = slice.len
    BY <1>1, <1>5 DEF Set
  <2> QED BY <1>1, <1>5, <2>1, PublishKeeps DEF Set
<1> QED BY <1>2, <1>3, <1>4, <1>5

\* DeleteIndex publishes what is left.
LEMMA DeleteIndexKeeps ==
    ASSUME SliceInv, NEW i \in Nat, DeleteIndex(i)
    PROVE  SliceInv'
<1> DEFINE s == SubSeq(list, 1, i - 1) \o SubSeq(list, i + 1, Len(list))
           p == SubSeq(list, 1, i - 1)
           q == SubSeq(list, i + 1, Len(list))
<1>1. /\ Content(slice) = list /\ list \in Seq(Cells) /\ Len(list) = slice.len
      /\ slice.len \in Nat /\ slice \in Slices
  BY ContentType DEF SliceInv, SnapshotsStable, Slices
<1>2. i \in 1..slice.len /\ Publish(s, slice.len - 1) /\ Becomes(s)
  BY <1>1 DEF DeleteIndex
<1>3. p \in Seq(Cells) /\ Len(p) = i - 1 /\ q \in Seq(Cells) /\ Len(q) = Len(list) - i
  BY <1>1, <1>2
<1>4. s = p \o q
  OBVIOUS
<1> HIDE DEF p, q, s
<1>5. s \in Seq(Cells) /\ Len(s) = (i - 1) + (Len(list) - i)
  <2>1. p \in Seq(Cells) /\ q \in Seq(Cells)
    BY <1>3
  <2>2. p \o q \in Seq(Cells) /\ Len(p \o q) = Len(p) + Len(q)
    BY <2>1
  <2> QED BY <1>3, <1>4, <2>2
<1>6. Len(s) = slice.len - 1 /\ slice.len - 1 \in Nat
  BY <1>1, <1>2, <1>5
<1> QED BY <1>2, <1>5, <1>6, PublishKeeps

\* A reader takes the published slice as it is.
LEMMA ValueKeeps ==
    ASSUME SliceInv, NEW r \in Readers, Value(r)
    PROVE  SliceInv'
<1>1. /\ heap' = heap /\ slice' = slice /\ list' = list
      /\ view' = [view EXCEPT ![r] = [s |-> slice, saw |-> Content(slice)]]
  BY DEF Value
<1>2. slice \in Slices /\ Content(slice) = list /\ list \in Seq(Cells) /\ Inside(slice, heap)
      /\ slice.len \in Nat
  BY DEF SliceInv, SnapshotsStable, Slices
<1>3. view \in [Readers -> [s : Slices, saw : Seq(Cells)]]
  BY DEF SliceInv
<1>4. view'[r].s = slice /\ view'[r].saw = list /\ view'[r] \in [s : Slices, saw : Seq(Cells)]
  BY <1>1, <1>2, <1>3
<1>5. \A q \in Readers \ {r} : view'[q] = view[q]
  BY <1>1, <1>3
<1>6. view' \in [Readers -> [s : Slices, saw : Seq(Cells)]]
  BY <1>1, <1>3, <1>4, <1>5
<1>8. ASSUME NEW q \in Readers
      PROVE  /\ Inside(view'[q].s, heap')
             /\ view'[q].s.arr = slice'.arr => view'[q].s.len <= slice'.len
             /\ Content(view[q].s)' = view'[q].saw
  <2>1. CASE q = r
    <3>1. Content(view[q].s)' = Content(slice)
      BY <1>1, <1>4, <2>1 DEF Content
    <3> QED BY <1>1, <1>2, <1>4, <2>1, <3>1
  <2>2. CASE q # r
    BY <1>1, <1>5, <2>2 DEF Content, SliceInv, SnapshotsStable
  <2> QED BY <2>1, <2>2
<1>9. Content(slice)' = list'
  BY <1>1, <1>2 DEF Content
<1> QED BY <1>1, <1>2, <1>6, <1>8, <1>9 DEF SliceInv, SnapshotsStable

\* For any number of readers, elements and any capacity the runtime chooses: what a
\* reader holds never changes, and the published slice is the sequence the calls
\* describe (Add, AddIndex, Delete, DeleteIndex, Set, Value).
THEOREM SliceSnapshots == SliceSpec => []SnapshotsStable
<1>1. SliceInv /\ [SliceNext]_sliceVars => SliceInv'
  <2> SUFFICES ASSUME SliceInv, [SliceNext]_sliceVars
               PROVE  SliceInv'
    OBVIOUS
  <2>1. ASSUME NEW e \in Elems, NEW i \in Nat,
               Add(e) \/ Delete(e) \/ AddIndex(i, e) \/ Set(i, e)
        PROVE  SliceInv'
    BY <2>1, WritesKeep
  <2>2. ASSUME NEW i \in 1..MaxCap, DeleteIndex(i) PROVE SliceInv'
    <3>1. i \in Nat /\ slice.len \in Nat
      BY <2>2, SliceAssumption DEF SliceInv, Slices
    <3> QED BY <2>2, <3>1, DeleteIndexKeeps
  <2>3. CASE \E r \in Readers : Value(r)
    BY <2>3, ValueKeeps
  <2>4. CASE UNCHANGED sliceVars
    BY <2>4 DEF sliceVars, SliceInv, SnapshotsStable, Content
  <2>5. \A i \in 0..MaxCap : i \in Nat
    BY SliceAssumption
  <2> QED BY <2>1, <2>2, <2>3, <2>4, <2>5 DEF SliceNext
<1>2. SliceInv => SnapshotsStable
  BY DEF SliceInv
<1> QED BY <1>1, <1>2, SliceInvInit, PTL DEF SliceSpec

-------------------------------------------------------------------------------
(* Calls of services and their transactions *)

Frames == [call : Calls, pos : Nat, bound : Calls \cup {"nil"}, tx : BOOLEAN, opens : BOOLEAN,
           unit : Nat, begins : BOOLEAN]

\* Types of all state.
CallType ==
    /\ chain \in [Calls -> Seq(Kinds)] /\ info \in [Calls -> [locked : BOOLEAN, tp : {Propagation(Tag[c]) : c \in Calls} \cup {"nil"}]]
    /\ stack \in Seq(Frames)
    /\ ret \in {"running", "ok", "error", "panic"}
    /\ outcome \in Seq({"none", "ok", "error", "panic"})
    /\ durable \subseteq written /\ buffer \subseteq written
    /\ \A w \in written : w.unit \in 0..Len(outcome)
    /\ current \in Nat

Requires(c) == Propagation(Tag[c]) = "REQUIRED"

\* The chain of a call begins with its binder, and has the transaction middleware
\* if the call requires a transaction.
ChainInv ==
    \A c \in Calls : chain[c] # <<>> =>
        /\ chain[c][1] = "bind" /\ info[c].tp = Propagation(Tag[c])
        /\ Requires(c) => \E p \in 1..Len(chain[c]) : chain[c][p] = "tx"

\* One frame: from the binder on it is bound to its call; a transaction is that
\* of its unit; a frame of a unit that has no transaction yet comes before the
\* middleware that opens one.
FrameOK(f) ==
    /\ chain[f.call] # <<>> /\ f.pos \in 1..(Len(chain[f.call]) + 1)
    /\ f.pos > 1 => f.bound = f.call
    /\ f.unit <= Len(outcome)
    /\ f.begins => f.pos = 1 /\ f.unit # 0
    /\ f.opens => ~f.tx /\ f.pos > 1 /\ ~Handles(f)
    /\ f.opens \/ f.tx => f.unit = current /\ f.unit # 0
    /\ Requires(f.call) => f.unit # 0
    /\ f.unit # 0 /\ ~f.tx =>
          Requires(f.call) /\ \E p \in f.pos..Len(chain[f.call]) : chain[f.call][p] = "tx"

\* The frames: what is above the frame that opened the transaction is in it, and
\* what is above the frame that began the unit is in the unit.
StackInv ==
    /\ \A i \in DOMAIN stack : FrameOK(stack[i])
    /\ \A i, j \in DOMAIN stack : i < j =>
          /\ stack[i].opens => stack[j].tx
          /\ stack[i].unit # 0 => stack[j].unit = stack[i].unit /\ ~stack[j].begins
    /\ \A j \in DOMAIN stack :
          /\ stack[j].tx => \E i \in DOMAIN stack : i < j /\ stack[i].opens
          /\ stack[j].unit # 0 => \E i \in DOMAIN stack : i <= j /\ stack[i].begins
    /\ current # 0 => \E i \in DOMAIN stack : stack[i].opens
    /\ stack # <<>> /\ ret = "running" => ~Top.opens

\* What a result says of the writes of unit u.
Settled(u, how) ==
    \A w \in written : w.unit = u =>
        /\ how = "ok" => w \in durable
        /\ how \in {"error", "panic"} => w \notin durable

\* Told outcomes are true; the unit under way has not been told, and its writes
\* are in the transaction; if that has ended, the result coming up is true.
UnitInv ==
    /\ \A u \in 1..Len(outcome) : Settled(u, outcome[u])
    /\ current = 0 => buffer = {}
    /\ current # 0 => \A w \in written : (w.unit = current <=> w \in buffer)
                                         /\ (w.unit = current => w \notin durable)
    /\ stack # <<>> /\ Top.unit # 0 =>
          /\ outcome[Top.unit] = "none"
          /\ current = 0 => /\ ret = "running" => \A w \in written : w.unit # Top.unit
                            /\ Settled(Top.unit, ret)

CallInv == CallType /\ ChainInv /\ StackInv /\ UnitInv

-------------------------------------------------------------------------------
(* Building *)

\* At first nothing is built and nothing runs.
LEMMA CallBoot == CallInit => CallInv
<1> SUFFICES ASSUME CallInit PROVE CallInv
  OBVIOUS
<1> USE DEF CallInit
<1>1. CallType
  <2>1. <<>> \in Seq(Kinds) /\ stack \in Seq(Frames) /\ outcome \in Seq({"none", "ok", "error", "panic"})
    OBVIOUS
  <2>2. chain \in [Calls -> Seq(Kinds)]
    BY <2>1
  <2>3. info \in [Calls -> [locked : BOOLEAN, tp : {Propagation(Tag[c]) : c \in Calls} \cup {"nil"}]]
    OBVIOUS
  <2> QED BY <2>1, <2>2, <2>3 DEF CallType
<1>2. ChainInv
  BY DEF ChainInv
<1>3. StackInv
  BY DEF StackInv
<1>4. UnitInv
  BY DEF UnitInv
<1> QED BY <1>1, <1>2, <1>3, <1>4 DEF CallInv

\* The middlewares a chain is made of: the binder first, then those of Globals
\* and Custom.
LEMMA MiddlewaresAre ==
    ASSUME NEW c \in Calls
    PROVE  LET mws == Middlewares(c)
           IN  /\ Len(mws) \in Nat /\ DOMAIN mws = 1..Len(mws) /\ Len(mws) >= 1
               /\ mws[1] = [kind |-> "bind", order |-> MinInt]
               /\ \A i \in DOMAIN mws : i # 1 => mws[i] \in Provided
               /\ \A mw \in Range(Globals) \cup Range(Custom[c]) : \E i \in DOMAIN mws : mws[i] = mw
<1> DEFINE S == [kind : Kinds, order : Int]
           b == [kind |-> "bind", order |-> MinInt]
           t == Globals \o Custom[c]
<1>1. Globals \in Seq(Provided) /\ Custom[c] \in Seq(Provided)
  BY ServiceCallAssumption
<1>2. /\ t \in Seq(Provided) /\ Len(t) = Len(Globals) + Len(Custom[c])
      /\ \A i \in 1..Len(Globals) : t[i] = Globals[i]
      /\ \A j \in 1..Len(Custom[c]) : t[Len(Globals) + j] = Custom[c][j]
  BY <1>1, ConcatAt
<1>3. t \in Seq(S) /\ b \in S
  <2>1. Provided \subseteq S
    BY DEF Provided
  <2>2. b \in S
    BY DEF MinInt, Kinds
  <2> HIDE DEF t, b, S
  <2>3. t \in Seq(S)
    BY <1>2, <2>1
  <2> QED BY <2>2, <2>3
<1> HIDE DEF t, b, S
<1>4. /\ <<b>> \o t \in Seq(S) /\ Len(<<b>> \o t) = Len(t) + 1 /\ (<<b>> \o t)[1] = b
      /\ \A i \in 1..Len(t) : (<<b>> \o t)[i + 1] = t[i]
  BY <1>3, Prepended
<1> DEFINE mws == <<b>> \o t
<1>5. Middlewares(c) = mws
  BY DEF Middlewares, b, t
<1> HIDE DEF mws
<1>6. mws \in Seq(S) /\ Len(mws) = Len(t) + 1 /\ mws[1] = b /\ (\A i \in 1..Len(t) : mws[i + 1] = t[i])
  BY <1>4 DEF mws
<1>7. Len(t) \in Nat /\ Len(mws) \in Nat /\ DOMAIN mws = 1..Len(mws) /\ Len(mws) >= 1
  BY <1>3, <1>6
<1>8. ASSUME NEW i \in DOMAIN mws, i # 1 PROVE mws[i] \in Provided
  <2>1. i - 1 \in 1..Len(t) /\ (i - 1) + 1 = i
    BY <1>6, <1>7, <1>8
  <2>2. mws[i] = t[i - 1]
    BY <2>1, <1>6
  <2>3. t[i - 1] \in Provided
    BY <2>1, <1>2
  <2> QED BY <2>2, <2>3
<1>9. ASSUME NEW mw \in Range(Globals) \cup Range(Custom[c]) PROVE \E i \in DOMAIN mws : mws[i] = mw
  <2>1. Len(Globals) \in Nat /\ DOMAIN Globals = 1..Len(Globals)
        /\ Len(Custom[c]) \in Nat /\ DOMAIN Custom[c] = 1..Len(Custom[c])
    BY <1>1
  <2>2. \E i \in 1..Len(t) : t[i] = mw
    <3>1. CASE mw \in Range(Globals)
      <4>1. PICK i \in 1..Len(Globals) : Globals[i] = mw
        BY <3>1, <2>1 DEF Range
      <4> QED BY <4>1, <2>1, <1>2
    <3>2. CASE mw \in Range(Custom[c])
      <4>1. PICK j \in 1..Len(Custom[c]) : Custom[c][j] = mw
        BY <3>2, <2>1 DEF Range
      <4>2. Len(Globals) + j \in 1..Len(t) /\ t[Len(Globals) + j] = mw
        BY <4>1, <2>1, <1>2
      <4> QED BY <4>2
    <3> QED BY <3>1, <3>2
  <2>3. PICK i \in 1..Len(t) : t[i] = mw
    BY <2>2
  <2>4. i + 1 \in DOMAIN mws /\ mws[i + 1] = mw
    BY <2>3, <1>6, <1>7
  <2> QED BY <2>4
<1> QED BY <1>5, <1>6, <1>7, <1>8, <1>9 DEF b

\* Whatever sort.Sort does with equal orders, the binder comes first, and who
\* requires a transaction gets the middleware for it.
LEMMA ChainsAre ==
    ASSUME NEW c \in Calls, NEW s \in Chains(c, Propagation(Tag[c]))
    PROVE  /\ s \in Seq(Kinds) /\ s # <<>> /\ s[1] = "bind"
           /\ Requires(c) => \E p \in 1..Len(s) : s[p] = "tx"
<1> DEFINE mws == Middlewares(c)
           tp == Propagation(Tag[c])
           fit == {i \in DOMAIN mws : Condition(mws[i], tp)}
           n == Cardinality(fit)
<1>1. PICK p \in [1..n -> fit] :
         /\ Range(p) = fit /\ s = [i \in DOMAIN p |-> mws[p[i]].kind]
         /\ \A i, j \in DOMAIN p : i < j => mws[p[i]].order <= mws[p[j]].order
  BY DEF Chains
<1>2. /\ Len(mws) \in Nat /\ DOMAIN mws = 1..Len(mws) /\ Len(mws) >= 1
      /\ mws[1] = [kind |-> "bind", order |-> MinInt]
      /\ \A i \in DOMAIN mws : i # 1 => mws[i] \in Provided
      /\ \A mw \in Range(Globals) \cup Range(Custom[c]) : \E i \in DOMAIN mws : mws[i] = mw
  BY MiddlewaresAre
<1> HIDE DEF mws
<1>3. n \in Nat
  <2>1. IsFiniteSet(1..Len(mws)) /\ fit \subseteq 1..Len(mws)
    BY <1>2, FS_Interval
  <2>2. IsFiniteSet(fit)
    BY <2>1, FS_Subset
  <2> QED BY <2>2, FS_CardinalityType
<1>4. mws[1].kind = "bind" /\ mws[1].order = -1 /\ 1 \in DOMAIN mws
  BY <1>2 DEF MinInt
<1>5. 1 \in fit
  BY <1>4 DEF Condition
<1>6. \A i \in fit : i \in DOMAIN mws
  OBVIOUS
<1> HIDE DEF fit, n
<1>7. PICK k \in 1..n : p[k] = 1
  BY <1>1, <1>5 DEF Range
<1>8. 1 \in 1..n /\ p[1] \in fit
  BY <1>3, <1>7, <1>1
<1>9. p[1] = 1
  <2> SUFFICES ASSUME p[1] # 1 PROVE FALSE
    OBVIOUS
  <2>1. 1 < k
    BY <1>3, <1>7, <1>8
  <2>2. mws[p[1]].order <= mws[p[k]].order
    BY <1>1, <1>7, <1>8, <2>1
  <2>3. mws[p[1]].order \in Nat
    BY <1>2, <1>6, <1>8 DEF Provided
  <2> QED BY <2>2, <2>3, <1>4, <1>7
<1>10. \A i \in 1..n : mws[p[i]].kind \in Kinds
  <2>1. ASSUME NEW i \in DOMAIN mws PROVE mws[i].kind \in Kinds
    <3>1. CASE i = 1
      BY <3>1, <1>4 DEF Kinds
    <3>2. CASE i # 1
      BY <3>2, <1>2 DEF Provided
    <3> QED BY <3>1, <3>2
  <2> QED BY <2>1, <1>1, <1>6
<1>11. DOMAIN s = 1..n /\ (\A i \in 1..n : s[i] = mws[p[i]].kind) /\ s \in Seq(Kinds) /\ Len(s) = n
  <2>1. s = [i \in 1..n |-> mws[p[i]].kind]
    BY <1>1
  <2>2. s \in [1..n -> Kinds]
    BY <2>1, <1>10
  <2>3. s \in Seq(Kinds)
    BY <2>2, <1>3
  <2>4. Len(s) = n
    BY <2>1, <2>3, <1>3
  <2> QED BY <2>1, <2>3, <2>4
<1>12. s # <<>> /\ s[1] = "bind"
  BY <1>4, <1>8, <1>9, <1>11
<1>13. ASSUME Requires(c) PROVE \E q \in 1..Len(s) : s[q] = "tx"
  <2>1. tp # "nil"
    BY <1>13 DEF Requires
  <2>2. PICK i \in DOMAIN mws : mws[i].kind = "tx"
    <3>1. PICK mw \in Range(Globals) \cup Range(Custom[c]) : mw.kind = "tx"
      BY <1>13, ServiceCallAssumption DEF Requires
    <3> QED BY <3>1, <1>2
  <2>3. i \in fit
    BY <2>1, <2>2 DEF fit, Condition
  <2>4. PICK q \in 1..n : p[q] = i
    BY <2>3, <1>1 DEF Range
  <2> QED BY <2>2, <2>4, <1>11
<1> QED BY <1>11, <1>12, <1>13

\* Building an endpoint touches no call under way.
LEMMA BuildKeeps ==
    ASSUME CallInv, NEW c \in Calls, Build(c)
    PROVE  CallInv'
<1>1. PICK s \in Chains(c, Propagation(Tag[c])) : chain' = [chain EXCEPT ![c] = s]
  BY DEF Build
<1>2. /\ s \in Seq(Kinds) /\ s # <<>> /\ s[1] = "bind"
      /\ Requires(c) => \E p \in 1..Len(s) : s[p] = "tx"
  BY ChainsAre
<1>3. stack = <<>> /\ UNCHANGED <<stack, ret, buffer, durable, written, outcome, current>>
      /\ info' = [info EXCEPT ![c] = [locked |-> TRUE, tp |-> Propagation(Tag[c])]]
  BY DEF Build
<1>4. CallType'
  <2>1. chain' \in [Calls -> Seq(Kinds)]
    BY <1>1, <1>2 DEF CallInv, CallType
  <2>2. info' \in [Calls -> [locked : BOOLEAN, tp : {Propagation(Tag[d]) : d \in Calls} \cup {"nil"}]]
    BY <1>3 DEF CallInv, CallType
  <2> QED BY <2>1, <2>2, <1>3 DEF CallInv, CallType
<1>5. ChainInv'
  <2>1. ASSUME NEW d \in Calls, chain'[d] # <<>>
        PROVE  /\ chain'[d][1] = "bind" /\ info'[d].tp = Propagation(Tag[d])
               /\ Requires(d) => \E p \in 1..Len(chain'[d]) : chain'[d][p] = "tx"
    <3>1. CASE d = c
      BY <3>1, <1>1, <1>2, <1>3 DEF CallInv, CallType
    <3>2. CASE d # c
      <4>1. chain'[d] = chain[d] /\ info'[d] = info[d]
        BY <3>2, <1>1, <1>3 DEF CallInv, CallType
      <4> QED BY <4>1, <2>1 DEF CallInv, ChainInv
    <3> QED BY <3>1, <3>2
  <2> QED BY <2>1 DEF ChainInv, Requires
<1>6. StackInv'
  BY <1>3 DEF CallInv, StackInv
<1>7. UnitInv'
  BY <1>3 DEF CallInv, UnitInv, Settled
<1> QED BY <1>4, <1>5, <1>6, <1>7 DEF CallInv

-------------------------------------------------------------------------------
(* Frames *)

\* The parts of the invariant that speak of the frames.
LEMMA InvParts ==
    CallInv => /\ stack \in Seq(Frames) /\ StackInv /\ UnitInv
               /\ outcome \in Seq({"none", "ok", "error", "panic"})
BY DEF CallInv, CallType

\* The innermost frame and the others.
LEMMA BelowIs ==
    ASSUME stack \in Seq(Frames), stack # <<>>
    PROVE  /\ Len(stack) \in Nat /\ Len(stack) >= 1 /\ DOMAIN stack = 1..Len(stack)
           /\ Len(stack) \in DOMAIN stack /\ Top \in Frames /\ Top = stack[Len(stack)]
           /\ Below \in Seq(Frames) /\ Len(Below) = Len(stack) - 1
           /\ \A i \in 1..(Len(stack) - 1) : Below[i] = stack[i]
<1>1. Len(stack) \in Nat /\ Len(stack) >= 1 /\ DOMAIN stack = 1..Len(stack)
  OBVIOUS
<1>2. Below \in Seq(Frames) /\ Len(Below) = Len(stack) - 1
  BY <1>1 DEF Below
<1>3. \A i \in 1..(Len(stack) - 1) : Below[i] = stack[i]
  BY <1>1 DEF Below
<1> QED BY <1>1, <1>2, <1>3 DEF Top

\* Where the innermost frame stands: nothing but the frame that opened the
\* transaction keeps it open, and a handler of a unit is in its transaction.
LEMMA TopFacts ==
    ASSUME CallInv, stack # <<>>
    PROVE  /\ FrameOK(Top) /\ Top \in Frames
           /\ Handles(Top) => ~Top.opens /\ ~Top.begins /\ (Top.unit # 0 => Top.tx)
           /\ current # 0 => Top.opens \/ Top.tx
           /\ Top.opens \/ Top.tx => current # 0 /\ Top.unit = current
           /\ Top.opens => ~Top.tx /\ ~Top.begins
           /\ ~Top.tx => \A i \in 1..(Len(stack) - 1) : ~stack[i].opens /\ ~stack[i].tx
<1>1. stack \in Seq(Frames) /\ StackInv
  BY InvParts
<1>2. /\ Len(stack) \in Nat /\ Len(stack) >= 1 /\ DOMAIN stack = 1..Len(stack)
      /\ Len(stack) \in DOMAIN stack /\ Top \in Frames /\ Top = stack[Len(stack)]
  BY <1>1, BelowIs
<1>3. FrameOK(Top)
  BY <1>1, <1>2 DEF StackInv
<1>4. Len(chain[Top.call]) \in Nat /\ Top.pos \in Nat /\ Len(chain[Top.call]) >= 1
  <2>1. Top.call \in Calls /\ Top.pos \in Nat
    BY <1>2 DEF Frames
  <2>2. chain[Top.call] \in Seq(Kinds) /\ chain[Top.call] # <<>>
    BY <2>1, <1>3 DEF CallInv, CallType, FrameOK
  <2> QED BY <2>1, <2>2
<1>5. ASSUME Handles(Top) PROVE ~Top.opens /\ ~Top.begins /\ (Top.unit # 0 => Top.tx)
  <2>1. Top.pos > Len(chain[Top.call])
    BY <1>5 DEF Handles
  <2>2. ~Top.opens
    BY <1>3, <1>5 DEF FrameOK
  <2>3. Top.pos # 1
    BY <2>1, <1>4
  <2>4. ~Top.begins
    BY <2>3, <1>3 DEF FrameOK
  <2>5. ~\E p \in Top.pos..Len(chain[Top.call]) : chain[Top.call][p] = "tx"
    BY <2>1, <1>4
  <2>6. Top.unit # 0 => Top.tx
    BY <2>5, <1>3 DEF FrameOK
  <2> QED BY <2>2, <2>4, <2>6
<1>6. ASSUME NEW i \in 1..(Len(stack) - 1) PROVE i \in DOMAIN stack /\ i < Len(stack)
  BY <1>2
<1>7. ASSUME NEW i \in 1..(Len(stack) - 1), stack[i].opens PROVE Top.tx
  BY <1>1, <1>2, <1>6, <1>7 DEF StackInv
<1>8. ASSUME NEW i \in 1..(Len(stack) - 1), stack[i].tx PROVE Top.tx
  <2>1. PICK j \in DOMAIN stack : j < i /\ stack[j].opens
    BY <1>1, <1>6, <1>8 DEF StackInv
  <2>2. j \in 1..(Len(stack) - 1)
    BY <2>1, <1>2, <1>6
  <2> QED BY <2>1, <2>2, <1>7
<1>9. ASSUME current # 0 PROVE Top.opens \/ Top.tx
  <2>1. PICK i \in DOMAIN stack : stack[i].opens
    BY <1>1, <1>9 DEF StackInv
  <2>2. i = Len(stack) \/ i \in 1..(Len(stack) - 1)
    BY <1>2
  <2> QED BY <2>1, <2>2, <1>2, <1>7
<1>10. Top.opens \/ Top.tx => current # 0 /\ Top.unit = current
  BY <1>3 DEF FrameOK
<1>11. Top.opens => ~Top.tx /\ ~Top.begins
  <2>1. Top.opens => ~Top.tx /\ Top.pos # 1
    BY <1>3, <1>4 DEF FrameOK
  <2> QED BY <2>1, <1>3 DEF FrameOK
<1> QED BY <1>2, <1>3, <1>5, <1>7, <1>8, <1>9, <1>10, <1>11

\* The innermost frame goes, and with it the transaction if it had opened it.
LEMMA PopKeeps ==
    ASSUME CallInv, stack # <<>>, stack' = Below, UNCHANGED <<info, chain>>,
           ret' # "running", Len(outcome') = Len(outcome),
           Top.opens => current' = 0, ~Top.opens => current' = current
    PROVE  /\ StackInv' /\ stack' \in Seq(Frames)
           /\ stack' # <<>> => \E t \in Frames :
                /\ Top' = t /\ (t.unit # 0 => t.unit = Top.unit /\ ~Top.begins)
<1> DEFINE n == Len(stack)
<1>1. stack \in Seq(Frames) /\ StackInv
  BY InvParts, ZenonT(30)
<1>2. /\ n \in Nat /\ n >= 1 /\ DOMAIN stack = 1..n /\ n \in DOMAIN stack
      /\ Top \in Frames /\ Top = stack[n]
      /\ stack' \in Seq(Frames) /\ Len(stack') = n - 1 /\ (\A i \in 1..(n - 1) : stack'[i] = stack[i])
  BY <1>1, BelowIs, ZenonT(30)
<1> HIDE DEF n
<1>3. DOMAIN stack' = 1..(n - 1)
  BY <1>2
<1>4. /\ Top.opens => ~Top.tx
      /\ ~Top.tx => \A i \in 1..(n - 1) : ~stack[i].opens /\ ~stack[i].tx
  BY TopFacts DEF n
<1>5. ASSUME NEW i \in 1..(n - 1) PROVE i \in DOMAIN stack /\ i < n /\ stack'[i] = stack[i]
  BY <1>2
<1>6. ASSUME NEW i \in 1..(n - 1) PROVE FrameOK(stack[i])'
  <2>1. PICK f : f = stack[i]
    OBVIOUS
  <2>2. FrameOK(f) /\ stack'[i] = f
    BY <2>1, <1>1, <1>5 DEF StackInv
  <2>3. FrameOK(f)'
    <3>1. f.opens \/ f.tx => ~Top.opens
      BY <2>1, <1>4
    <3>2. f.opens \/ f.tx => f.unit = current' /\ f.unit # 0
      BY <2>2, <3>1 DEF FrameOK
    <3> QED BY <2>2, <3>2 DEF FrameOK, Handles, Requires
  <2> QED BY <2>2, <2>3 DEF FrameOK, Handles
<1>7. ASSUME NEW i \in 1..(n - 1), NEW j \in 1..(n - 1), i < j
      PROVE  /\ stack'[i].opens => stack'[j].tx
             /\ stack'[i].unit # 0 => stack'[j].unit = stack'[i].unit /\ ~stack'[j].begins
  BY <1>1, <1>5, <1>7 DEF StackInv
<1>8. ASSUME NEW j \in 1..(n - 1)
      PROVE  /\ stack'[j].tx => \E i \in 1..(n - 1) : i < j /\ stack'[i].opens
             /\ stack'[j].unit # 0 => \E i \in 1..(n - 1) : i <= j /\ stack'[i].begins
  <2>1. ASSUME stack[j].tx PROVE \E i \in 1..(n - 1) : i < j /\ stack'[i].opens
    <3>1. PICK i \in DOMAIN stack : i < j /\ stack[i].opens
      BY <2>1, <1>1, <1>5 DEF StackInv
    <3>2. i \in 1..(n - 1)
      BY <3>1, <1>2
    <3> QED BY <3>1, <3>2, <1>5
  <2>2. ASSUME stack[j].unit # 0 PROVE \E i \in 1..(n - 1) : i <= j /\ stack'[i].begins
    <3>1. PICK i \in DOMAIN stack : i <= j /\ stack[i].begins
      BY <2>2, <1>1, <1>5 DEF StackInv
    <3>2. i \in 1..(n - 1)
      BY <3>1, <1>2
    <3> QED BY <3>1, <3>2, <1>5
  <2> QED BY <2>1, <2>2, <1>5
<1>9. ASSUME current' # 0 PROVE \E i \in 1..(n - 1) : stack'[i].opens
  <2>1. ~Top.opens /\ current # 0
    BY <1>9
  <2>2. PICK i \in DOMAIN stack : stack[i].opens
    BY <2>1, <1>1 DEF StackInv
  <2>3. i \in 1..(n - 1)
    BY <2>1, <2>2, <1>2
  <2> QED BY <2>2, <2>3, <1>5
<1>10. StackInv'
  BY <1>3, <1>6, <1>7, <1>8, <1>9 DEF StackInv
<1>11. ASSUME stack' # <<>>
       PROVE  \E t \in Frames : Top' = t /\ (t.unit # 0 => t.unit = Top.unit /\ ~Top.begins)
  <2>1. n - 1 \in 1..(n - 1)
    BY <1>2, <1>11
  <2>2. Top' = stack[n - 1] /\ stack[n - 1] \in Frames
    BY <2>1, <1>1, <1>2, <1>5 DEF Top
  <2>3. stack[n - 1].unit # 0 => Top.unit = stack[n - 1].unit /\ ~Top.begins
    BY <2>1, <1>1, <1>2, <1>5 DEF StackInv
  <2> QED BY <2>2, <2>3
<1> QED BY <1>2, <1>10, <1>11

\* What a popped frame and a result say of the units: if the transaction has
\* ended, the result tells what became of it.
LEMMA PopUnits ==
    ASSUME CallInv, stack # <<>>, UNCHANGED <<outcome, written>>, ~Top.begins,
           stack' # <<>> => \E t \in Frames :
                /\ Top' = t /\ (t.unit # 0 => t.unit = Top.unit /\ ~Top.begins),
           \A u \in 1..Len(outcome) : Settled(u, outcome[u])',
           current' = 0 => buffer' = {},
           current' # 0 => UNCHANGED <<current, buffer, durable>>,
           current' = 0 /\ Top.unit # 0 => \A w \in written : w.unit = Top.unit =>
                /\ ret' # "running"
                /\ ret' = "ok" => w \in durable'
                /\ ret' \in {"error", "panic"} => w \notin durable'
    PROVE  UnitInv'
<1>1. ASSUME stack' # <<>>, Top'.unit # 0
      PROVE  /\ outcome'[Top'.unit] = "none"
             /\ current' = 0 => /\ ret' = "running" => \A w \in written' : w.unit # Top'.unit
                                /\ Settled(Top.unit, ret)'
  <2>1. Top'.unit = Top.unit
    BY <1>1
  <2>2. outcome'[Top'.unit] = "none"
    BY <1>1, <2>1 DEF CallInv, UnitInv
  <2>3. ASSUME current' = 0
        PROVE  /\ ret' = "running" => \A w \in written' : w.unit # Top'.unit
               /\ Settled(Top.unit, ret)'
    BY <1>1, <2>1, <2>3 DEF Settled
  <2> QED BY <2>2, <2>3
<1>2. current' # 0 => \A w \in written' : (w.unit = current' <=> w \in buffer')
                                           /\ (w.unit = current' => w \notin durable')
  BY DEF CallInv, UnitInv
<1> QED BY <1>1, <1>2 DEF UnitInv

Results == {"ok", "error", "panic"}

\* A handler's frame goes: it has opened nothing and begun nothing.
LEMMA HandlerPops ==
    ASSUME CallInv, stack # <<>>, Handles(Top), NEW how \in Results, Pops(how),
           UNCHANGED <<info, chain, buffer, durable, written, current>>
    PROVE  CallInv'
<1>1. ~Top.opens /\ ~Top.begins /\ (Top.unit # 0 => Top.tx)
      /\ (Top.opens \/ Top.tx => current # 0 /\ Top.unit = current)
  BY TopFacts
<1>2. stack' = Below /\ ret' = how /\ outcome' = outcome
  BY <1>1 DEF Pops, Told
<1>3. how # "running" /\ how \in {"running", "ok", "error", "panic"}
  BY DEF Results
<1>4. /\ StackInv' /\ stack' \in Seq(Frames)
      /\ stack' # <<>> => \E t \in Frames :
           /\ Top' = t /\ (t.unit # 0 => t.unit = Top.unit /\ ~Top.begins)
  BY <1>1, <1>2, <1>3, PopKeeps
<1>5. CallType'
  BY <1>2, <1>3, <1>4 DEF CallInv, CallType
<1>6. ChainInv'
  BY DEF CallInv, ChainInv
<1>7. \A u \in 1..Len(outcome) : Settled(u, outcome[u])'
  BY <1>2 DEF CallInv, UnitInv, Settled
<1>8. UnitInv'
  <2>1. current' = 0 => buffer' = {} /\ Top.unit = 0
    BY <1>1 DEF CallInv, UnitInv
  <2> QED BY <1>1, <1>2, <1>4, <1>7, <2>1, PopUnits
<1> QED BY <1>4, <1>5, <1>6, <1>8 DEF CallInv

\* A handler that was running returns or panics.
LEMMA HandlerReturnsKeeps ==
    ASSUME CallInv, NEW how \in Results, HandlerReturns(how)
    PROVE  CallInv'
BY HandlerPops DEF HandlerReturns

\* A handler goes on after the result of a call, inside its transaction if it has
\* one; a panic goes through it.
LEMMA ResumeKeeps ==
    ASSUME CallInv, Resume
    PROVE  CallInv'
<1>1. CASE ret = "panic"
  <2>1. "panic" \in Results
    BY DEF Results
  <2> QED BY <1>1, <2>1, HandlerPops DEF Resume
<1>2. CASE ret # "panic"
  <2>1. stack # <<>> /\ Handles(Top) /\ ret' = "running"
        /\ UNCHANGED <<stack, outcome, info, chain, buffer, durable, written, current>>
    BY <1>2 DEF Resume
  <2>2. ~Top.opens /\ (Top.unit # 0 => Top.tx) /\ (Top.tx => current # 0)
    BY <2>1, TopFacts
  <2>3. CallType'
    BY <2>1 DEF CallInv, CallType
  <2>4. ChainInv'
    BY <2>1 DEF CallInv, ChainInv
  <2>5. Top' = Top
    BY <2>1 DEF Top
  <2>6. StackInv'
    BY <2>1, <2>2, <2>5 DEF CallInv, StackInv, FrameOK, Handles
  <2>7. UnitInv'
    BY <2>1, <2>2, <2>5 DEF CallInv, UnitInv, Settled
  <2> QED BY <2>3, <2>4, <2>6, <2>7 DEF CallInv
<1> QED BY <1>1, <1>2

\* The frame that begins a unit of work is outside every transaction.
LEMMA BeginsOutside ==
    ASSUME CallInv, stack # <<>>, Top.begins
    PROVE  ~Top.tx
<1> SUFFICES ASSUME Top.tx PROVE FALSE
  OBVIOUS
<1>1. stack \in Seq(Frames) /\ StackInv
  BY InvParts
<1>2. Len(stack) \in DOMAIN stack /\ Top = stack[Len(stack)]
  BY <1>1, BelowIs
<1>3. PICK i \in DOMAIN stack : i < Len(stack) /\ stack[i].opens
  BY <1>1, <1>2 DEF StackInv
<1>4. stack[i].unit # 0
  BY <1>1, <1>3 DEF StackInv, FrameOK
<1> QED BY <1>1, <1>2, <1>3, <1>4 DEF StackInv

\* A middleware's frame goes, and ends the transaction it has opened.
LEMMA LeaveKeeps ==
    ASSUME CallInv, Leave
    PROVE  CallInv'
<1>1. stack # <<>> /\ ret # "running" /\ UNCHANGED <<info, chain, written>>
      /\ ret \in {"ok", "error", "panic"}
  BY DEF Leave, CallInv, CallType
<1>2. /\ (current # 0 => Top.opens \/ Top.tx) /\ (Top.opens => ~Top.tx /\ ~Top.begins)
      /\ (Top.opens \/ Top.tx => current # 0 /\ Top.unit = current)
      /\ Top \in Frames /\ FrameOK(Top)
  BY <1>1, TopFacts
<1>3. ChainInv'
  BY <1>1 DEF CallInv, ChainInv
<1>4. ASSUME NEW how \in Results, Pops(how), outcome' = outcome, durable' \subseteq written', buffer' \subseteq written',
             current' \in Nat, stack' \in Seq(Frames)
      PROVE  CallType'
  BY <1>1, <1>4 DEF CallInv, CallType, Results, Pops
<1>5. CASE Top.opens
  <2>1. current # 0 /\ Top.unit = current /\ ~Top.begins
        /\ (\A w \in written : (w.unit = current <=> w \in buffer) /\ (w.unit = current => w \notin durable))
        /\ outcome[current] = "none" /\ (\A u \in 1..Len(outcome) : Settled(u, outcome[u]))
    BY <1>1, <1>2, <1>5 DEF CallInv, UnitInv
  <2>2. PICK how \in Results : Pops(how) /\ current' = 0 /\ buffer' = {}
            /\ IF how = "ok" THEN durable' = durable \cup buffer ELSE durable' = durable
    BY <1>1, <1>5 DEF Leave, Commit, Rollback, Results
  <2>3. stack' = Below /\ ret' = how /\ how # "running" /\ outcome' = outcome
    BY <2>1, <2>2 DEF Pops, Told, Results
  <2>4. /\ StackInv' /\ stack' \in Seq(Frames)
        /\ stack' # <<>> => \E t \in Frames :
             /\ Top' = t /\ (t.unit # 0 => t.unit = Top.unit /\ ~Top.begins)
    BY <1>1, <1>5, <2>2, <2>3, PopKeeps
  <2>5. durable' \subseteq written' /\ buffer' \subseteq written'
    BY <1>1, <2>2 DEF CallInv, CallType
  <2>6. CallType'
    BY <1>4, <2>2, <2>3, <2>4, <2>5
  <2>7. ASSUME NEW u \in 1..Len(outcome) PROVE Settled(u, outcome[u])'
    <3>1. CASE u = current
      BY <3>1, <2>1, <2>3 DEF Settled
    <3>2. CASE u # current
      <4>1. \A w \in written : w.unit = u => (w \in durable' <=> w \in durable)
        BY <3>2, <2>1, <2>2
      <4> QED BY <4>1, <2>1, <2>3, <1>1 DEF Settled
    <3> QED BY <3>1, <3>2
  <2>8. \A w \in written : w.unit = Top.unit =>
                /\ ret' # "running"
                /\ ret' = "ok" => w \in durable'
                /\ ret' \in {"error", "panic"} => w \notin durable'
    BY <2>1, <2>2, <2>3
  <2>9. UnitInv'
    BY <1>1, <2>1, <2>2, <2>3, <2>4, <2>7, <2>8, PopUnits
  <2> QED BY <1>3, <2>4, <2>6, <2>9 DEF CallInv
<1>6. CASE ~Top.opens
  <2>1. UNCHANGED <<buffer, durable, current>> /\ Pops(Recovers(Top))
    BY <1>6 DEF Leave
  <2>2. PICK how \in Results : how = Recovers(Top) /\ (how = "ok" <=> ret = "ok")
    BY <1>1 DEF Recovers, Results
  <2>3. stack' = Below /\ ret' = how /\ how # "running"
    BY <2>1, <2>2 DEF Pops, Results
  <2>4. Len(outcome') = Len(outcome) /\ outcome' \in Seq({"none", "ok", "error", "panic"})
        /\ (IF Top.begins THEN outcome' = [outcome EXCEPT ![Top.unit] = how] ELSE outcome' = outcome)
    <3>1. IF Top.begins THEN outcome' = [outcome EXCEPT ![Top.unit] = how] ELSE outcome' = outcome
      BY <2>1, <2>2 DEF Pops, Told
    <3>2. outcome \in Seq({"none", "ok", "error", "panic"}) /\ how \in {"none", "ok", "error", "panic"}
      BY DEF CallInv, CallType, Results
    <3>3. PICK u : u = Top.unit
      OBVIOUS
    <3>4. PICK o : o = [outcome EXCEPT ![u] = how]
      OBVIOUS
    <3>5. o \in Seq({"none", "ok", "error", "panic"}) /\ Len(o) = Len(outcome)
      BY <3>2, <3>4, Replaced
    <3> QED BY <3>1, <3>2, <3>3, <3>4, <3>5
  <2>5. /\ StackInv' /\ stack' \in Seq(Frames)
        /\ stack' # <<>> => \E t \in Frames :
             /\ Top' = t /\ (t.unit # 0 => t.unit = Top.unit /\ ~Top.begins)
    BY <1>1, <1>6, <2>1, <2>3, <2>4, PopKeeps
  <2>6. CallType'
    BY <1>1, <2>1, <2>3, <2>4, <2>5 DEF CallInv, CallType, Results
  <2>7. CASE ~Top.begins
    <3>1. outcome' = outcome
      BY <2>4, <2>7
    <3>2. \A u \in 1..Len(outcome) : Settled(u, outcome[u])'
      BY <1>1, <2>1, <3>1 DEF CallInv, UnitInv, Settled
    <3>3. current' = 0 => buffer' = {}
      BY <2>1 DEF CallInv, UnitInv
    <3>4. current' = 0 /\ Top.unit # 0 => \A w \in written : w.unit = Top.unit =>
                /\ ret' # "running"
                /\ ret' = "ok" => w \in durable'
                /\ ret' \in {"error", "panic"} => w \notin durable'
      BY <1>1, <2>1, <2>2, <2>3 DEF CallInv, UnitInv, Settled, Results
    <3>5. UnitInv'
      BY <1>1, <2>1, <2>5, <2>7, <3>1, <3>2, <3>3, <3>4, PopUnits
    <3> QED BY <1>3, <2>5, <2>6, <3>5 DEF CallInv
  <2>8. CASE Top.begins
    <3>1. PICK u : u = Top.unit
      OBVIOUS
    <3>2. u # 0 /\ u \in Nat /\ u <= Len(outcome) /\ outcome \in Seq({"none", "ok", "error", "panic"})
      BY <1>2, <2>8, <3>1 DEF FrameOK, Frames, CallInv, CallType
    <3>3. u \in 1..Len(outcome) /\ DOMAIN outcome = 1..Len(outcome)
      BY <3>2
    <3>4. ~Top.tx
      BY <1>1, <2>8, BeginsOutside
    <3>5. current = 0 /\ buffer = {} /\ Settled(u, ret)
      BY <1>1, <1>2, <1>6, <3>1, <3>2, <3>4 DEF CallInv, UnitInv
    <3>6. outcome'[u] = how /\ (\A v \in 1..Len(outcome) : v # u => outcome'[v] = outcome[v])
      BY <2>4, <2>8, <3>1, <3>3
    <3>7. ASSUME NEW v \in 1..Len(outcome) PROVE Settled(v, outcome[v])'
      <4>1. CASE v = u
        BY <4>1, <1>1, <2>1, <2>2, <3>5, <3>6 DEF Settled, Results
      <4>2. CASE v # u
        BY <4>2, <1>1, <2>1, <3>6 DEF Settled, CallInv, UnitInv
      <4> QED BY <4>1, <4>2
    <3>8. stack' # <<>> => Top'.unit = 0
      BY <2>5, <2>8
    <3>9. UnitInv'
      BY <2>1, <2>4, <3>5, <3>7, <3>8 DEF UnitInv
    <3> QED BY <1>3, <2>5, <2>6, <3>9 DEF CallInv
  <2> QED BY <2>7, <2>8
<1> QED BY <1>5, <1>6

-------------------------------------------------------------------------------
(* Calls *)

\* A call from outside or from a handler: its frame is in the unit and the
\* transaction of the handler, or begins a unit outside every transaction.
LEMMA CallingKeeps ==
    ASSUME CallInv, NEW c \in Calls, NEW b \in Calls \cup {"nil"}, NEW tx \in BOOLEAN,
           NEW unit \in Nat, Calling(c, b, tx, unit), ret = "running",
           IF stack = <<>> THEN unit = 0 /\ ~tx
                           ELSE Handles(Top) /\ tx = Top.tx /\ unit = Top.unit
    PROVE  CallInv'
<1> DEFINE n == Len(stack)
<1>0. PICK f : f = Frame(c, b, tx, unit)
  OBVIOUS
<1>1. stack \in Seq(Frames) /\ StackInv /\ UnitInv /\ outcome \in Seq({"none", "ok", "error", "panic"})
  BY InvParts
<1>2. n \in Nat /\ DOMAIN stack = 1..n /\ Len(outcome) \in Nat
  BY <1>1
<1>3. /\ chain[c] # <<>> /\ stack' = Append(stack, f)
      /\ outcome' = IF f.begins THEN Append(outcome, "none") ELSE outcome
      /\ UNCHANGED <<info, chain, ret, buffer, durable, written, current>>
  BY <1>0 DEF Calling
<1>4. /\ f.call = c /\ f.pos = 1 /\ f.bound = b /\ f.tx = tx /\ f.opens = FALSE
      /\ f.begins = (unit = 0 /\ Requires(c))
      /\ f.unit = IF f.begins THEN Len(outcome) + 1 ELSE unit
  BY <1>0 DEF Frame, Requires
<1>5. f \in Frames
  BY <1>0, <1>2 DEF Frame, Frames
<1> HIDE DEF n
\* What the new frame finds.
<1>6. /\ (unit # 0 => tx /\ unit = current) /\ (unit = 0 => ~tx) /\ (~tx => current = 0)
      /\ unit <= Len(outcome)
  <2>1. CASE stack = <<>>
    <3>1. current = 0
      BY <2>1, <1>1 DEF StackInv
    <3> QED BY <2>1, <3>1, <1>2
  <2>2. CASE stack # <<>>
    <3>1. /\ Top.unit # 0 => Top.tx
          /\ Top.tx => current # 0 /\ Top.unit = current
          /\ current # 0 => Top.tx
          /\ Top.unit <= Len(outcome)
      BY <2>2, TopFacts DEF FrameOK
    <3> QED BY <2>2, <3>1
  <2> QED BY <2>1, <2>2
<1>7. /\ \A i \in 1..n : (stack[i].opens => tx) /\ (stack[i].unit # 0 => unit = stack[i].unit)
      /\ tx => \E i \in 1..n : stack[i].opens
      /\ unit # 0 => \E i \in 1..n : stack[i].begins
  <2>1. CASE stack = <<>>
    BY <2>1 DEF n
  <2>2. CASE stack # <<>>
    <3>1. n \in DOMAIN stack /\ Top = stack[n] /\ ~Top.opens /\ tx = Top.tx /\ unit = Top.unit
      BY <2>2, <1>1, BelowIs, TopFacts DEF n
    <3>2. ASSUME NEW i \in 1..n
          PROVE  (stack[i].opens => tx) /\ (stack[i].unit # 0 => unit = stack[i].unit)
      <4>1. CASE i = n
        BY <4>1, <3>1
      <4>2. CASE i < n
        BY <4>2, <3>1, <1>1, <1>2 DEF StackInv
      <4> QED BY <4>1, <4>2, <1>2
    <3>3. tx => \E i \in 1..n : stack[i].opens
      BY <3>1, <1>1, <1>2 DEF StackInv
    <3>4. unit # 0 => \E i \in 1..n : stack[i].begins
      BY <3>1, <1>1, <1>2 DEF StackInv
    <3> QED BY <3>2, <3>3, <3>4
  <2> QED BY <2>1, <2>2
<1>8. /\ stack' \in Seq(Frames) /\ Len(stack') = n + 1 /\ stack'[n + 1] = f
      /\ \A i \in 1..n : stack'[i] = stack[i]
  BY <1>1, <1>3, <1>5, Appended DEF n
<1>9. DOMAIN stack' = 1..(n + 1) /\ n + 1 \in 1..(n + 1) /\ Top' = f
  BY <1>2, <1>8 DEF Top
<1>10. /\ outcome' \in Seq({"none", "ok", "error", "panic"}) /\ Len(outcome') \in Nat
       /\ Len(outcome') = IF f.begins THEN Len(outcome) + 1 ELSE Len(outcome)
       /\ \A u \in 1..Len(outcome) : outcome'[u] = outcome[u]
       /\ f.begins => outcome'[Len(outcome) + 1] = "none"
  <2>1. CASE f.begins
    <3>1. "none" \in {"none", "ok", "error", "panic"} /\ outcome' = Append(outcome, "none")
      BY <2>1, <1>3
    <3> QED BY <2>1, <3>1, <1>1, <1>2, Appended
  <2>2. CASE ~f.begins
    BY <2>2, <1>1, <1>2, <1>3
  <2> QED BY <2>1, <2>2
<1>11. CallType'
  <2>1. \A w \in written : w.unit \in 0..Len(outcome')
    BY <1>2, <1>10 DEF CallInv, CallType
  <2> QED BY <2>1, <1>3, <1>8, <1>10 DEF CallInv, CallType
<1>12. ChainInv'
  BY <1>3 DEF CallInv, ChainInv
<1>13. FrameOK(f)'
  <2>1. chain[c] \in Seq(Kinds) /\ f.pos \in 1..(Len(chain[c]) + 1)
    BY <1>4 DEF CallInv, CallType
  <2>2. f.unit <= Len(outcome')
    BY <1>2, <1>4, <1>6, <1>10
  <2>3. f.begins => f.unit # 0
    BY <1>2, <1>4
  <2>4. f.tx => f.unit = current /\ f.unit # 0
    BY <1>4, <1>6
  <2>5. Requires(c) => f.unit # 0
    BY <2>3, <1>4
  <2>6. f.unit # 0 /\ ~f.tx => Requires(c) /\ \E p \in f.pos..Len(chain[c]) : chain[c][p] = "tx"
    <3>1. f.unit # 0 /\ ~f.tx => Requires(c)
      BY <1>4, <1>6
    <3>2. Requires(c) => \E p \in 1..Len(chain[c]) : chain[c][p] = "tx"
      BY <1>3 DEF CallInv, ChainInv
    <3> QED BY <3>1, <3>2, <1>4
  <2> QED BY <2>1, <2>2, <2>3, <2>4, <2>5, <2>6, <1>3, <1>4 DEF FrameOK, Handles, Requires
<1>14. ASSUME NEW i \in 1..n PROVE FrameOK(stack[i])'
  <2>1. PICK g : g = stack[i]
    OBVIOUS
  <2>2. FrameOK(g) /\ stack'[i] = g /\ g.unit \in Nat
    <3>1. g \in Frames
      BY <2>1, <1>1, <1>2
    <3> QED BY <2>1, <3>1, <1>1, <1>2, <1>8 DEF StackInv, Frames
  <2>3. g.unit <= Len(outcome')
    BY <2>2, <1>2, <1>10 DEF FrameOK
  <2>4. FrameOK(g)'
    BY <2>2, <2>3, <1>3 DEF FrameOK, Handles, Requires
  <2> QED BY <2>2, <2>4 DEF FrameOK, Handles, Requires
<1>15. StackInv'
  <2>1. ASSUME NEW i \in 1..(n + 1) PROVE i = n + 1 \/ i \in 1..n
    BY <1>2
  <2>2. ASSUME NEW i \in 1..(n + 1) PROVE FrameOK(stack[i])'
    <3>1. CASE i = n + 1
      BY <3>1, <1>8, <1>13 DEF FrameOK, Handles, Requires
    <3> QED BY <3>1, <2>1, <1>14
  <2>3. ASSUME NEW i \in 1..(n + 1), NEW j \in 1..(n + 1), i < j
        PROVE  /\ stack'[i].opens => stack'[j].tx
               /\ stack'[i].unit # 0 => stack'[j].unit = stack'[i].unit /\ ~stack'[j].begins
    <3>1. i \in 1..n /\ stack'[i] = stack[i]
      BY <2>3, <1>2, <1>8
    <3>2. CASE j = n + 1
      <4>1. stack'[j] = f
        BY <3>2, <1>8
      <4> QED BY <3>1, <4>1, <1>4, <1>7
    <3>3. CASE j \in 1..n
      <4>1. stack'[j] = stack[j] /\ i \in DOMAIN stack /\ j \in DOMAIN stack
        BY <3>1, <3>3, <1>2, <1>8
      <4> QED BY <2>3, <3>1, <4>1, <1>1 DEF StackInv
    <3> QED BY <3>2, <3>3, <2>1
  <2>4. ASSUME NEW j \in 1..(n + 1)
        PROVE  /\ stack'[j].tx => \E i \in 1..(n + 1) : i < j /\ stack'[i].opens
               /\ stack'[j].unit # 0 => \E i \in 1..(n + 1) : i <= j /\ stack'[i].begins
    <3>1. ASSUME NEW i \in 1..n PROVE i \in 1..(n + 1) /\ i < n + 1 /\ i <= n + 1 /\ stack'[i] = stack[i]
      BY <1>2, <1>8
    <3>2. CASE j = n + 1
      <4>1. stack'[j] = f
        BY <3>2, <1>8
      <4>2. f.tx => \E i \in 1..(n + 1) : i < j /\ stack'[i].opens
        BY <3>1, <3>2, <1>4, <1>7
      <4>3. ASSUME f.unit # 0 PROVE \E i \in 1..(n + 1) : i <= j /\ stack'[i].begins
        <5>1. CASE f.begins
          <6>1. j <= j
            BY <1>2
          <6> QED BY <5>1, <4>1, <6>1
        <5>2. CASE ~f.begins
          BY <5>2, <4>3, <3>1, <3>2, <1>4, <1>7
        <5> QED BY <5>1, <5>2
      <4> QED BY <4>1, <4>2, <4>3
    <3>3. CASE j \in 1..n
      <4>1. stack[j].tx => \E i \in 1..n : i < j /\ stack[i].opens
        BY <3>3, <1>1, <1>2 DEF StackInv
      <4>2. stack[j].unit # 0 => \E i \in 1..n : i <= j /\ stack[i].begins
        BY <3>3, <1>1, <1>2 DEF StackInv
      <4> QED BY <3>1, <3>3, <4>1, <4>2
    <3> QED BY <3>2, <3>3, <2>1
  <2>5. current' # 0 => \E i \in 1..(n + 1) : stack'[i].opens
    <3>1. ASSUME current # 0 PROVE \E i \in 1..(n + 1) : stack'[i].opens
      <4>1. PICK i \in 1..n : stack[i].opens
        BY <3>1, <1>1, <1>2 DEF StackInv
      <4>2. i \in 1..(n + 1) /\ stack'[i] = stack[i]
        BY <1>2, <1>8
      <4> QED BY <4>1, <4>2
    <3> QED BY <3>1, <1>3
  <2>6. ~Top'.opens
    BY <1>4, <1>9
  <2> QED BY <2>2, <2>3, <2>4, <2>5, <2>6, <1>9 DEF StackInv
<1>16. UnitInv'
  <2>1. ASSUME NEW u \in 1..Len(outcome') PROVE Settled(u, outcome[u])'
    <3>1. CASE u \in 1..Len(outcome)
      <4>1. outcome'[u] = outcome[u] /\ Settled(u, outcome[u])
        BY <3>1, <1>1, <1>10 DEF UnitInv
      <4> QED BY <4>1, <1>3 DEF Settled
    <3>2. CASE u \notin 1..Len(outcome)
      <4>1. f.begins /\ u = Len(outcome) + 1
        BY <3>2, <1>2, <1>10
      <4> QED BY <4>1, <1>10 DEF Settled
    <3> QED BY <3>1, <3>2
  <2>2. ASSUME f.unit # 0
        PROVE  /\ outcome'[f.unit] = "none"
               /\ current' = 0 => \A w \in written' : w.unit # f.unit
    <3>1. CASE f.begins
      <4>1. f.unit = Len(outcome) + 1 /\ outcome'[f.unit] = "none"
        BY <3>1, <1>4, <1>10
      <4>2. \A w \in written : w.unit # f.unit
        BY <4>1, <1>2 DEF CallInv, CallType
      <4> QED BY <4>1, <4>2, <1>3
    <3>2. CASE ~f.begins
      <4>1. f.unit = unit /\ outcome' = outcome /\ current # 0 /\ stack # <<>> /\ unit = Top.unit
        BY <3>2, <2>2, <1>3, <1>4, <1>6
      <4>2. outcome[Top.unit] = "none"
        BY <4>1, <2>2, <1>1 DEF UnitInv
      <4> QED BY <4>1, <4>2, <1>3
    <3> QED BY <3>1, <3>2
  <2>3. current' = 0 => buffer' = {}
    BY <1>1, <1>3 DEF UnitInv
  <2>4. current' # 0 => \A w \in written' : (w.unit = current' <=> w \in buffer')
                                             /\ (w.unit = current' => w \notin durable')
    BY <1>1, <1>3 DEF UnitInv
  <2>5. ret' = "running"
    BY <1>3
  <2>6. \A u : Settled(u, ret)'
    BY <2>5 DEF Settled
  <2> QED BY <2>1, <2>2, <2>3, <2>4, <2>6, <1>9 DEF UnitInv
<1> QED BY <1>11, <1>12, <1>15, <1>16 DEF CallInv

\* A request from outside finds no unit and no transaction.
LEMMA RequestKeeps ==
    ASSUME CallInv, NEW c \in Calls, Request(c)
    PROVE  CallInv'
<1>1. stack = <<>> /\ ret = "running" /\ Calling(c, "nil", FALSE, 0)
  BY DEF Request
<1>2. 0 \in Nat /\ FALSE \in BOOLEAN /\ "nil" \in Calls \cup {"nil"}
  OBVIOUS
<1> QED BY <1>1, <1>2, CallingKeeps

\* A nested call has the context of the handler.
LEMMA NestedKeeps ==
    ASSUME CallInv, NEW c \in Calls, Nested(c)
    PROVE  CallInv'
<1>1. stack # <<>> /\ ret = "running" /\ Handles(Top) /\ Calling(c, Top.bound, Top.tx, Top.unit)
  BY DEF Nested
<1>2. Top.bound \in Calls \cup {"nil"} /\ Top.tx \in BOOLEAN /\ Top.unit \in Nat
  BY <1>1, TopFacts DEF Frames
<1> QED BY <1>1, <1>2, CallingKeeps

-------------------------------------------------------------------------------
(* Middlewares and writes *)

\* The transaction middleware that opens a transaction belongs to a call that
\* requires one; its unit has written nothing yet, and no transaction is open.
LEMMA OpensFacts ==
    ASSUME CallInv, stack # <<>>, ret = "running", ~Handles(Top), Kind(Top) = "tx", Opens(Top)
    PROVE  /\ Requires(Top.call) /\ Top.unit # 0 /\ Top.pos > 1 /\ ~Top.tx /\ ~Top.begins
           /\ current = 0 /\ buffer = {} /\ \A w \in written : w.unit # Top.unit
<1>1. FrameOK(Top) /\ Top \in Frames /\ ~Top.opens /\ (current # 0 => Top.opens \/ Top.tx)
  BY TopFacts DEF CallInv, StackInv
<1>2. Top.call \in Calls /\ Top.pos \in Nat /\ chain[Top.call] # <<>>
  BY <1>1 DEF Frames, FrameOK
<1>3. chain[Top.call][1] = "bind" /\ info[Top.call].tp = Propagation(Tag[Top.call])
  BY <1>2 DEF CallInv, ChainInv
<1>4. Top.pos # 1
  BY <1>3 DEF Kind
<1>5. Top.pos > 1
  <2>1. chain[Top.call] \in Seq(Kinds)
    BY <1>2 DEF CallInv, CallType
  <2>2. Len(chain[Top.call]) \in Nat
    BY <2>1
  <2>3. Top.pos \in 1..(Len(chain[Top.call]) + 1)
    BY <1>1 DEF FrameOK
  <2> QED BY <2>2, <2>3, <1>4
<1>6. ~Top.begins
  BY <1>1, <1>4 DEF FrameOK
<1>7. Top.bound = Top.call
  BY <1>1, <1>5 DEF FrameOK
<1>8. Requires(Top.call) /\ ~Top.tx
  BY <1>3, <1>7 DEF Opens, Requires
<1>9. Top.unit # 0
  BY <1>1, <1>8 DEF FrameOK
<1>10. current = 0
  BY <1>1, <1>8
<1> QED BY <1>5, <1>6, <1>8, <1>9, <1>10 DEF CallInv, UnitInv

\* A transaction that cannot begin: an error, and nothing written.
LEMMA BeginFails ==
    ASSUME CallInv, stack # <<>>, ret = "running", ~Handles(Top), Kind(Top) = "tx", Opens(Top),
           stack' = Below, ret' = "error",
           UNCHANGED <<info, chain, buffer, durable, written, outcome, current>>
    PROVE  CallInv'
<1>1. /\ ~Top.begins /\ ~Top.opens /\ current = 0 /\ buffer = {}
      /\ \A w \in written : w.unit # Top.unit
  BY OpensFacts DEF CallInv, StackInv
<1>2. /\ StackInv' /\ stack' \in Seq(Frames)
      /\ stack' # <<>> => \E t \in Frames :
           /\ Top' = t /\ (t.unit # 0 => t.unit = Top.unit /\ ~Top.begins)
  BY <1>1, PopKeeps
<1>3. CallType'
  BY <1>2 DEF CallInv, CallType
<1>4. ChainInv'
  BY DEF CallInv, ChainInv
<1>5. \A u \in 1..Len(outcome) : Settled(u, outcome[u])'
  BY DEF CallInv, UnitInv, Settled
<1>6. UnitInv'
  BY <1>1, <1>2, <1>5, PopUnits
<1> QED BY <1>2, <1>3, <1>4, <1>6 DEF CallInv

\* A handler writes: its unit is the one whose transaction is open, or none.
LEMMA WriteKeeps ==
    ASSUME CallInv, Write
    PROVE  CallInv'
<1>1. stack # <<>> /\ ret = "running" /\ Handles(Top)
      /\ UNCHANGED <<info, chain, stack, ret, outcome, current>>
  BY DEF Write
<1>2. PICK w : w = [n |-> Cardinality(written) + 1, unit |-> Top.unit]
  OBVIOUS
<1>3. /\ w.unit = Top.unit /\ written' = written \cup {w}
      /\ IF Top.tx THEN buffer' = buffer \cup {w} /\ durable' = durable
                   ELSE durable' = durable \cup {w} /\ buffer' = buffer
  BY <1>2 DEF Write
<1>4. /\ (Top.unit # 0 => Top.tx) /\ (Top.tx => current # 0 /\ Top.unit = current)
      /\ (current # 0 => Top.tx) /\ Top \in Frames /\ FrameOK(Top)
  BY <1>1, TopFacts
<1>5. CallType'
  <2>1. w.unit \in 0..Len(outcome)
    <3>1. Top.unit \in Nat /\ Top.unit <= Len(outcome) /\ outcome \in Seq({"none", "ok", "error", "panic"})
      BY <1>4 DEF Frames, FrameOK, CallInv, CallType
    <3> QED BY <3>1, <1>3
  <2>2. durable' \subseteq written' /\ buffer' \subseteq written'
    BY <1>3 DEF CallInv, CallType
  <2>3. \A x \in written' : x.unit \in 0..Len(outcome')
    BY <2>1, <1>1, <1>3 DEF CallInv, CallType
  <2> QED BY <2>2, <2>3, <1>1 DEF CallInv, CallType
<1>6. ChainInv'
  BY <1>1 DEF CallInv, ChainInv
<1>7. Top' = Top
  BY <1>1 DEF Top
<1>8. StackInv'
  BY <1>1, <1>7 DEF CallInv, StackInv, FrameOK, Handles
<1>9. ASSUME NEW u \in 1..Len(outcome) PROVE Settled(u, outcome[u])'
  <2>1. Settled(u, outcome[u])
    BY DEF CallInv, UnitInv
  <2>2. CASE u = Top.unit
    <3>1. outcome[u] = "none"
      BY <2>2, <1>1 DEF CallInv, UnitInv
    <3> QED BY <3>1, <1>1 DEF Settled
  <2>3. CASE u # Top.unit
    <3>1. \A x \in written' : x.unit = u => x \in written /\ (x \in durable' <=> x \in durable)
      BY <2>3, <1>3
    <3> QED BY <3>1, <2>1, <1>1 DEF Settled
  <2> QED BY <2>2, <2>3
<1>10. current' = 0 => buffer' = {}
  BY <1>1, <1>3, <1>4 DEF CallInv, UnitInv
<1>11. ASSUME current' # 0, NEW x \in written'
       PROVE  (x.unit = current' <=> x \in buffer') /\ (x.unit = current' => x \notin durable')
  <2>1. /\ current' = current /\ Top.unit = current /\ durable' = durable /\ durable \subseteq written
        /\ buffer' = buffer \cup {w}
        /\ \A y \in written : (y.unit = current <=> y \in buffer) /\ (y.unit = current => y \notin durable)
    BY <1>1, <1>3, <1>4, <1>11 DEF CallInv, UnitInv, CallType
  <2> QED BY <2>1, <1>3
<1>12. UnitInv'
  <2>1. stack' # <<>> /\ Top'.unit # 0 => outcome'[Top'.unit] = "none" /\ current' # 0
    BY <1>1, <1>4, <1>7 DEF CallInv, UnitInv
  <2> QED BY <2>1, <1>1, <1>9, <1>10, <1>11 DEF UnitInv
<1> QED BY <1>5, <1>6, <1>8, <1>12 DEF CallInv

\* The request is over.
LEMMA AnswerKeeps ==
    ASSUME CallInv, Answer
    PROVE  CallInv'
<1>1. stack = <<>> /\ ret' = "running"
      /\ UNCHANGED <<info, chain, stack, buffer, durable, written, outcome, current>>
  BY DEF Answer
<1>2. CallType'
  BY <1>1 DEF CallInv, CallType
<1>3. ChainInv'
  BY <1>1 DEF CallInv, ChainInv
<1>4. StackInv'
  BY <1>1 DEF CallInv, StackInv
<1>5. UnitInv'
  BY <1>1 DEF CallInv, UnitInv, Settled
<1> QED BY <1>2, <1>3, <1>4, <1>5 DEF CallInv

\* The frames after a middleware has called next.
Descends(opens) ==
    /\ stack' = Append(Append(Below, [Top EXCEPT !.opens = opens]),
                       [Top EXCEPT !.pos = @ + 1, !.tx = @ \/ opens, !.begins = FALSE,
                                   !.bound = Binds(Top)])
    /\ current' = IF opens THEN Top.unit ELSE current

\* A middleware calls next: the frames below stay, its own has perhaps opened the
\* transaction, and the next one is in it.
LEMMA NextKeeps ==
    ASSUME CallInv, stack # <<>>, ret = "running", ~Handles(Top),
           NEW opens \in BOOLEAN, opens <=> Kind(Top) = "tx" /\ Opens(Top), Descends(opens),
           UNCHANGED <<info, chain, ret, buffer, durable, written, outcome>>
    PROVE  CallInv'
<1> DEFINE n == Len(stack)
<1>1. stack \in Seq(Frames) /\ StackInv /\ UnitInv
  BY InvParts
<1>2. /\ n \in Nat /\ n >= 1 /\ DOMAIN stack = 1..n /\ n \in DOMAIN stack
      /\ Below \in Seq(Frames) /\ Len(Below) = n - 1 /\ (\A i \in 1..(n - 1) : Below[i] = stack[i])
  BY <1>1, BelowIs, Zenon
<1>3. PICK t : t = Top
  OBVIOUS
<1>4. /\ t \in Frames /\ FrameOK(t) /\ t = stack[n] /\ ~t.opens
      /\ current # 0 => t.tx
      /\ ~t.tx => \A i \in 1..(n - 1) : ~stack[i].opens /\ ~stack[i].tx
  BY <1>1, <1>3, BelowIs, TopFacts DEF StackInv
<1>5. opens => /\ Requires(t.call) /\ t.unit # 0 /\ t.pos > 1 /\ ~t.tx
               /\ current = 0 /\ buffer = {} /\ \A w \in written : w.unit # t.unit
  BY <1>3, OpensFacts
<1>6. PICK below : below = [t EXCEPT !.opens = opens]
  OBVIOUS
<1>7. PICK inner : inner = [t EXCEPT !.pos = @ + 1, !.tx = @ \/ opens, !.begins = FALSE,
                                     !.bound = Binds(t)]
  OBVIOUS
<1>8. stack' = Append(Append(Below, below), inner)
  BY <1>3, <1>6, <1>7 DEF Descends
<1>9. /\ t.call \in Calls /\ t.pos \in Nat /\ t.bound \in Calls \cup {"nil"} /\ t.tx \in BOOLEAN
      /\ t.opens = FALSE /\ t.unit \in Nat /\ t.begins \in BOOLEAN
  BY <1>4 DEF Frames
<1>10. Binds(t) \in Calls \cup {"nil"} /\ (Binds(t) = t.call \/ Binds(t) = t.bound)
  BY <1>9 DEF Binds
<1>11. /\ below \in Frames /\ below.call = t.call /\ below.pos = t.pos /\ below.bound = t.bound
       /\ below.tx = t.tx /\ below.opens = opens /\ below.unit = t.unit /\ below.begins = t.begins
  BY <1>4, <1>6 DEF Frames
<1>12. /\ inner \in Frames /\ inner.call = t.call /\ inner.pos = t.pos + 1 /\ inner.bound = Binds(t)
       /\ inner.tx = (t.tx \/ opens) /\ inner.opens = FALSE /\ inner.unit = t.unit
       /\ inner.begins = FALSE
  <2>1. PICK b \in Calls \cup {"nil"} : b = Binds(t)
    BY <1>10
  <2>2. inner = [t EXCEPT !.pos = @ + 1, !.tx = @ \/ opens, !.begins = FALSE, !.bound = b]
    BY <2>1, <1>7
  <2>3. inner = [call |-> t.call, pos |-> t.pos + 1, bound |-> b, tx |-> t.tx \/ opens,
                 opens |-> FALSE, unit |-> t.unit, begins |-> FALSE]
    BY <2>2, <1>4, <1>9 DEF Frames
  <2>4. t.pos + 1 \in Nat /\ (t.tx \/ opens) \in BOOLEAN
    BY <1>9
  <2> QED BY <2>1, <2>3, <2>4, <1>9 DEF Frames
<1> HIDE DEF n
<1>13. PICK s : s = Append(Below, below)
  OBVIOUS
<1>14. /\ s \in Seq(Frames) /\ Len(s) = n /\ s[n] = below
       /\ \A i \in 1..(n - 1) : s[i] = stack[i]
  <2>1. /\ s \in Seq(Frames) /\ Len(s) = Len(Below) + 1 /\ s[Len(Below) + 1] = below
        /\ \A i \in 1..Len(Below) : s[i] = Below[i]
    BY <1>2, <1>11, <1>13, Appended
  <2> QED BY <2>1, <1>2
<1>15. /\ stack' \in Seq(Frames) /\ Len(stack') = n + 1 /\ stack'[n + 1] = inner /\ stack'[n] = below
       /\ \A i \in 1..(n - 1) : stack'[i] = stack[i]
  <2>1. /\ stack' \in Seq(Frames) /\ Len(stack') = Len(s) + 1 /\ stack'[Len(s) + 1] = inner
        /\ \A i \in 1..Len(s) : stack'[i] = s[i]
    BY <1>8, <1>12, <1>13, <1>14, Appended
  <2>2. n \in 1..n /\ (\A i \in 1..(n - 1) : i \in 1..n)
    BY <1>2
  <2> QED BY <2>1, <2>2, <1>14
<1>16. /\ DOMAIN stack' = 1..(n + 1) /\ n + 1 \in 1..(n + 1) /\ n \in 1..(n + 1) /\ Top' = inner
       /\ \A i \in 1..(n + 1) : i = n + 1 \/ i = n \/ i \in 1..(n - 1)
  BY <1>2, <1>15 DEF Top
<1>17. CallType'
  <2>1. current' \in Nat
    BY <1>3, <1>9 DEF CallInv, CallType, Descends
  <2> QED BY <2>1, <1>15 DEF CallInv, CallType
<1>18. ChainInv'
  BY DEF CallInv, ChainInv
<1>19. /\ chain[t.call] \in Seq(Kinds) /\ Len(chain[t.call]) \in Nat /\ chain[t.call] # <<>>
       /\ t.pos >= 1 /\ t.pos <= Len(chain[t.call]) /\ chain[t.call][1] = "bind"
       /\ info[t.call].tp = Propagation(Tag[t.call])
  <2>1. chain[t.call] \in Seq(Kinds) /\ chain[t.call] # <<>>
    BY <1>4, <1>9 DEF CallInv, CallType, FrameOK
  <2>2. Len(chain[t.call]) \in Nat
    BY <2>1
  <2>3. ~Handles(t) /\ t.pos \in 1..(Len(chain[t.call]) + 1)
    BY <1>3, <1>4 DEF FrameOK
  <2>4. t.pos >= 1 /\ t.pos <= Len(chain[t.call])
    BY <2>2, <2>3, <1>9 DEF Handles
  <2>5. chain[t.call][1] = "bind" /\ info[t.call].tp = Propagation(Tag[t.call])
    BY <2>1, <1>9 DEF CallInv, ChainInv
  <2> QED BY <2>1, <2>2, <2>4, <2>5
<1>20. current' = IF opens THEN t.unit ELSE current
  BY <1>3 DEF Descends
<1>21. FrameOK(below)'
  <2>1. opens => ~Handles(below)
    BY <1>3, <1>11 DEF Handles
  <2>2. opens \/ t.tx => t.unit = current' /\ t.unit # 0
    BY <1>4, <1>5, <1>20 DEF FrameOK
  <2> QED BY <2>1, <2>2, <1>4, <1>5, <1>11 DEF FrameOK, Handles, Requires
<1>22. FrameOK(inner)'
  <2>1. inner.pos \in 1..(Len(chain[t.call]) + 1)
    BY <1>9, <1>12, <1>19
  <2>2. inner.bound = t.call
    <3>1. CASE t.pos = 1
      BY <3>1, <1>12, <1>19 DEF Binds, Kind
    <3>2. CASE t.pos > 1
      BY <3>2, <1>4, <1>10, <1>12 DEF FrameOK
    <3> QED BY <3>1, <3>2, <1>9, <1>19
  <2>3. inner.tx => t.unit = current' /\ t.unit # 0
    BY <1>4, <1>5, <1>12, <1>20 DEF FrameOK
  <2>4. ASSUME t.unit # 0, ~inner.tx
        PROVE  Requires(t.call) /\ \E p \in (t.pos + 1)..Len(chain[t.call]) : chain[t.call][p] = "tx"
    <3>1. ~t.tx /\ ~opens
      BY <2>4, <1>12
    <3>2. Requires(t.call) /\ \E p \in t.pos..Len(chain[t.call]) : chain[t.call][p] = "tx"
      BY <2>4, <3>1, <1>4 DEF FrameOK
    <3>3. PICK p \in t.pos..Len(chain[t.call]) : chain[t.call][p] = "tx"
      BY <3>2
    <3>4. p # t.pos
      <4> SUFFICES ASSUME p = t.pos PROVE FALSE
        OBVIOUS
      <4>1. Kind(t) = "tx"
        BY <3>3 DEF Kind
      <4>2. t.pos # 1
        BY <3>3, <1>19
      <4>3. t.pos > 1
        BY <4>2, <1>9, <1>19
      <4>4. t.bound = t.call
        BY <4>3, <1>4 DEF FrameOK
      <4>5. Opens(t)
        BY <3>1, <3>2, <4>4, <1>19 DEF Opens, Requires
      <4> QED BY <4>1, <4>5, <3>1, <1>3
    <3>5. p \in (t.pos + 1)..Len(chain[t.call])
      BY <3>3, <3>4, <1>9, <1>19
    <3> QED BY <3>2, <3>3, <3>5
  <2>5. t.unit <= Len(outcome) /\ (Requires(t.call) => t.unit # 0)
    BY <1>4 DEF FrameOK
  <2> QED BY <2>1, <2>2, <2>3, <2>4, <2>5, <1>12, <1>19 DEF FrameOK, Handles, Requires
<1>23. ASSUME NEW i \in 1..(n - 1) PROVE i \in DOMAIN stack /\ i < n /\ stack'[i] = stack[i]
  BY <1>2, <1>15
<1>24. ASSUME NEW i \in 1..(n - 1) PROVE FrameOK(stack[i])'
  <2>1. PICK g : g = stack[i]
    OBVIOUS
  <2>2. FrameOK(g) /\ stack'[i] = g
    BY <2>1, <1>1, <1>23 DEF StackInv
  <2>3. g.opens \/ g.tx => ~opens
    BY <2>1, <1>4, <1>5
  <2>4. g.opens \/ g.tx => g.unit = current' /\ g.unit # 0
    BY <2>2, <2>3, <1>20 DEF FrameOK
  <2>5. FrameOK(g)'
    BY <2>2, <2>4 DEF FrameOK, Handles, Requires
  <2> QED BY <2>2, <2>5 DEF FrameOK, Handles, Requires
\* The frames below and the own one against one above them.
<1>25. ASSUME NEW i \in 1..(n - 1)
       PROVE  /\ stack[i].opens => t.tx
              /\ stack[i].unit # 0 => t.unit = stack[i].unit /\ ~t.begins
  BY <1>1, <1>2, <1>4, <1>23, ZenonT(30) DEF StackInv
<1>26. ASSUME NEW i \in 1..(n + 1), NEW j \in 1..(n + 1), i < j
       PROVE  /\ stack'[i].opens => stack'[j].tx
              /\ stack'[i].unit # 0 => stack'[j].unit = stack'[i].unit /\ ~stack'[j].begins
  <2>1. CASE i = n
    <3>1. j = n + 1
      BY <2>1, <1>2, <1>26
    <3>2. stack'[i] = below /\ stack'[j] = inner
      BY <2>1, <3>1, <1>15
    <3> QED BY <3>2, <1>11, <1>12
  <2>2. CASE i \in 1..(n - 1) /\ j = n
    <3>1. stack'[i] = stack[i] /\ stack'[j] = below
      BY <2>2, <1>15
    <3> QED BY <2>2, <3>1, <1>11, <1>25
  <2>3. CASE i \in 1..(n - 1) /\ j = n + 1
    <3>1. stack'[i] = stack[i] /\ stack'[j] = inner
      BY <2>3, <1>15
    <3> QED BY <2>3, <3>1, <1>12, <1>25
  <2>4. CASE i \in 1..(n - 1) /\ j \in 1..(n - 1)
    <3>1. stack'[i] = stack[i] /\ stack'[j] = stack[j] /\ i \in DOMAIN stack /\ j \in DOMAIN stack
      BY <2>4, <1>23
    <3> QED BY <3>1, <1>1, <1>26 DEF StackInv
  <2>5. i # n + 1
    BY <1>2, <1>26
  <2> QED BY <2>1, <2>2, <2>3, <2>4, <2>5, <1>16
<1>27. ASSUME NEW i \in 1..n
       PROVE  i \in 1..(n + 1) /\ i < n + 1 /\ i <= n + 1 /\ stack'[i].begins = stack[i].begins
              /\ (stack[i].opens => stack'[i].opens)
  <2>1. i \in 1..(n + 1) /\ i < n + 1 /\ i <= n + 1 /\ (i = n \/ i \in 1..(n - 1))
    BY <1>2
  <2>2. CASE i = n
    BY <2>1, <2>2, <1>4, <1>11, <1>15
  <2>3. CASE i \in 1..(n - 1)
    BY <2>1, <2>3, <1>15
  <2> QED BY <2>1, <2>2, <2>3
<1>28. ASSUME NEW j \in 1..n
       PROVE  /\ stack[j].tx => \E i \in 1..(n + 1) : i < j /\ stack'[i].opens
              /\ stack[j].unit # 0 => \E i \in 1..(n + 1) : i <= j /\ stack'[i].begins
  <2>1. stack[j].tx => \E i \in 1..n : i < j /\ stack[i].opens
    BY <1>1, <1>2 DEF StackInv
  <2>2. stack[j].unit # 0 => \E i \in 1..n : i <= j /\ stack[i].begins
    BY <1>1, <1>2 DEF StackInv
  <2> QED BY <2>1, <2>2, <1>27
<1>29. ASSUME NEW j \in 1..(n + 1)
       PROVE  /\ stack'[j].tx => \E i \in 1..(n + 1) : i < j /\ stack'[i].opens
              /\ stack'[j].unit # 0 => \E i \in 1..(n + 1) : i <= j /\ stack'[i].begins
  <2>1. CASE j \in 1..(n - 1)
    <3>1. j \in 1..n /\ stack'[j] = stack[j]
      BY <2>1, <1>2, <1>15
    <3> QED BY <3>1, <1>28
  <2>2. CASE j = n
    <3>1. j \in 1..n /\ stack'[j].tx = stack[j].tx /\ stack'[j].unit = stack[j].unit
      BY <2>2, <1>2, <1>4, <1>11, <1>15
    <3> QED BY <3>1, <1>28
  <2>3. CASE j = n + 1
    <3>1. stack'[j] = inner /\ n \in 1..n /\ n < j /\ stack'[n].opens = opens
      BY <2>3, <1>2, <1>11, <1>15
    <3>2. /\ stack[n].tx => \E i \in 1..(n + 1) : i < n /\ stack'[i].opens
          /\ stack[n].unit # 0 => \E i \in 1..(n + 1) : i <= n /\ stack'[i].begins
      BY <3>1, <1>28
    <3>3. ASSUME NEW i \in 1..(n + 1), i <= n PROVE i < j /\ i <= j
      BY <2>3, <3>3, <1>2
    <3>4. ASSUME NEW i \in 1..(n + 1), i < n PROVE i <= n
      BY <3>4, <1>2
    <3>5. t.tx => \E i \in 1..(n + 1) : i < j /\ stack'[i].opens
      BY <3>2, <3>3, <3>4, <1>4
    <3>6. inner.tx => \E i \in 1..(n + 1) : i < j /\ stack'[i].opens
      BY <3>1, <3>5, <1>12, <1>16
    <3>7. inner.unit # 0 => \E i \in 1..(n + 1) : i <= j /\ stack'[i].begins
      BY <3>2, <3>3, <1>4, <1>12
    <3> QED BY <3>1, <3>6, <3>7
  <2> QED BY <2>1, <2>2, <2>3, <1>16
<1>30. ASSUME current' # 0 PROVE \E i \in 1..(n + 1) : stack'[i].opens
  <2>1. CASE opens
    BY <2>1, <1>11, <1>15, <1>16
  <2>2. CASE ~opens
    <3>1. PICK i \in 1..n : stack[i].opens
      BY <2>2, <1>1, <1>2, <1>20, <1>30 DEF StackInv
    <3> QED BY <3>1, <1>27
  <2> QED BY <2>1, <2>2
<1>31. StackInv'
  <2>1. ASSUME NEW i \in 1..(n + 1) PROVE FrameOK(stack[i])'
    <3>1. CASE i = n + 1
      BY <3>1, <1>15, <1>22 DEF FrameOK, Handles, Requires
    <3>2. CASE i = n
      BY <3>2, <1>15, <1>21 DEF FrameOK, Handles, Requires
    <3> QED BY <3>1, <3>2, <1>16, <1>24
  <2>2. ~Top'.opens
    BY <1>12, <1>16
  <2> QED BY <2>1, <2>2, <1>16, <1>26, <1>29, <1>30 DEF StackInv
<1>32. UnitInv'
  <2>1. \A u \in 1..Len(outcome') : Settled(u, outcome[u])'
    BY <1>1 DEF UnitInv, Settled
  <2>2. current' = 0 => buffer' = {} /\ ~opens /\ current = 0
    BY <1>1, <1>5, <1>20 DEF UnitInv
  <2>3. current' # 0 => \A w \in written' : (w.unit = current' <=> w \in buffer')
                                             /\ (w.unit = current' => w \notin durable')
    <3>1. CASE opens
      BY <3>1, <1>5, <1>20
    <3>2. CASE ~opens
      BY <3>2, <1>1, <1>20 DEF UnitInv
    <3> QED BY <3>1, <3>2
  <2>4. ASSUME t.unit # 0
        PROVE  /\ outcome'[t.unit] = "none"
               /\ current' = 0 => \A w \in written' : w.unit # t.unit
    BY <2>2, <2>4, <1>1, <1>3 DEF UnitInv
  <2>5. \A u : Settled(u, ret)'
    BY DEF Settled
  <2> QED BY <2>1, <2>2, <2>3, <2>4, <2>5, <1>12, <1>16 DEF UnitInv
<1> QED BY <1>17, <1>18, <1>31, <1>32 DEF CallInv

\* A middleware calls next, or cannot begin its transaction.
LEMMA EnterKeeps ==
    ASSUME CallInv, Enter
    PROVE  CallInv'
<1>1. stack # <<>> /\ ret = "running" /\ ~Handles(Top)
      /\ UNCHANGED <<info, chain, buffer, durable, written, outcome>>
  BY DEF Enter
<1>2. CASE Kind(Top) = "tx" /\ Opens(Top) /\ stack' = Below /\ ret' = "error" /\ UNCHANGED current
  BY <1>1, <1>2, BeginFails
<1>3. CASE ~(Kind(Top) = "tx" /\ Opens(Top) /\ stack' = Below /\ ret' = "error" /\ UNCHANGED current)
  <2>1. PICK opens \in BOOLEAN : opens = (Kind(Top) = "tx" /\ Opens(Top))
    OBVIOUS
  <2>2. Descends(opens) /\ UNCHANGED ret
    BY <1>3, <2>1 DEF Enter, Descends
  <2>3. opens <=> Kind(Top) = "tx" /\ Opens(Top)
    BY <2>1
  <2> QED BY <1>1, <2>2, <2>3, NextKeeps
<1> QED BY <1>2, <1>3

-------------------------------------------------------------------------------
(* All steps *)

\* Every step keeps the invariant.
LEMMA CallStep ==
    ASSUME CallInv, [CallNext]_callVars
    PROVE  CallInv'
<1>1. CASE UNCHANGED callVars
  <2>1. CallType'
    BY <1>1 DEF callVars, CallInv, CallType
  <2>2. ChainInv'
    BY <1>1 DEF callVars, CallInv, ChainInv
  <2>3. StackInv'
    BY <1>1 DEF callVars, CallInv, StackInv, FrameOK, Handles, Top
  <2>4. UnitInv'
    BY <1>1 DEF callVars, CallInv, UnitInv, Settled, Top
  <2> QED BY <2>1, <2>2, <2>3, <2>4 DEF CallInv
<1>2. CASE \E c \in Calls : Build(c) \/ Request(c) \/ Nested(c)
  BY <1>2, BuildKeeps, RequestKeeps, NestedKeeps
<1>3. CASE Enter \/ Write \/ Resume \/ Leave \/ Answer
  BY <1>3, EnterKeeps, WriteKeeps, ResumeKeeps, LeaveKeeps, AnswerKeeps
<1>4. CASE \E how \in Results : HandlerReturns(how)
  BY <1>4, HandlerReturnsKeeps
<1> QED BY <1>1, <1>2, <1>3, <1>4 DEF CallNext, Results

\* What the invariant says of the writes and their units.
LEMMA CallSound ==
    ASSUME CallInv
    PROVE  TxAllOrNothing
<1>1. ASSUME NEW w \in written, w.unit # 0
      PROVE  /\ w.unit = current => w \notin durable
             /\ outcome[w.unit] = "ok" => w \in durable
             /\ outcome[w.unit] \in {"error", "panic"} => w \notin durable
  <2>1. w.unit \in 1..Len(outcome)
    <3>1. outcome \in Seq({"none", "ok", "error", "panic"}) /\ w.unit \in 0..Len(outcome)
      BY DEF CallInv, CallType
    <3> QED BY <3>1, <1>1
  <2>2. Settled(w.unit, outcome[w.unit])
    BY <2>1 DEF CallInv, UnitInv
  <2>3. w.unit = current => w \notin durable
    BY <1>1 DEF CallInv, UnitInv
  <2> QED BY <2>2, <2>3 DEF Settled
<1>2. stack = <<>> => buffer = {} /\ current = 0
  <2>1. stack = <<>> => current = 0
    BY DEF CallInv, StackInv
  <2> QED BY <2>1 DEF CallInv, UnitInv
<1> QED BY <1>1, <1>2 DEF TxAllOrNothing

\* The unit of work of an outermost REQUIRED call is all or nothing and its caller
\* knows which (doTransactionWithRequired and the transaction middleware), for all
\* services, tags, middlewares, orders of equal rank and depths of nested calls.
THEOREM CallsAllOrNothing == CallSpec => []TxAllOrNothing
<1>1. CallInv /\ [CallNext]_callVars => CallInv'
  BY CallStep
<1>2. CallInv => TxAllOrNothing
  BY CallSound
<1> QED BY CallBoot, <1>1, <1>2, PTL DEF CallSpec

-------------------------------------------------------------------------------
(* The generated tables and their data access objects *)

\* The artefacts of a table agree: every column has a role; every column that
\* FindByStruct takes for the use of an index leads one; a named query that passes
\* ValidateLeadingCol compares the first column of one; updates ask for the last
\* column of the key, and for the version of a table with an optimistic lock.
Leads(t, col) == \E ix \in {t.pk} \cup t.indexes : ix # <<>> /\ Head(ix) = col
Agrees(t) ==
    /\ t.cols \subseteq t.roles.plain \cup t.roles.primary \cup t.roles.index \cup t.roles.special
    /\ \A col \in t.used : Leads(t, col)
    /\ \A q \in DOMAIN t.queries : \A p \in DOMAIN t.queries[q] : \A lead \in t.leading :
         Contains(t.queries[q][p], lead) => Leads(t, t.queries[q][p])
    /\ t.update.key # {} => Len(t.pk) > 0 /\ t.pk[Len(t.pk)] \in t.update.key
    /\ t.lock # {} => t.update.valid # {}

\* Types of the table, the entities and the walk over the pages.
Rows == [version : Nat, hist : SUBSET Nat]
Entities == [row : Nat, cols : SUBSET KeyCols, version : Nat, hist : SUBSET Nat, loaded : BOOLEAN]
Walks == [size : Nat, page : Nat, total : Int, got : Seq(Nat), dirty : BOOLEAN, done : BOOLEAN]
DaoType ==
    /\ table \in DOMAIN TableOf
    /\ rows \in Seq(Rows) /\ Len(rows) <= MaxRows
    /\ confirmed \in [1..MaxRows -> SUBSET Nat]
    /\ entity \in [Clients -> Entities]
    /\ pages \in Walks

\* Updates are numbered from 1 on, each number belongs to one row, and to one that
\* exists.
StampInv ==
    /\ Cardinality(Stamps) \in Nat /\ Stamps = 1..Cardinality(Stamps)
    /\ \A i, j \in 1..MaxRows : i # j => confirmed[i] \cap confirmed[j] = {}
    /\ \A i \in 1..MaxRows : i > Len(rows) => confirmed[i] = {}

\* With a lock, a row and every entity that has its version have seen all
\* confirmed updates of it.
LockInv ==
    T.lock # {} =>
        /\ \A i \in 1..Len(rows) : confirmed[i] \subseteq rows[i].hist
        /\ \A c \in Clients : entity[c].version # 0 =>
             /\ entity[c].row \in 1..Len(rows) /\ entity[c].version <= rows[entity[c].row].version
             /\ entity[c].version = rows[entity[c].row].version =>
                   confirmed[entity[c].row] \subseteq entity[c].hist

\* The pages a walk has read.
PagesRead == IF pages.total >= 0 THEN pages.page - 1 ELSE pages.page
Least(a, b) == IF a < b THEN a ELSE b

\* A walk nothing has disturbed has read the rows of its pages.
PageInv ==
    /\ pages.page > 0 => pages.size > 0
    /\ pages.page = 0 => pages.total < 0 /\ pages.got = <<>> /\ ~pages.done
    /\ pages.page > 0 /\ ~pages.dirty /\ dbType = "MYSQL" =>
         /\ pages.total >= 0 => pages.total = Len(rows)
         /\ pages.got = [i \in 1..Least(PagesRead * pages.size, Len(rows)) |-> i]
         /\ pages.done => pages.total < 0 /\ pages.page * pages.size >= Len(rows)

DaoInv == DaoType /\ StampInv /\ LockInv /\ QueriesUseIndexes /\ PageInv

\* The indexes of the school's tables, by their leading columns.
LEMMA SchoolLeads ==
    ASSUME NEW t, t.indexes = SchoolIndexes, NEW col \in {"class_id", "name", "card_no", "phone"}
    PROVE  Leads(t, col)
<1>1. CASE col = "name"
  <2>1. <<"name", "address">> \in t.indexes /\ <<"name", "address">> # <<>>
        /\ Head(<<"name", "address">>) = "name"
    BY DEF SchoolIndexes
  <2> QED BY <1>1, <2>1 DEF Leads
<1>2. CASE col # "name"
  <2>1. <<col>> \in t.indexes /\ <<col>> # <<>> /\ Head(<<col>>) = col
    BY <1>2 DEF SchoolIndexes
  <2> QED BY <2>1 DEF Leads
<1> QED BY <1>1, <1>2

\* All six tables agree with themselves.
LEMMA TablesAgree == \A n \in DOMAIN TableOf : Agrees(TableOf[n])
<1>1. Agrees(TmTeacher)
  <2> DEFINE t == TmTeacher
  <2> USE DEF TmTeacher, Table, TmTeacherStruct, TmTeacherUpdateByPrimaryKey
  <2>1. t.cols \subseteq t.roles.plain \cup t.roles.primary \cup t.roles.index \cup t.roles.special
    BY DEF TmTeacherListZeroValueCols, Roles
  <2>2. \A col \in {"id", "class_id", "name", "card_no", "phone"} : Leads(t, col)
    <3>1. t.pk = <<"id">> /\ <<"id">> # <<>> /\ Head(<<"id">>) = "id" /\ t.indexes = SchoolIndexes
      OBVIOUS
    <3> HIDE DEF t
    <3>2. Leads(t, "id")
      BY <3>1 DEF Leads
    <3> QED BY <3>1, <3>2, SchoolLeads
  <2>3. \A q \in DOMAIN t.queries : \A p \in DOMAIN t.queries[q] : \A lead \in t.leading :
           Contains(t.queries[q][p], lead) => t.queries[q][p] \in {"name", "phone"}
    BY DEF TmTeacherConditionMap, TmTeacherIndexLeadingCols, Contains
  <2>4. t.update.key # {} => Len(t.pk) > 0 /\ t.pk[Len(t.pk)] \in t.update.key
    OBVIOUS
  <2>5. t.lock # {} => t.update.valid # {}
    OBVIOUS
  <2>6. \A col \in t.used : Leads(t, col)
    BY <2>2 DEF TmTeacherFindByStruct
  <2> HIDE DEF t
  <2> QED BY <2>1, <2>2, <2>3, <2>4, <2>5, <2>6, ZenonT(30) DEF Agrees, t
<1>2. Agrees(Tbl3dsRequest)
  BY SMTT(30) DEF Agrees, Leads, Tbl3dsRequest, Table, Tbl3dsRequestStruct, Tbl3dsRequestListZeroValueCols, Roles,
         Tbl3dsRequestFindByStruct, Tbl3dsRequestUpdateByPrimaryKey,
         Tbl3dsRequestIndexLeadingCols, Tbl3dsRequestConditionMap, Contains
<1>3. Agrees(TmStudent)
  BY SMTT(30) DEF Agrees, Leads, TmStudent, Table, TmStudentStruct, TmStudentListZeroValueCols, Roles, SchoolIndexed,
         Special, SchoolIndexes, StudentCols, TmStudentFindByStruct, TmStudentUpdateByPrimaryKey,
         TmStudentIndexLeadingCols, TmStudentFindByCustomerRule, Contains
<1>4. Agrees(TmNoIndex)
  <2> DEFINE t == TmNoIndex
  <2> USE DEF TmNoIndex, Table, TmNoIndexStruct, TmNoIndexUpdateByPrimaryKey
  <2>1. t.cols \subseteq t.roles.plain \cup t.roles.primary \cup t.roles.index \cup t.roles.special
    BY DEF TmNoIndexListZeroValueCols, Roles, StudentCols, SchoolIndexed, Special
  <2>2. t.pk = <<"tenant_id", "student_no">> /\ t.pk # <<>> /\ Head(t.pk) = "tenant_id"
        /\ t.used = {"tenant_id"} /\ DOMAIN t.queries = {}
    BY DEF TmNoIndexFindByStruct, TmNoIndexFindByCustomerRule
  <2>3. t.update.key # {} => Len(t.pk) > 0 /\ t.pk[Len(t.pk)] \in t.update.key
    OBVIOUS
  <2>4. t.lock # {} => t.update.valid # {}
    OBVIOUS
  <2> HIDE DEF t
  <2> QED BY <2>1, <2>2, <2>3, <2>4 DEF Agrees, Leads, t
<1>5. Agrees(TmNoPrimary)
  <2> DEFINE t == TmNoPrimary
  <2> USE DEF TmNoPrimary, Table, TmNoPrimaryStruct, TmNoPrimaryUpdateByPrimaryKey
  <2>1. t.cols \subseteq t.roles.plain \cup t.roles.primary \cup t.roles.index \cup t.roles.special
    BY DEF TmNoPrimaryListZeroValueCols, Roles, StudentCols, SchoolIndexed, Special
  <2>2. t.indexes = SchoolIndexes /\ t.used = {"card_no", "phone", "class_id", "name"}
        /\ DOMAIN t.queries = {}
    BY DEF TmNoPrimaryFindByStruct, TmNoPrimaryFindByCustomerRule
  <2>3. t.update.key = {} /\ t.lock = {}
    OBVIOUS
  <2> HIDE DEF t
  <2>4. \A col \in t.used : Leads(t, col)
    BY <2>2, SchoolLeads
  <2> QED BY <2>1, <2>2, <2>3, <2>4 DEF Agrees, t
<1>6. Agrees(TmNo)
  BY DEF Agrees, Leads, TmNo, Table, TmNoStruct, TmNoListZeroValueCols, Roles,
         Special, TmNoFindByStruct, TmNoUpdateByPrimaryKey, TmNoFindByCustomerRule, Contains
<1> QED BY <1>1, <1>2, <1>3, <1>4, <1>5, <1>6 DEF TableOf

-------------------------------------------------------------------------------
(* Pages *)

\* Products of naturals grow with their factors.
LEMMA TimesGrows ==
    ASSUME NEW a \in Nat, NEW b \in Nat, NEW c \in Nat, a <= b
    PROVE  a * c <= b * c
<1>1. PICK d \in Nat : b = a + d
  <2>1. b - a \in Nat /\ b = a + (b - a)
    OBVIOUS
  <2> QED BY <2>1
<1>2. (a + d) * c = a * c + d * c
  OBVIOUS
<1>3. d * c \in Nat /\ a * c \in Nat
  OBVIOUS
<1> QED BY <1>1, <1>2, <1>3

\* Quotient and remainder.
LEMMA Divides ==
    ASSUME NEW n \in Nat, NEW d \in Nat, d > 0
    PROVE  /\ n \div d \in Nat /\ n % d \in Nat
           /\ n = (n \div d) * d + (n % d) /\ n % d < d
OBVIOUS

\* So many pages hold all rows.
LEMMA PagesHold ==
    ASSUME NEW page \in Nat, NEW size \in Nat, size > 0, NEW total \in Nat,
           page >= total \div size + (IF total % size # 0 THEN 1 ELSE 0)
    PROVE  page * size >= total
<1>1. PICK q \in Nat, r \in Nat : /\ q = total \div size /\ r = total % size
                                  /\ total = q * size + r /\ r < size
  BY Divides
<1>2. CASE r = 0
  <2>1. q * size <= page * size
    BY <1>1, <1>2, TimesGrows
  <2> QED BY <2>1, <1>1, <1>2
<1>3. CASE r # 0
  <2>1. q + 1 \in Nat /\ q + 1 <= page
    BY <1>1, <1>3
  <2>2. (q + 1) * size <= page * size
    BY <2>1, TimesGrows
  <2>3. (q + 1) * size = q * size + size
    OBVIOUS
  <2>4. q * size \in Nat /\ page * size \in Nat
    OBVIOUS
  <2> QED BY <2>2, <2>3, <2>4, <1>1
<1> QED BY <1>2, <1>3

\* The window of a page.
LEMMA WindowIs ==
    ASSUME NEW page \in Nat, page > 0, NEW size \in Nat, size > 0, NEW total \in Nat, NEW db
    PROVE  LET p == CalcPageStartRecord(page, size, total, db)
           IN  /\ p.start \in Nat /\ p.enable \in BOOLEAN /\ p.totalPage \in Nat
               /\ page >= p.totalPage => page * size >= total
               /\ db = "MYSQL" /\ p.enable => p.start = (page - 1) * size /\ p.start <= total
               /\ db = "MYSQL" /\ ~p.enable => (page - 1) * size >= total
<1> DEFINE p == CalcPageStartRecord(page, size, total, db)
           start == (page - 1) * size + (IF db = "MYSQL" THEN 0 ELSE 1)
           tot == total \div size + (IF total % size # 0 THEN 1 ELSE 0)
           end == IF db = "MYSQL" THEN size ELSE start + size - 1
<1>1. PICK m \in Nat : m = (page - 1) * size
  <2>1. page - 1 \in Nat
    OBVIOUS
  <2>2. (page - 1) * size \in Nat
    BY <2>1
  <2> QED BY <2>2
<1>2. start = m + (IF db = "MYSQL" THEN 0 ELSE 1) /\ start \in Nat
  BY <1>1
<1>3. tot \in Nat /\ (page >= tot => page * size >= total)
  BY Divides, PagesHold
<1>4. CASE total = 0
  <2>1. p = [start |-> 0, end |-> 0, totalPage |-> 0, enable |-> FALSE]
    BY <1>4 DEF CalcPageStartRecord
  <2>2. page * size \in Nat
    OBVIOUS
  <2> HIDE DEF p
  <2> QED BY <2>1, <2>2, <1>1, <1>4 DEF p
<1>5. CASE total # 0 /\ start > total
  <2>1. p = [start |-> page, end |-> size, totalPage |-> tot, enable |-> FALSE]
    BY <1>5, SMTT(30) DEF CalcPageStartRecord
  <2> HIDE DEF p, tot, start
  <2>2. p.start = page /\ p.totalPage = tot /\ p.enable = FALSE
    BY <2>1
  <2>3. db = "MYSQL" => m >= total
    BY <1>2, <1>5
  <2> QED BY <2>2, <2>3, <1>1, <1>3 DEF p
<1>6. CASE total # 0 /\ ~(start > total)
  <2>1. p = [start |-> start, end |-> IF end > total THEN total ELSE end, totalPage |-> tot,
             enable |-> TRUE]
    BY <1>6, SMTT(30) DEF CalcPageStartRecord
  <2> HIDE DEF p, tot, start, end
  <2>2. p.start = start /\ p.totalPage = tot /\ p.enable = TRUE
    BY <2>1
  <2>3. db = "MYSQL" => start = m /\ start <= total
    BY <1>2, <1>6
  <2> QED BY <2>2, <2>3, <1>1, <1>2, <1>3 DEF p
<1> QED BY <1>4, <1>5, <1>6

\* The rows of a page follow those of the pages before it.
LEMMA PageFollows ==
    ASSUME NEW s \in Nat, NEW m \in Nat
    PROVE  LET all == [i \in 1..m |-> i]
           IN  /\ SubSeq(all, s + 1, Len(all)) \in Seq(Nat)
               /\ s <= m => [i \in 1..s |-> i] \o SubSeq(all, s + 1, Len(all)) = all
<1> DEFINE all == [i \in 1..m |-> i]
           before == [i \in 1..s |-> i]
           rest == SubSeq(all, s + 1, Len(all))
<1>1. all \in Seq(Nat) /\ Len(all) = m /\ (\A i \in 1..m : all[i] = i)
  OBVIOUS
<1>2. before \in Seq(Nat) /\ Len(before) = s /\ (\A i \in 1..s : before[i] = i)
  OBVIOUS
<1> HIDE DEF all, before
<1>3. /\ rest \in Seq(Nat)
      /\ s <= m => Len(rest) = m - s /\ (\A i \in 1..(m - s) : rest[i] = all[s + i])
  <2>1. CASE s <= m
    <3>1. rest \in Seq(Nat)
      BY <2>1, <1>1
    <3>2. Len(rest) = m - s
      BY <2>1, <1>1
    <3>3. \A i \in 1..(m - s) : rest[i] = all[s + i]
      <4> SUFFICES ASSUME NEW i \in 1..(m - s) PROVE rest[i] = all[s + i]
        OBVIOUS
      <4>1. (s + 1) + i - 1 = s + i
        OBVIOUS
      <4> QED BY <2>1, <4>1, <1>1
    <3> QED BY <3>1, <3>2, <3>3
  <2>2. CASE s > m
    BY <2>2, <1>1
  <2> QED BY <2>1, <2>2
<1> HIDE DEF rest
<1>4. ASSUME s <= m PROVE before \o rest = all
  <2>1. /\ before \o rest \in Seq(Nat) /\ Len(before \o rest) = Len(before) + Len(rest)
        /\ \A i \in 1..Len(before) : (before \o rest)[i] = before[i]
        /\ \A j \in 1..Len(rest) : (before \o rest)[Len(before) + j] = rest[j]
    <3>1. before \in Seq(Nat) /\ rest \in Seq(Nat)
      BY <1>2, <1>3, Zenon
    <3> QED BY <3>1, ConcatAt
  <2>2. Len(before \o rest) = m
    BY <2>1, <1>2, <1>3, <1>4
  <2>3. ASSUME NEW i \in 1..m PROVE (before \o rest)[i] = all[i]
    <3>1. CASE i <= s
      BY <3>1, <2>1, <1>1, <1>2
    <3>2. CASE i > s
      <4>1. i - s \in 1..(m - s) /\ s + (i - s) = i
        BY <3>2, <1>4
      <4>2. (before \o rest)[s + (i - s)] = rest[i - s]
        BY <4>1, <2>1, <1>2, <1>3, <1>4
      <4>3. rest[i - s] = all[s + (i - s)]
        BY <4>1, <1>3, <1>4
      <4> QED BY <4>1, <4>2, <4>3
    <3>3. i <= s \/ i > s
      OBVIOUS
    <3> QED BY <3>1, <3>2, <3>3, Zenon
  <2> DEFINE both == before \o rest
  <2>4. both \in Seq(Nat) /\ Len(both) = m /\ \A i \in 1..m : both[i] = all[i]
    BY <2>1, <2>2, <2>3
  <2> HIDE DEF both
  <2>5. both = all
    BY <2>4, <1>1, SeqEqual
  <2> QED BY <2>5 DEF both
<1> QED BY <1>3, <1>4 DEF all, before, rest

-------------------------------------------------------------------------------
(* Steps of the data access objects *)

\* At first there are no rows.
LEMMA DaoBoot == DaoInit => DaoInv
<1> SUFFICES ASSUME DaoInit PROVE DaoInv
  OBVIOUS
<1> USE DEF DaoInit
<1>1. DaoType
  <2>1. rows \in Seq(Rows) /\ Len(rows) <= MaxRows
    BY DaoAssumption
  <2>2. NoEntity \in Entities
    BY DEF NoEntity, Entities
  <2>3. pages \in Walks
    BY DEF NoWalk, Walks
  <2> QED BY <2>1, <2>2, <2>3 DEF DaoType
<1>2. StampInv
  <2>1. Stamps = {}
    BY DEF Stamps
  <2>2. Cardinality(Stamps) = 0
    BY <2>1, FS_EmptySet
  <2> QED BY <2>1, <2>2 DEF StampInv
<1>3. LockInv
  BY DEF LockInv, NoEntity
<1>4. QueriesUseIndexes
  BY DEF QueriesUseIndexes, Refused
<1>5. PageInv
  BY DEF PageInv, NoWalk
<1> QED BY <1>1, <1>2, <1>3, <1>4, <1>5 DEF DaoInv

\* A walk that something disturbed promises nothing.
LEMMA DirtiesKeeps ==
    ASSUME DaoInv, Dirties
    PROVE  pages' \in Walks /\ PageInv'
<1>1. pages \in Walks /\ pages' = [pages EXCEPT !.dirty = TRUE]
  BY DEF DaoInv, DaoType, Dirties
<1>2. pages' \in Walks
  BY <1>1 DEF Walks
<1>3. pages'.dirty /\ pages'.page = pages.page /\ pages'.size = pages.size /\ pages'.total = pages.total
      /\ pages'.got = pages.got /\ pages'.done = pages.done
  BY <1>1 DEF Walks
<1>4. PageInv'
  BY <1>3 DEF DaoInv, PageInv
<1> QED BY <1>2, <1>4

\* The table stays the one it was.
LEMMA SameTable ==
    ASSUME UNCHANGED table
    PROVE  T' = T /\ KeyCols' = KeyCols /\ Entities' = Entities
BY DEF T, KeyCols, Entities

\* A new row has version 1, and nobody has updated it.
LEMMA InsertKeeps ==
    ASSUME DaoInv, NEW c \in Clients, Insert(c)
    PROVE  DaoInv'
<1>1. /\ Len(rows) < MaxRows /\ rows' = Append(rows, [version |-> 1, hist |-> {}])
      /\ entity' = [entity EXCEPT ![c] = [row |-> Len(rows) + 1, cols |-> KeyCols,
                                          version |-> IF T.lock # {} THEN 1 ELSE 0,
                                          hist |-> {}, loaded |-> TRUE]]
      /\ Dirties /\ UNCHANGED <<table, dbType, asked, confirmed>>
  BY DEF Insert
<1>2. /\ rows \in Seq(Rows) /\ Len(rows) <= MaxRows /\ confirmed \in [1..MaxRows -> SUBSET Nat]
      /\ entity \in [Clients -> Entities] /\ table \in DOMAIN TableOf
  BY DEF DaoInv, DaoType
<1>3. PICK r : r = [version |-> 1, hist |-> {}]
  OBVIOUS
<1>4. r \in Rows /\ r.version = 1 /\ r.hist = {}
  BY <1>3 DEF Rows
<1>5. /\ rows' \in Seq(Rows) /\ Len(rows') = Len(rows) + 1 /\ rows'[Len(rows) + 1] = r
      /\ \A i \in 1..Len(rows) : rows'[i] = rows[i]
  BY <1>1, <1>2, <1>3, <1>4, Appended
<1>6. Len(rows) \in Nat /\ MaxRows \in Nat /\ Len(rows') <= MaxRows
  BY <1>1, <1>2, <1>5, DaoAssumption
<1>7. PICK e : e = [row |-> Len(rows) + 1, cols |-> KeyCols, version |-> IF T.lock # {} THEN 1 ELSE 0,
                    hist |-> {}, loaded |-> TRUE]
  OBVIOUS
<1>8. e \in Entities /\ e.row = Len(rows) + 1 /\ e.hist = {} /\ (e.version # 0 => e.version = 1)
  BY <1>6, <1>7 DEF Entities
<1>9. entity' \in [Clients -> Entities] /\ entity'[c] = e
      /\ (\A d \in Clients : d # c => entity'[d] = entity[d])
  BY <1>1, <1>2, <1>7, <1>8
<1>10. T' = T /\ KeyCols' = KeyCols /\ Entities' = Entities
  BY <1>1, SameTable
<1>11. pages' \in Walks /\ PageInv'
  BY <1>1, DirtiesKeeps
<1>12. DaoType'
  BY <1>1, <1>2, <1>5, <1>6, <1>9, <1>10, <1>11 DEF DaoType
<1>13. StampInv'
  <2>1. Stamps' = Stamps
    BY <1>1 DEF Stamps
  <2>2. \A i \in 1..MaxRows : i > Len(rows') => confirmed'[i] = {}
    BY <1>1, <1>5, <1>6 DEF DaoInv, StampInv
  <2> QED BY <2>1, <2>2, <1>1 DEF DaoInv, StampInv
<1>14. LockInv'
  <2> SUFFICES ASSUME T.lock # {}
               PROVE  /\ \A i \in 1..Len(rows') : confirmed[i] \subseteq rows'[i].hist
                      /\ \A d \in Clients : entity'[d].version # 0 =>
                           /\ entity'[d].row \in 1..Len(rows')
                           /\ entity'[d].version <= rows'[entity'[d].row].version
                           /\ entity'[d].version = rows'[entity'[d].row].version =>
                                 confirmed[entity'[d].row] \subseteq entity'[d].hist
    BY <1>1, <1>10 DEF LockInv
  <2>1. confirmed[Len(rows) + 1] = {}
    BY <1>1, <1>6 DEF DaoInv, StampInv
  <2>2. ASSUME NEW i \in 1..Len(rows') PROVE confirmed[i] \subseteq rows'[i].hist
    <3>1. CASE i = Len(rows) + 1
      BY <3>1, <2>1
    <3>2. CASE i \in 1..Len(rows)
      BY <3>2, <1>5 DEF DaoInv, LockInv
    <3> QED BY <3>1, <3>2, <1>5, <1>6
  <2>3. ASSUME NEW d \in Clients, entity'[d].version # 0
        PROVE  /\ entity'[d].row \in 1..Len(rows')
               /\ entity'[d].version <= rows'[entity'[d].row].version
               /\ entity'[d].version = rows'[entity'[d].row].version =>
                     confirmed[entity'[d].row] \subseteq entity'[d].hist
    <3>1. CASE d = c
      <4>1. entity'[d] = e /\ e.row = Len(rows) + 1 /\ e.version = 1 /\ rows'[e.row].version = 1
            /\ e.row \in 1..Len(rows')
        BY <3>1, <2>3, <1>4, <1>5, <1>6, <1>8, <1>9
      <4> QED BY <4>1, <2>1
    <3>2. CASE d # c
      <4>1. PICK f : f = entity[d]
        OBVIOUS
      <4>2. entity'[d] = f
        BY <3>2, <4>1, <1>9
      <4>3. /\ f.row \in 1..Len(rows) /\ f.version <= rows[f.row].version
            /\ f.version = rows[f.row].version => confirmed[f.row] \subseteq f.hist
        BY <2>3, <4>1, <4>2 DEF DaoInv, LockInv
      <4>4. f.row \in 1..Len(rows') /\ rows'[f.row] = rows[f.row]
        BY <4>3, <1>5, <1>6
      <4> QED BY <4>2, <4>3, <4>4
    <3> QED BY <3>1, <3>2
  <2> QED BY <2>2, <2>3
<1>15. QueriesUseIndexes'
  BY <1>1, <1>10 DEF DaoInv, QueriesUseIndexes
<1> QED BY <1>11, <1>12, <1>13, <1>14, <1>15 DEF DaoInv

\* A client has another entity in memory: one without a version, or one that has
\* seen the updates of its row if its version is that of the row.
LEMMA EntityKeeps ==
    ASSUME DaoInv, NEW c \in Clients, NEW e \in Entities, entity' = [entity EXCEPT ![c] = e],
           T.lock # {} /\ e.version # 0 =>
               /\ e.row \in 1..Len(rows) /\ e.version <= rows[e.row].version
               /\ e.version = rows[e.row].version => confirmed[e.row] \subseteq e.hist,
           UNCHANGED <<table, dbType, rows, asked, pages, confirmed>>
    PROVE  DaoInv'
<1>1. T' = T /\ KeyCols' = KeyCols /\ Entities' = Entities
  BY SameTable
<1>2. entity \in [Clients -> Entities]
  BY DEF DaoInv, DaoType
<1>3. entity' \in [Clients -> Entities] /\ entity'[c] = e
      /\ (\A d \in Clients : d # c => entity'[d] = entity[d])
  BY <1>2
<1>4. DaoType'
  BY <1>1, <1>3 DEF DaoInv, DaoType
<1>5. StampInv'
  BY ZenonT(30) DEF DaoInv, StampInv, Stamps
<1>6. LockInv'
  <2> SUFFICES ASSUME T.lock # {}, NEW d \in Clients, entity'[d].version # 0
               PROVE  /\ entity'[d].row \in 1..Len(rows)
                      /\ entity'[d].version <= rows[entity'[d].row].version
                      /\ entity'[d].version = rows[entity'[d].row].version =>
                            confirmed[entity'[d].row] \subseteq entity'[d].hist
    BY <1>1 DEF DaoInv, LockInv
  <2>1. CASE d = c
    BY <2>1, <1>3
  <2>2. CASE d # c
    BY <2>2, <1>3 DEF DaoInv, LockInv
  <2> QED BY <2>1, <2>2
<1>7. QueriesUseIndexes'
  BY <1>1 DEF DaoInv, QueriesUseIndexes
<1>8. PageInv'
  BY DEF DaoInv, PageInv, PagesRead
<1> QED BY <1>4, <1>5, <1>6, <1>7, <1>8 DEF DaoInv

\* An entity a client makes itself has no version.
LEMMA ConstructKeeps ==
    ASSUME DaoInv, NEW c \in Clients, NEW i \in 1..MaxRows, NEW cols \in SUBSET KeyCols,
           Construct(c, i, cols)
    PROVE  DaoInv'
<1>1. PICK e : e = [NoEntity EXCEPT !.row = i, !.cols = cols]
  OBVIOUS
<1>2. e \in Entities /\ e.version = 0
  <2>1. i \in Nat
    BY DaoAssumption
  <2>2. e = [row |-> i, cols |-> cols, version |-> 0, hist |-> {}, loaded |-> FALSE]
    BY <1>1 DEF NoEntity
  <2> QED BY <2>1, <2>2 DEF Entities
<1>3. entity' = [entity EXCEPT ![c] = e] /\ UNCHANGED <<table, dbType, rows, asked, pages, confirmed>>
  BY <1>1 DEF Construct
<1> QED BY <1>2, <1>3, EntityKeeps

\* FindByPrimaryKey: the entity has seen what its row has.
LEMMA FindKeeps ==
    ASSUME DaoInv, NEW c \in Clients, NEW i \in 1..MaxRows, FindByPrimaryKey(c, i)
    PROVE  DaoInv'
<1>1. PICK e : e = IF i \notin DOMAIN rows THEN NoEntity
                   ELSE [row |-> i, cols |-> KeyCols,
                         version |-> IF T.lock # {} THEN rows[i].version ELSE 0,
                         hist |-> rows[i].hist, loaded |-> TRUE]
  OBVIOUS
<1>2. rows \in Seq(Rows) /\ DOMAIN rows = 1..Len(rows)
  BY DEF DaoInv, DaoType
<1>3. entity' = [entity EXCEPT ![c] = e] /\ UNCHANGED <<table, dbType, rows, asked, pages, confirmed>>
  BY <1>1 DEF FindByPrimaryKey
<1>4. CASE i \notin DOMAIN rows
  <2>1. e \in Entities /\ e.version = 0
    BY <1>1, <1>4 DEF NoEntity, Entities
  <2> QED BY <2>1, <1>3, EntityKeeps
<1>5. CASE i \in DOMAIN rows
  <2>1. rows[i] \in Rows /\ i \in Nat
    BY <1>2, <1>5
  <2>2. rows[i].version \in Nat /\ rows[i].hist \in SUBSET Nat
    BY <2>1 DEF Rows
  <2>3. e = [row |-> i, cols |-> KeyCols, version |-> IF T.lock # {} THEN rows[i].version ELSE 0,
             hist |-> rows[i].hist, loaded |-> TRUE]
    BY <1>1, <1>5
  <2>4. e \in Entities /\ e.row = i /\ e.hist = rows[i].hist
        /\ (e.version # 0 => e.version = rows[i].version)
    BY <2>1, <2>2, <2>3 DEF Entities
  <2>5. T.lock # {} => confirmed[i] \subseteq rows[i].hist
    BY <1>2, <1>5 DEF DaoInv, LockInv
  <2>6. e.version # 0 => e.version <= rows[e.row].version
    BY <2>2, <2>4
  <2> QED BY <1>2, <1>3, <1>5, <2>4, <2>5, <2>6, EntityKeeps
<1> QED BY <1>4, <1>5

\* The rows an update may match: that of its entity, and with a lock only while
\* the version has not moved on.
LEMMA MatchesOwnRow ==
    ASSUME DaoInv, NEW e, MayUpdate(e), NEW i \in Matched(e)
    PROVE  /\ i \in 1..Len(rows) /\ i = e.row
           /\ T.lock # {} => e.version # 0 /\ rows[i].version = e.version
<1>1. Agrees(T) /\ rows \in Seq(Rows)
  BY TablesAgree DEF T, DaoInv, DaoType
<1>2. DOMAIN rows = 1..Len(rows)
  BY <1>1
<1>3. /\ T.update.key # {} => Len(T.pk) > 0 /\ T.pk[Len(T.pk)] \in T.update.key
      /\ T.lock # {} => T.update.valid # {}
  BY <1>1 DEF Agrees
<1>4. Len(T.pk) > 0 /\ T.pk[Len(T.pk)] \in e.cols
  BY <1>3 DEF MayUpdate
<1>5. T.lock # {} => e.version # 0
  BY <1>3 DEF MayUpdate
<1> QED BY <1>2, <1>4, <1>5 DEF Matched

\* An update adds its number to the row it matched, if any.
LEMMA UpdateKeeps ==
    ASSUME DaoInv, NEW c \in Clients, NEW all \in BOOLEAN, Update(c, all)
    PROVE  DaoInv'
<1>1. PICK e : e = entity[c]
  OBVIOUS
<1>2. PICK stamp : stamp = Cardinality(Stamps) + 1
  OBVIOUS
<1>3. PICK M : M = Matched(e)
  OBVIOUS
<1>4. /\ MayUpdate(e)
      /\ rows' = [i \in DOMAIN rows |->
            IF i \notin M THEN rows[i]
            ELSE [version |-> rows[i].version + (IF T.lock # {} THEN 1 ELSE 0),
                  hist |-> {stamp} \cup (IF all \/ e.loaded THEN e.hist ELSE rows[i].hist)]]
      /\ confirmed' = [i \in DOMAIN confirmed |->
                          IF i \in M THEN confirmed[i] \cup {stamp} ELSE confirmed[i]]
      /\ entity' = [entity EXCEPT ![c].hist = IF M = {} THEN @ ELSE @ \cup {stamp}]
      /\ Dirties /\ UNCHANGED <<table, dbType, asked>>
  BY <1>1, <1>2, <1>3 DEF Update
<1>5. /\ rows \in Seq(Rows) /\ Len(rows) <= MaxRows /\ confirmed \in [1..MaxRows -> SUBSET Nat]
      /\ entity \in [Clients -> Entities] /\ table \in DOMAIN TableOf /\ MaxRows \in Nat
  BY DaoAssumption DEF DaoInv, DaoType
<1>6. DOMAIN rows = 1..Len(rows) /\ Len(rows) \in Nat /\ DOMAIN confirmed = 1..MaxRows
      /\ (\A i \in 1..Len(rows) : rows[i] \in Rows)
  BY <1>5
<1>7. /\ Cardinality(Stamps) \in Nat /\ Stamps = 1..Cardinality(Stamps) /\ stamp \in Nat
      /\ stamp \notin Stamps /\ Stamps \cup {stamp} = 1..stamp
  BY <1>2 DEF DaoInv, StampInv
<1>8. ASSUME NEW i \in M
      PROVE  /\ i \in 1..Len(rows) /\ i = e.row
             /\ T.lock # {} => e.version # 0 /\ rows[i].version = e.version
  BY <1>3, <1>4, MatchesOwnRow
<1>9. T' = T /\ KeyCols' = KeyCols /\ Entities' = Entities
  BY <1>4, SameTable
<1>10. pages' \in Walks /\ PageInv'
  BY <1>4, DirtiesKeeps
<1>11. e \in Entities /\ e.version \in Nat /\ e.hist \in SUBSET Nat /\ e.loaded \in BOOLEAN
  BY <1>1, <1>5 DEF Entities
\* Rows
<1>12. /\ rows' \in Seq(Rows) /\ Len(rows') = Len(rows)
       /\ \A i \in 1..Len(rows) : i \notin M => rows'[i] = rows[i]
       /\ \A i \in 1..Len(rows) : i \in M =>
            /\ rows'[i].version = rows[i].version + (IF T.lock # {} THEN 1 ELSE 0)
            /\ rows'[i].hist = {stamp} \cup (IF all \/ e.loaded THEN e.hist ELSE rows[i].hist)
  <2> DEFINE new(i) == [version |-> rows[i].version + (IF T.lock # {} THEN 1 ELSE 0),
                        hist |-> {stamp} \cup (IF all \/ e.loaded THEN e.hist ELSE rows[i].hist)]
             at(i) == IF i \notin M THEN rows[i] ELSE new(i)
             n == Len(rows)
  <2>1. ASSUME NEW i \in 1..n PROVE new(i) \in Rows
    <3>1. rows[i].version \in Nat /\ rows[i].hist \in SUBSET Nat
      BY <1>6 DEF Rows
    <3>2. rows[i].version + (IF T.lock # {} THEN 1 ELSE 0) \in Nat
      BY <3>1
    <3>3. {stamp} \cup (IF all \/ e.loaded THEN e.hist ELSE rows[i].hist) \in SUBSET Nat
      BY <3>1, <1>7, <1>11
    <3> QED BY <3>2, <3>3 DEF Rows
  <2>2. \A i \in 1..n : /\ new(i).version = rows[i].version + (IF T.lock # {} THEN 1 ELSE 0)
                        /\ new(i).hist = {stamp} \cup (IF all \/ e.loaded THEN e.hist ELSE rows[i].hist)
    OBVIOUS
  <2> HIDE DEF new
  <2>3. rows' = [i \in 1..n |-> at(i)]
    BY <1>4, <1>6 DEF new
  <2>4. \A i \in 1..n : at(i) \in Rows
    BY <2>1, <1>6
  <2>5. n \in Nat
    BY <1>6
  <2> HIDE DEF n
  <2>6. rows' \in [1..n -> Rows]
    BY <2>3, <2>4
  <2>7. rows' \in Seq(Rows) /\ Len(rows') = n
    BY <2>5, <2>6
  <2>8. \A i \in 1..n : rows'[i] = IF i \notin M THEN rows[i] ELSE new(i)
    BY <2>3
  <2> QED BY <2>2, <2>7, <2>8 DEF n
\* Confirmed updates
<1>13. /\ confirmed' \in [1..MaxRows -> SUBSET Nat]
       /\ \A i \in 1..MaxRows : confirmed'[i] = IF i \in M THEN confirmed[i] \cup {stamp} ELSE confirmed[i]
  BY <1>4, <1>5, <1>6, <1>7
\* Entities
<1>14. /\ entity' \in [Clients -> Entities]
       /\ \A d \in Clients : /\ entity'[d].row = entity[d].row /\ entity'[d].version = entity[d].version
                             /\ entity[d].hist \subseteq entity'[d].hist
  <2>1. PICK f : f = [e EXCEPT !.hist = IF M = {} THEN @ ELSE @ \cup {stamp}]
    OBVIOUS
  <2>2. entity' = [entity EXCEPT ![c] = f]
    BY <2>1, <1>1, <1>4, <1>5
  <2>3. f \in Entities /\ f.row = e.row /\ f.version = e.version /\ e.hist \subseteq f.hist
    <3>1. PICK h \in SUBSET Nat : h = IF M = {} THEN e.hist ELSE e.hist \cup {stamp}
      BY <1>7, <1>11
    <3>2. f = [e EXCEPT !.hist = h]
      BY <2>1, <3>1
    <3>3. f \in Entities /\ f.row = e.row /\ f.version = e.version /\ f.hist = h
      BY <3>2, <1>11 DEF Entities
    <3> QED BY <3>1, <3>3
  <2>4. entity' \in [Clients -> Entities] /\ entity'[c] = f
        /\ (\A d \in Clients : d # c => entity'[d] = entity[d])
    BY <2>2, <2>3, <1>5
  <2> QED BY <2>3, <2>4, <1>1
<1>15. DaoType'
  <2>1. table' \in DOMAIN TableOf
    BY <1>4, <1>5
  <2>2. rows' \in Seq(Rows) /\ Len(rows') <= MaxRows
    BY <1>5, <1>12
  <2>3. entity' \in [Clients -> Entities']
    BY <1>9, <1>14, Zenon
  <2>4. confirmed' \in [1..MaxRows -> SUBSET Nat] /\ pages' \in Walks
    BY <1>10, <1>13, Zenon
  <2>5. Rows' = Rows /\ Walks' = Walks
    BY DEF Rows, Walks
  <2> QED BY <2>1, <2>2, <2>3, <2>4, <2>5, Zenon DEF DaoType
<1>16. StampInv'
  <2>1. \A i, j \in 1..MaxRows : i # j => confirmed[i] \cap confirmed[j] = {}
    BY DEF DaoInv, StampInv
  <2>2. \A i \in 1..MaxRows : i > Len(rows) => confirmed[i] = {}
    BY DEF DaoInv, StampInv
  <2>3. \A i \in 1..MaxRows : confirmed[i] \subseteq Stamps
    BY <1>6, Zenon DEF Stamps
  <2>4. \A i, j \in 1..MaxRows : i # j => confirmed'[i] \cap confirmed'[j] = {}
    <3> SUFFICES ASSUME NEW i \in 1..MaxRows, NEW j \in 1..MaxRows, i # j
                 PROVE  confirmed'[i] \cap confirmed'[j] = {}
      OBVIOUS
    <3>1. confirmed[i] \cap confirmed[j] = {} /\ stamp \notin confirmed[i] /\ stamp \notin confirmed[j]
      BY <2>1, <2>3, <1>7
    <3>2. ~(i \in M /\ j \in M)
      BY <1>8
    <3>3. /\ confirmed'[i] = IF i \in M THEN confirmed[i] \cup {stamp} ELSE confirmed[i]
          /\ confirmed'[j] = IF j \in M THEN confirmed[j] \cup {stamp} ELSE confirmed[j]
      BY <1>13
    <3> QED BY <3>1, <3>2, <3>3
  <2>5. \A i \in 1..MaxRows : i > Len(rows') => confirmed'[i] = {}
    <3> SUFFICES ASSUME NEW i \in 1..MaxRows, i > Len(rows) PROVE confirmed'[i] = {}
      BY <1>12
    <3>1. i \notin M
      BY <1>6, <1>8
    <3> QED BY <3>1, <2>2, <1>13
  <2>6. Cardinality(Stamps') \in Nat /\ Stamps' = 1..Cardinality(Stamps')
    <3>1. DOMAIN confirmed' = 1..MaxRows
      BY <1>13
    <3>2. CASE M = {}
      <4>1. Stamps' = Stamps
        BY <3>1, <3>2, <1>6, <1>13 DEF Stamps
      <4> QED BY <4>1, <1>7
    <3>3. CASE M # {}
      <4>1. PICK m \in M : m \in 1..MaxRows
        BY <3>3, <1>5, <1>6, <1>8
      <4>2. Stamps' = Stamps \cup {stamp}
        <5>1. stamp \in confirmed'[m]
          BY <4>1, <1>13
        <5>2. \A i \in 1..MaxRows : confirmed[i] \subseteq confirmed'[i]
                                    /\ confirmed'[i] \subseteq confirmed[i] \cup {stamp}
          BY <1>13
        <5> QED BY <5>1, <5>2, <4>1, <3>1, <1>6 DEF Stamps
      <4>3. Stamps' = 1..stamp
        BY <4>2, <1>7, Zenon
      <4>4. Cardinality(1..stamp) = stamp
        <5>1. 1 \in Int /\ stamp \in Int /\ ~(1 > stamp) /\ stamp - 1 + 1 = stamp
          BY <1>2, <1>7
        <5> QED BY <5>1, FS_Interval
      <4> QED BY <4>3, <4>4, <1>7
    <3> QED BY <3>2, <3>3
  <2> QED BY <2>4, <2>5, <2>6 DEF StampInv
<1>17. LockInv'
  <2> SUFFICES ASSUME T.lock # {}
               PROVE  /\ \A i \in 1..Len(rows') : confirmed'[i] \subseteq rows'[i].hist
                      /\ \A d \in Clients : entity'[d].version # 0 =>
                           /\ entity'[d].row \in 1..Len(rows')
                           /\ entity'[d].version <= rows'[entity'[d].row].version
                           /\ entity'[d].version = rows'[entity'[d].row].version =>
                                 confirmed'[entity'[d].row] \subseteq entity'[d].hist
    BY <1>9 DEF LockInv
  <2>1. \A i \in 1..Len(rows) : confirmed[i] \subseteq rows[i].hist
    BY DEF DaoInv, LockInv
  <2>2. \A i \in 1..Len(rows) : i \in 1..MaxRows
    BY <1>5, <1>6
  <2>3. ASSUME NEW d \in Clients, entity[d].version # 0
        PROVE  /\ entity[d].row \in 1..Len(rows) /\ entity[d].version <= rows[entity[d].row].version
               /\ entity[d].version = rows[entity[d].row].version =>
                     confirmed[entity[d].row] \subseteq entity[d].hist
    BY <2>3 DEF DaoInv, LockInv
  <2>4. ASSUME NEW i \in 1..Len(rows') PROVE confirmed'[i] \subseteq rows'[i].hist
    <3>1. i \in 1..Len(rows) /\ i \in 1..MaxRows
      BY <1>12, <2>2
    <3>2. CASE i \in M
      <4>1. confirmed[i] \subseteq e.hist
        BY <3>2, <1>1, <1>8, <2>3
      <4>2. rows'[i].hist = {stamp} \cup (IF all \/ e.loaded THEN e.hist ELSE rows[i].hist)
        BY <3>1, <3>2, <1>12
      <4>3. confirmed'[i] = confirmed[i] \cup {stamp}
        BY <3>1, <3>2, <1>13
      <4>4. confirmed[i] \subseteq rows[i].hist
        BY <3>1, <2>1
      <4> QED BY <4>1, <4>2, <4>3, <4>4
    <3>3. CASE i \notin M
      BY <3>1, <3>3, <1>12, <1>13, <2>1
    <3> QED BY <3>2, <3>3
  <2>5. ASSUME NEW d \in Clients, entity'[d].version # 0
        PROVE  /\ entity'[d].row \in 1..Len(rows')
               /\ entity'[d].version <= rows'[entity'[d].row].version
               /\ entity'[d].version = rows'[entity'[d].row].version =>
                     confirmed'[entity'[d].row] \subseteq entity'[d].hist
    <3>1. PICK k, v : k = entity[d].row /\ v = entity[d].version
      OBVIOUS
    <3>2. entity'[d].row = k /\ entity'[d].version = v /\ entity[d].hist \subseteq entity'[d].hist
      BY <3>1, <1>14
    <3>3. /\ k \in 1..Len(rows) /\ v <= rows[k].version
          /\ v = rows[k].version => confirmed[k] \subseteq entity[d].hist
      BY <3>1, <3>2, <2>3, <2>5
    <3>4. rows[k].version \in Nat /\ v \in Nat /\ k \in 1..MaxRows
      BY <3>1, <3>3, <1>5, <1>6, <2>2 DEF Rows, Entities
    <3>5. CASE k \in M
      <4>1. rows'[k].version = rows[k].version + 1
        BY <3>3, <3>5, <1>12
      <4>2. v <= rows'[k].version /\ v # rows'[k].version
        BY <4>1, <3>3, <3>4
      <4> QED BY <4>2, <3>2, <3>3, <1>12
    <3>6. CASE k \notin M
      <4>1. rows'[k] = rows[k] /\ confirmed'[k] = confirmed[k] /\ Len(rows') = Len(rows)
        BY <3>3, <3>4, <3>6, <1>12, <1>13
      <4> QED BY <4>1, <3>2, <3>3
    <3> QED BY <3>5, <3>6
  <2> QED BY <2>4, <2>5
<1>18. QueriesUseIndexes'
  BY <1>4, <1>9 DEF DaoInv, QueriesUseIndexes
<1> QED BY <1>10, <1>15, <1>16, <1>17, <1>18 DEF DaoInv

\* Queries change nothing but the answer.
LEMMA AskedKeeps ==
    ASSUME DaoInv, UNCHANGED <<table, dbType, rows, entity, pages, confirmed>>, QueriesUseIndexes'
    PROVE  DaoInv'
<1>1. T' = T /\ KeyCols' = KeyCols /\ Entities' = Entities
  BY SameTable
<1>2. DaoType'
  BY <1>1 DEF DaoInv, DaoType
<1>3. StampInv'
  BY DEF DaoInv, StampInv, Stamps
<1>4. LockInv'
  BY <1>1 DEF DaoInv, LockInv
<1>5. PageInv'
  BY DEF DaoInv, PageInv, PagesRead
<1> QED BY <1>2, <1>3, <1>4, <1>5 DEF DaoInv

\* FindByStruct: the column that leads an index has a role, as all columns have.
LEMMA FindByStructKeeps ==
    ASSUME DaoInv, NEW nz \in SUBSET T.cols, FindByStruct(nz)
    PROVE  DaoInv'
<1>1. T' = T /\ UNCHANGED <<table, dbType, rows, entity, pages, confirmed>>
  BY SameTable DEF FindByStruct
<1>2. Agrees(T)
  BY TablesAgree DEF T, DaoInv, DaoType
<1>3. PICK cols : cols = ListZeroValueCols(nz, FALSE, FALSE, TRUE, FALSE)
  OBVIOUS
<1>4. nz \subseteq cols
  BY <1>2, <1>3 DEF Agrees, ListZeroValueCols
<1>5. CASE nz \cap T.used = {}
  BY <1>1, <1>5, AskedKeeps DEF FindByStruct, QueriesUseIndexes, Refused
<1>6. CASE nz \cap T.used # {}
  <2>1. PICK col \in nz : col \in T.used
    BY <1>6
  <2>2. PICK ix \in {T.pk} \cup T.indexes : ix # <<>> /\ Head(ix) = col
    BY <2>1, <1>2 DEF Agrees, Leads
  <2>3. asked' = [accepted |-> TRUE, given |-> nz, cols |-> cols]
    BY <1>3, <1>6 DEF FindByStruct
  <2>4. asked'.given = nz /\ asked'.cols = cols
    BY <2>3
  <2>5. QueriesUseIndexes'
    BY <2>1, <2>2, <2>4, <1>1, <1>4 DEF QueriesUseIndexes
  <2> QED BY <2>5, <1>1, AskedKeeps
<1> QED BY <1>5, <1>6

\* A named query: what was given is part of the statement, and the text that
\* ValidateLeadingCol found is a column that leads an index.
LEMMA FindByCustomerRuleKeeps ==
    ASSUME DaoInv, NEW q \in DOMAIN T.queries, NEW mask \in SUBSET DOMAIN T.queries[q],
           FindByCustomerRule(q, mask)
    PROVE  DaoInv'
<1>1. T' = T /\ UNCHANGED <<table, dbType, rows, entity, pages, confirmed>>
  BY SameTable DEF FindByCustomerRule
<1>2. Agrees(T)
  BY TablesAgree DEF T, DaoInv, DaoType
<1>3. PICK where : where = FilterMaskWhereCondition(q, mask)
  OBVIOUS
<1>4. PICK every : every = {T.queries[q][p] : p \in DOMAIN T.queries[q]}
  OBVIOUS
<1>5. where \subseteq every
  BY <1>3, <1>4 DEF FilterMaskWhereCondition
<1>6. asked' = IF dbType \in T.databases /\ where # {} /\ ValidateLeadingCol(where)
               THEN [accepted |-> TRUE, given |-> where, cols |-> every] ELSE Refused
  BY <1>3, <1>4 DEF FindByCustomerRule
<1>7. CASE ValidateLeadingCol(where)
  <2>1. PICK col \in where, lead \in T.leading : Contains(col, lead)
    BY <1>7 DEF ValidateLeadingCol
  <2>2. PICK p \in DOMAIN T.queries[q] : col = T.queries[q][p]
    BY <2>1, <1>3 DEF FilterMaskWhereCondition
  <2>3. Leads(T, col)
    BY <2>1, <2>2, <1>2 DEF Agrees
  <2>4. PICK ix \in {T.pk} \cup T.indexes : ix # <<>> /\ Head(ix) = col
    BY <2>3 DEF Leads
  <2>5. PICK a : a = [accepted |-> TRUE, given |-> where, cols |-> every]
    OBVIOUS
  <2>6. a.given = where /\ a.cols = every
    BY <2>5
  <2>7. asked' = a \/ asked' = Refused
    BY <2>5, <1>6
  <2>8. QueriesUseIndexes'
    BY <2>1, <2>4, <2>6, <2>7, <1>1, <1>5 DEF QueriesUseIndexes, Refused
  <2> QED BY <2>8, <1>1, AskedKeeps
<1>8. CASE ~ValidateLeadingCol(where)
  BY <1>1, <1>6, <1>8, AskedKeeps DEF QueriesUseIndexes, Refused
<1> QED BY <1>7, <1>8

\* A step of a walk changes nothing else.
LEMMA WalkKeeps ==
    ASSUME DaoInv, UNCHANGED <<table, dbType, rows, entity, asked, confirmed>>, pages' \in Walks, PageInv'
    PROVE  DaoInv'
<1>1. T' = T /\ KeyCols' = KeyCols /\ Entities' = Entities
  BY SameTable
<1>2. DaoType'
  BY <1>1 DEF DaoInv, DaoType
<1>3. StampInv'
  BY DEF DaoInv, StampInv, Stamps
<1>4. LockInv'
  BY <1>1 DEF DaoInv, LockInv
<1>5. QueriesUseIndexes'
  BY <1>1 DEF DaoInv, QueriesUseIndexes
<1> QED BY <1>2, <1>3, <1>4, <1>5 DEF DaoInv

\* The count begins a page: the first one, or the next of the same size.
LEMMA CountKeeps == ASSUME DaoInv, Count PROVE DaoInv'
<1>1. pages \in Walks /\ rows \in Seq(Rows) /\ PageInv
  BY DEF DaoInv, DaoType
<1>2. /\ pages.size \in Nat /\ pages.page \in Nat /\ pages.total \in Int /\ pages.got \in Seq(Nat)
      /\ pages.dirty \in BOOLEAN /\ pages.done \in BOOLEAN /\ Len(rows) \in Nat
  BY <1>1 DEF Walks
<1>3. ~pages.done /\ pages.total < 0 /\ UNCHANGED <<table, dbType, rows, entity, asked, confirmed>>
  BY DEF Count
<1>4. PICK size \in IF pages.page = 0 THEN 1..MaxSize ELSE {pages.size} :
        pages' = [pages EXCEPT !.size = size, !.page = @ + 1, !.total = Len(rows),
                               !.dirty = pages.page # 0 /\ @]
  BY DEF Count
<1>5. size \in Nat /\ size > 0 /\ (pages.page > 0 => size = pages.size)
  BY <1>1, <1>2, <1>4, DaoAssumption DEF PageInv
<1>6. PICK dirty \in BOOLEAN : dirty = (pages.page # 0 /\ pages.dirty)
  OBVIOUS
<1>7. pages' = [size |-> size, page |-> pages.page + 1, total |-> Len(rows), got |-> pages.got,
                dirty |-> dirty, done |-> pages.done]
  BY <1>1, <1>4, <1>6 DEF Walks
<1>8. pages' \in Walks
  BY <1>2, <1>5, <1>7 DEF Walks
<1>9. /\ pages'.size = size /\ pages'.page = pages.page + 1 /\ pages'.total = Len(rows)
      /\ pages'.got = pages.got /\ pages'.dirty = dirty /\ ~pages'.done
  BY <1>3, <1>7
<1>10. PagesRead' = pages.page
  BY <1>2, <1>9 DEF PagesRead
<1>11. PageInv'
  <2>1. pages'.page > 0 /\ pages'.size > 0
    BY <1>2, <1>5, <1>9
  <2>2. ASSUME ~dirty, dbType = "MYSQL"
        PROVE  pages.got = [i \in 1..Least(pages.page * size, Len(rows)) |-> i]
    <3>1. CASE pages.page = 0
      <4>1. Least(pages.page * size, Len(rows)) = 0
        BY <3>1, <1>2, <1>5 DEF Least
      <4>2. pages.got = <<>>
        BY <3>1, <1>1 DEF PageInv
      <4> QED BY <4>1, <4>2
    <3>2. CASE pages.page > 0
      <4>1. ~pages.dirty
        BY <2>2, <3>2, <1>2, <1>6
      <4>2. PagesRead = pages.page
        BY <1>2, <1>3 DEF PagesRead
      <4> QED BY <2>2, <3>2, <4>1, <4>2, <1>1, <1>5 DEF PageInv
    <3> QED BY <3>1, <3>2, <1>2
  <2>3. ASSUME ~pages'.dirty, dbType' = "MYSQL"
        PROVE  /\ pages'.total = Len(rows')
               /\ pages'.got = [i \in 1..Least(PagesRead' * pages'.size, Len(rows')) |-> i]
               /\ ~pages'.done
    <3>1. ~dirty /\ dbType = "MYSQL" /\ rows' = rows
      BY <2>3, <1>3, <1>9
    <3> QED BY <3>1, <2>2, <1>9, <1>10
  <2>4. pages'.page # 0
    BY <1>2, <1>9
  <2> QED BY <2>1, <2>3, <2>4, Zenon DEF PageInv
<1> QED BY <1>3, <1>8, <1>11, WalkKeeps

\* The page that was counted follows the ones before it.
LEMMA FetchKeeps == ASSUME DaoInv, Fetch PROVE DaoInv'
<1>1. pages \in Walks /\ rows \in Seq(Rows) /\ PageInv
  BY DEF DaoInv, DaoType
<1>2. /\ pages.size \in Nat /\ pages.page \in Nat /\ pages.total \in Int /\ pages.got \in Seq(Nat)
      /\ pages.dirty \in BOOLEAN /\ pages.done \in BOOLEAN /\ Len(rows) \in Nat
  BY <1>1 DEF Walks
<1>3. PICK p : p = CalcPageStartRecord(pages.page, pages.size, pages.total, dbType)
  OBVIOUS
<1>4. PICK m : m = IF p.start + pages.size < Len(rows) THEN p.start + pages.size ELSE Len(rows)
  OBVIOUS
<1>5. PICK window : window = [i \in 1..m |-> i]
  OBVIOUS
<1>6. PICK rest : rest = SubSeq(window, p.start + 1, Len(window))
  OBVIOUS
<1>7. /\ pages.total >= 0 /\ UNCHANGED <<table, dbType, rows, entity, asked, confirmed>>
      /\ pages' = [pages EXCEPT !.total = -1, !.done = pages.page >= p.totalPage,
                                !.got = IF p.enable THEN @ \o rest ELSE @]
  BY <1>3, <1>4, <1>5, <1>6 DEF Fetch
<1>8. pages.total \in Nat /\ pages.page > 0 /\ pages.size > 0
  BY <1>1, <1>2, <1>7 DEF PageInv
<1>9. /\ p.start \in Nat /\ p.enable \in BOOLEAN /\ p.totalPage \in Nat
      /\ pages.page >= p.totalPage => pages.page * pages.size >= pages.total
      /\ dbType = "MYSQL" /\ p.enable => p.start = (pages.page - 1) * pages.size /\ p.start <= pages.total
      /\ dbType = "MYSQL" /\ ~p.enable => (pages.page - 1) * pages.size >= pages.total
  <2> DEFINE page == pages.page
             size == pages.size
             total == pages.total
  <2>1. page \in Nat /\ page > 0 /\ size \in Nat /\ size > 0 /\ total \in Nat
    BY <1>2, <1>8
  <2>2. p = CalcPageStartRecord(page, size, total, dbType)
    BY <1>3
  <2> HIDE DEF page, size, total
  <2>3. /\ p.start \in Nat /\ p.enable \in BOOLEAN /\ p.totalPage \in Nat
        /\ page >= p.totalPage => page * size >= total
        /\ dbType = "MYSQL" /\ p.enable => p.start = (page - 1) * size /\ p.start <= total
        /\ dbType = "MYSQL" /\ ~p.enable => (page - 1) * size >= total
    BY <2>1, <2>2, WindowIs
  <2> QED BY <2>3 DEF page, size, total
<1>10. m \in Nat
  BY <1>2, <1>4, <1>9
<1>11. rest \in Seq(Nat) /\ (p.start <= m => [i \in 1..p.start |-> i] \o rest = window)
  <2>1. PICK s \in Nat : s = p.start
    BY <1>9
  <2> QED BY <2>1, <1>5, <1>6, <1>10, PageFollows
<1>12. PICK got \in Seq(Nat) : got = IF p.enable THEN pages.got \o rest ELSE pages.got
  <2>1. pages.got \o rest \in Seq(Nat)
    BY <1>2, <1>11
  <2> QED BY <2>1, <1>2
<1>13. PICK done \in BOOLEAN : done = (pages.page >= p.totalPage)
  <2>1. CASE pages.page >= p.totalPage
    <3>1. (pages.page >= p.totalPage) = TRUE
      BY <2>1
    <3> QED BY <3>1, Zenon
  <2>2. CASE ~(pages.page >= p.totalPage)
    <3>1. (pages.page >= p.totalPage) = FALSE
      BY <2>2, <1>2, <1>9
    <3> QED BY <3>1, Zenon
  <2> QED BY <2>1, <2>2
<1>14. pages' = [size |-> pages.size, page |-> pages.page, total |-> -1, got |-> got,
                 dirty |-> pages.dirty, done |-> done]
  BY <1>1, <1>7, <1>12, <1>13 DEF Walks
<1>15. pages' \in Walks
  BY <1>2, <1>14 DEF Walks
<1>16. /\ pages'.size = pages.size /\ pages'.page = pages.page /\ pages'.total = -1
       /\ pages'.got = got /\ pages'.dirty = pages.dirty /\ pages'.done = done
  BY <1>14
<1>17. PagesRead' = pages.page
  BY <1>16 DEF PagesRead
<1>18. ASSUME ~pages.dirty, dbType = "MYSQL"
       PROVE  /\ got = [i \in 1..Least(pages.page * pages.size, Len(rows)) |-> i]
              /\ done => pages.page * pages.size >= Len(rows)
  <2>1. PICK a \in Nat, b \in Nat, n \in Nat :
          a = (pages.page - 1) * pages.size /\ b = pages.page * pages.size /\ n = Len(rows)
    <3>1. pages.page - 1 \in Nat
      BY <1>2, <1>8
    <3>2. (pages.page - 1) * pages.size \in Nat /\ pages.page * pages.size \in Nat
      BY <3>1, <1>2
    <3> QED BY <3>2, <1>2
  <2>2. b = a + pages.size
    <3>1. PICK k \in Nat, size \in Nat : k = pages.page - 1 /\ size = pages.size /\ pages.page = k + 1
      BY <1>2, <1>8
    <3>2. (k + 1) * size = k * size + size
      OBVIOUS
    <3> QED BY <3>1, <3>2, <2>1
  <2>3. PagesRead = pages.page - 1
    BY <1>7 DEF PagesRead
  <2>4. pages.total = n /\ pages.got = [i \in 1..Least(a, n) |-> i]
    BY <1>18, <2>1, <2>3, <1>1, <1>7, <1>8 DEF PageInv
  <2>5. done => b >= n
    BY <2>1, <2>4, <1>9, <1>13
  <2>6. CASE p.enable
    <3>1. p.start = a /\ a <= n
      BY <1>18, <2>1, <2>4, <2>6, <1>9
    <3>2. m = Least(b, n) /\ a <= m
      <4>1. m = IF b < n THEN b ELSE n
        BY <3>1, <2>1, <2>2, <1>4
      <4>2. a <= b
        BY <2>2, <1>2
      <4> QED BY <4>1, <4>2, <3>1 DEF Least
    <3>3. pages.got = [i \in 1..a |-> i]
      <4>1. Least(a, n) = a
        BY <3>1 DEF Least
      <4> QED BY <4>1, <2>4
    <3>4. got = window
      BY <3>1, <3>2, <3>3, <2>6, <1>11, <1>12
    <3> QED BY <3>2, <3>4, <2>1, <2>5, <1>5
  <2>7. CASE ~p.enable
    <3>1. a >= n
      BY <1>18, <2>1, <2>4, <2>7, <1>9
    <3>2. Least(a, n) = n /\ Least(b, n) = n
      BY <3>1, <2>2, <1>2 DEF Least
    <3> QED BY <3>2, <2>1, <2>4, <2>5, <2>7, <1>12
  <2> QED BY <2>6, <2>7, <1>9
<1>19. PageInv'
  <2>1. pages'.page > 0 /\ pages'.size > 0 /\ pages'.total < 0 /\ ~(pages'.total >= 0) /\ pages'.page # 0
    BY <1>2, <1>8, <1>16
  <2>2. ASSUME ~pages'.dirty, dbType' = "MYSQL"
        PROVE  /\ pages'.got = [i \in 1..Least(PagesRead' * pages'.size, Len(rows')) |-> i]
               /\ pages'.done => pages'.page * pages'.size >= Len(rows')
    <3>1. ~pages.dirty /\ dbType = "MYSQL" /\ rows' = rows
      BY <2>2, <1>7, <1>16
    <3> QED BY <3>1, <1>16, <1>17, <1>18
  <2> QED BY <2>1, <2>2, Zenon DEF PageInv
<1> QED BY <1>7, <1>15, <1>19, WalkKeeps

\* Every step keeps the invariant.
LEMMA DaoStep == DaoInv /\ [DaoNext]_daoVars => DaoInv'
<1> SUFFICES ASSUME DaoInv, [DaoNext]_daoVars PROVE DaoInv'
  OBVIOUS
<1>1. CASE \E c \in Clients : Insert(c)
  BY <1>1, InsertKeeps
<1>2. CASE Edits
  <2>1. PICK c \in Clients :
          \/ \E i \in 1..MaxRows :
               FindByPrimaryKey(c, i) \/ \E cols \in SUBSET KeyCols : Construct(c, i, cols)
          \/ \E all \in BOOLEAN : Update(c, all)
    BY <1>2 DEF Edits
  <2> QED BY <2>1, FindKeeps, ConstructKeeps, UpdateKeeps
<1>3. CASE Queries
  <2>1. ASSUME NEW nz \in {{col} : col \in T.cols} \cup {{}, T.cols} PROVE nz \in SUBSET T.cols
    OBVIOUS
  <2> QED BY <1>3, <2>1, FindByStructKeeps, FindByCustomerRuleKeeps DEF Queries
<1>4. CASE Pages
  BY <1>4, CountKeeps, FetchKeeps DEF Pages
<1>5. CASE UNCHANGED daoVars
  <2>1. UNCHANGED <<table, dbType, rows, entity, pages, confirmed>> /\ UNCHANGED asked
    BY <1>5 DEF daoVars
  <2>2. QueriesUseIndexes'
    BY <2>1, SameTable DEF DaoInv, QueriesUseIndexes
  <2> QED BY <2>1, <2>2, AskedKeeps
<1> QED BY <1>1, <1>2, <1>3, <1>4, <1>5 DEF DaoNext

\* The invariant says what clients rely on.
LEMMA DaoSafe == DaoInv => DaoSound
<1> SUFFICES ASSUME DaoInv PROVE DaoSound
  OBVIOUS
<1>1. rows \in Seq(Rows) /\ confirmed \in [1..MaxRows -> SUBSET Nat] /\ pages \in Walks
  BY DEF DaoInv, DaoType
<1>2. DOMAIN rows = 1..Len(rows) /\ Len(rows) \in Nat /\ DOMAIN confirmed = 1..MaxRows
  BY <1>1
<1>3. UpdatesLand
  BY <1>2 DEF DaoInv, StampInv, LockInv, UpdatesLand
<1>4. PagesPartition
  <2> SUFFICES ASSUME pages.done, ~pages.dirty, dbType = "MYSQL" PROVE pages.got = [i \in 1..Len(rows) |-> i]
    BY <1>2 DEF PagesPartition
  <2>1. pages.page \in Nat /\ pages.size \in Nat /\ pages.total \in Int
    BY <1>1 DEF Walks
  <2>2. pages.page > 0
    BY <2>1 DEF DaoInv, PageInv
  <2>3. /\ pages.got = [i \in 1..Least(PagesRead * pages.size, Len(rows)) |-> i]
        /\ pages.total < 0 /\ pages.page * pages.size >= Len(rows)
    BY <2>2 DEF DaoInv, PageInv
  <2>4. PagesRead = pages.page
    BY <2>1, <2>3 DEF PagesRead
  <2>5. pages.page * pages.size \in Nat
    BY <2>1
  <2>6. Least(PagesRead * pages.size, Len(rows)) = Len(rows)
    BY <2>3, <2>4, <2>5, <1>2 DEF Least
  <2> QED BY <2>3, <2>6
<1> QED BY <1>3, <1>4 DEF DaoInv, DaoSound

\* Of the generated repositories, for all numbers of clients, rows and updates and
\* all page sizes: no update a client was told of is lost on a table with an
\* optimistic lock (UpdateByPrimaryKey); every query FindByStruct or a named query
\* accepts uses an index; and an undisturbed walk over the pages of FindByCondition
\* on MySQL returns every row once, in order.
THEOREM DaoIsSound == DaoSpec => []DaoSound
<1>1. DaoInit => DaoInv
  BY DaoBoot
<1>2. DaoInv /\ [DaoNext]_daoVars => DaoInv'
  BY DaoStep
<1>3. DaoInv => DaoSound
  BY DaoSafe
<1> QED BY <1>1, <1>2, <1>3, PTL DEF DaoSpec
===============================================================================
