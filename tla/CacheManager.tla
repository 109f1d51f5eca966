----------------------------- MODULE CacheManager -----------------------------
(***************************************************************************)
(* The cache Manager (ag/ag_cache/manager.go): goroutines ask for caches   *)
(* by name; a cache is created at the first request, with an engine built  *)
(* outside the lock, and closed by Close when the application stops.       *)
(*                                                                         *)
(* A cache is its engine.  A step is what a goroutine does under one       *)
(* holding of m.mu, or the creation of an engine.                          *)
(***************************************************************************)
EXTENDS Naturals, FiniteSets

CONSTANTS
    Callers,  \* goroutines
    Names,    \* cache names
    Engines,  \* the engines the factory can build
    None

ASSUME CacheManagerAssumption == None \notin Names \cup Engines

VARIABLES
    caches,  \* m.caches
    engine,  \* each engine: not built, open, or closed
    call,    \* each goroutine: where it is in getOrCreate
    stopped  \* Close has run

vars == <<caches, engine, call, stopped>>

NoCall == [at |-> "idle", name |-> None, built |-> None, got |-> None]

Init ==
    /\ caches = [n \in Names |-> None]
    /\ engine = [e \in Engines |-> "unbuilt"]
    /\ call = [c \in Callers |-> NoCall]
    /\ stopped = FALSE

\* Close is idempotent: a closed engine stays closed.
CloseEngines(es) == engine' = [e \in Engines |-> IF e \in es THEN "closed" ELSE engine[e]]

Returns(c, e) == call' = [call EXCEPT ![c].at = "return", ![c].got = e]

\* getOrCreate up to the first unlock.  A Manager is not used after Close, and a
\* name is always asked for with one type: another makes the code panic here.
Lookup(c, n) ==
    /\ call[c].at = "idle"
    /\ ~stopped
    /\ call' = [call EXCEPT ![c] =
         IF caches[n] # None
         THEN [NoCall EXCEPT !.at = "return", !.name = n, !.got = caches[n]]
         ELSE [NoCall EXCEPT !.at = "create", !.name = n]]
    /\ UNCHANGED <<caches, engine, stopped>>

\* Mutant of Create: the factory hands out an engine it has built before.
CreateShared(c) ==
    /\ call[c].at = "create"
    /\ \E e \in Engines :
         /\ engine[e] # "closed"
         /\ engine' = [engine EXCEPT ![e] = "open"]
         /\ call' = [call EXCEPT ![c].at = "install", ![c].built = e]
    /\ UNCHANGED <<caches, stopped>>

\* The factory builds a new engine, or there is none or it fails.
Create(c) ==
    /\ call[c].at = "create"
    /\ \/ \E e \in Engines :
            /\ engine[e] = "unbuilt"
            /\ engine' = [engine EXCEPT ![e] = "open"]
            /\ call' = [call EXCEPT ![c].at = "install", ![c].built = e]
       \/ /\ Returns(c, None)
          /\ UNCHANGED engine
    /\ UNCHANGED <<caches, stopped>>

\* Mutant of Install: the new cache replaces the one another goroutine installed.
InstallOver(c) ==
    /\ call[c].at = "install"
    /\ caches' = [caches EXCEPT ![call[c].name] = call[c].built]
    /\ Returns(c, call[c].built)
    /\ UNCHANGED <<engine, stopped>>

\* Mutant of Install: the engine that lost the race stays open.
InstallForgets(c) ==
    /\ call[c].at = "install"
    /\ LET n == call[c].name IN
       IF caches[n] # None
       THEN Returns(c, caches[n]) /\ UNCHANGED caches
       ELSE Returns(c, call[c].built) /\ caches' = [caches EXCEPT ![n] = call[c].built]
    /\ UNCHANGED <<engine, stopped>>

\* The rest of getOrCreate: the first to take the lock again installs its cache,
\* another one closes its own engine and takes the installed cache.
Install(c) ==
    /\ call[c].at = "install"
    /\ LET n == call[c].name IN
       IF caches[n] # None
       THEN /\ CloseEngines({call[c].built})
            /\ Returns(c, caches[n])
            /\ UNCHANGED caches
       ELSE /\ caches' = [caches EXCEPT ![n] = call[c].built]
            /\ Returns(c, call[c].built)
            /\ UNCHANGED engine
    /\ UNCHANGED stopped

\* The caller has its cache and goes on with it.
Done(c) ==
    /\ call[c].at = "return"
    /\ call' = [call EXCEPT ![c].at = "idle", ![c].built = None]
    /\ UNCHANGED <<caches, engine, stopped>>

\* Close, from the OnStop hook or CloseAll.
Close ==
    /\ CloseEngines({caches[n] : n \in Names})
    /\ caches' = [n \in Names |-> None]
    /\ stopped' = TRUE
    /\ UNCHANGED call

Next ==
    \/ \E c \in Callers : \/ \E n \in Names : Lookup(c, n)
                          \/ Create(c) \/ Install(c) \/ Done(c)
    \/ Close

Spec == Init /\ [][Next]_vars

------------------------------------------------------------------------------

\* c has built e and has not yet installed or closed it.
Builds(c, e) == call[c].at = "install" /\ call[c].built = e

Shape ==
    /\ caches \in [Names -> Engines \cup {None}]
    /\ engine \in [Engines -> {"unbuilt", "open", "closed"}]
    /\ stopped \in BOOLEAN
    /\ call \in [Callers -> [at : {"idle", "create", "install", "return"},
                              name : Names \cup {None},
                              built : Engines \cup {None}, got : Engines \cup {None}]]

OneOwner ==
    /\ \A n, o \in Names : caches[n] = caches[o] => n = o \/ caches[n] = None
    /\ \A c \in Callers, d \in Callers, e \in Engines : Builds(c, e) /\ Builds(d, e) => d = c
    /\ \A c \in Callers, n \in Names, e \in Engines : Builds(c, e) => caches[n] # e

\* The state has its shape, and an engine has one owner: the name it is
\* installed under or the goroutine that built it.
TypeOK == Shape /\ OneOwner

\* One cache per name (getOrCreate, manager.go:137-175): until Close, everybody
\* who asked for a name holds the cache that is installed under it, and that
\* cache is open, whoever else was building one at the same time.
OneCachePerName ==
    ~stopped => \A c \in Callers :
                  call[c].got # None => /\ call[c].got = caches[call[c].name]
                                        /\ engine[call[c].got] = "open"

\* No engine is forgotten (manager.go:170): an open engine is installed, or its
\* builder is about to install or close it.
NoEngineForgotten ==
    \A e \in Engines : engine[e] = "open" =>
      (\E c \in Callers : Builds(c, e)) \/ (\E n \in Names : caches[n] = e)

\* What Close leaves is never handed out again: an installed cache is open.
InstalledIsOpen == \A n \in Names : caches[n] # None => engine[caches[n]] = "open"
===============================================================================
