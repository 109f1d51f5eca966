-------------------------------- MODULE MCLive --------------------------------
(***************************************************************************)
(* Model checking what must eventually happen in the worker group of the   *)
(* log, in the cache and when an application stops.  The three do not      *)
(* interact: part says which of them the behaviour is about, the others    *)
(* stay as they are.                                                       *)
(***************************************************************************)
EXTENDS WorkerGroup

CONSTANTS
    CacheCallers, CacheKeys  \* the goroutines that use the cache, and its keys

VARIABLES
    part,
    source, stored, setBuf, down, call, flight, excused, spared, floor,   \* Cache
    app, turn, srv, told, why                                             \* AppLifecycle

cacheVars == <<source, stored, setBuf, down, call, flight, excused, spared, floor>>
appVars == <<app, turn, srv, told, why>>
MCVars == <<vars, part, cacheVars, appVars>>

Typed == INSTANCE Cache WITH
    Callers <- CacheCallers, Keys <- CacheKeys,
    Ops <- {"get", "tryGet", "getOrElse", "set", "del", "clear"}, Outages <- TRUE,
    MaxVersion <- 0, SetBufSize <- 1

\* The servers of the framework, and that of the examples.
AppServers == <<"http", "agonet", "kitex", "hello">>
App == INSTANCE AppLifecycle WITH Servers <- AppServers

-------------------------------------------------------------------------------
MCInit ==
    /\ part \in {"log", "cache", "app"}
    /\ Init /\ (part = "log" \/ strategy = CHOOSE s \in Strategies : TRUE)
    /\ Typed!Init /\ App!Init

Elsewhere(p) ==
    /\ part = p /\ UNCHANGED part
    /\ p # "log" => UNCHANGED vars
    /\ p # "cache" => UNCHANGED cacheVars
    /\ p # "app" => UNCHANGED appVars

MCNext ==
    \/ Elsewhere("log") /\ Next
    \/ Elsewhere("cache") /\ Typed!Next
    \/ Elsewhere("app") /\ App!Next

\* The fairness of the three modules, each where its component moves.
MCFairness ==
    /\ WF_vars(part = "log" /\ StopStep)
    /\ \A s \in Submitters : WF_vars(part = "log" /\ SubmitStep(s))
    /\ \A w \in Workers : WF_vars(part = "log" /\ RunStep(w))
    /\ WF_cacheVars(part = "cache" /\ Typed!EngineApplies)
    /\ \A c \in CacheCallers :
         /\ WF_cacheVars(part = "cache" /\ Typed!Read(c))
         /\ WF_cacheVars(part = "cache" /\ Typed!Set(c))
         /\ WF_cacheVars(part = "cache" /\ Typed!Clear(c))
         /\ WF_cacheVars(part = "cache" /\ Typed!FirstGet(c))
         /\ WF_cacheVars(part = "cache" /\ Typed!DoJoins(c))
         /\ WF_cacheVars(part = "cache" /\ Typed!DoubleCheck(c))
         /\ WF_cacheVars(part = "cache" /\ Typed!Load(c))
         /\ WF_cacheVars(part = "cache" /\ Typed!Store(c))
         /\ WF_cacheVars(part = "cache" /\ Typed!Synced(c))
         /\ SF_cacheVars(part = "cache" /\ Typed!Sync(c))
         /\ SF_cacheVars(part = "cache" /\ Typed!Del(c))
    /\ WF_appVars(part = "app" /\ App!StopNext) /\ WF_appVars(part = "app" /\ App!StopReturns)
    /\ \A s \in DOMAIN AppServers :
         WF_appVars(part = "app" /\ App!Registers(s)) /\ WF_appVars(part = "app" /\ App!Ends(s))

MCSpec == MCInit /\ [][MCNext]_MCVars /\ MCFairness

-------------------------------------------------------------------------------
(* Properties *)

\* Every call of GetOrElse returns, also one that waits for the load of another
\* goroutine (GetOrElse).
GetOrElseReturns == Typed!GetOrElseReturns

\* Stopping the application ends every server that had come up, in whatever order
\* and with whatever errors (App.Stop and the Stop of each server).
StopEndsServers == App!StopEndsServers
===============================================================================
