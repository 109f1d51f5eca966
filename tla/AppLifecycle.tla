----------------------------- MODULE AppLifecycle -----------------------------
(***************************************************************************)
(* The application (ag/ag_app/app.go, started and stopped by the hooks of  *)
(* fxs/zfx_app.go): Start gives every server a goroutine of its own and    *)
(* returns; Stop stops the servers one after the other.  The servers are   *)
(* the gin server (ag_server/http), the hello server (ag_server/hello),    *)
(* agonet (server.go; module Transport), hertz and kitex.  Of the last     *)
(* three only what App sees is modelled: whether Stop finds the server and *)
(* what it returns.  The WatcherServer of ag_conf is left to ConfigRefresh *)
(* (its Start and Stop are the manager's run and close).                   *)
(***************************************************************************)
EXTENDS Naturals, Sequences

CONSTANTS
    Servers  \* App.Servers: a sequence of kinds

Kinds == {"http", "hello", "agonet", "hertz", "kitex"}

VARIABLES
    app,   \* "new", "started", "stopping", "stopped", "dead" (process exit or panic)
    turn,  \* the server Stop has come to
    srv,   \* each server's goroutine
    told,  \* each server has been told to end
    why    \* what ended the process

vars == <<app, turn, srv, told, why>>

Ids == DOMAIN Servers

Init ==
    /\ app = "new"
    /\ turn = 1
    /\ srv = [s \in Ids |-> "none"]
    /\ told = [s \in Ids |-> "no"]
    /\ why = "none"

Alive == app # "dead"

Dies(reason) == app' = "dead" /\ why' = reason

------------------------------------------------------------------------------
\* App.Start: it does not wait for the servers.
Start ==
    /\ app = "new"
    /\ app' = "started"
    /\ srv' = [s \in Ids |-> "spawned"]
    /\ UNCHANGED <<turn, told, why>>

\* The goroutine reaches the point where Stop can find its server: s.httpSrv is
\* assigned, server.eng is, the framework's server runs.
Registers(s) ==
    /\ Alive /\ srv[s] = "spawned"
    /\ srv' = [srv EXCEPT ![s] = "registered"]
    /\ UNCHANGED <<app, turn, told, why>>

\* It listens, unless it has been told to end before (net/http: ErrServerClosed).
Serves(s) ==
    /\ Alive /\ srv[s] = "registered" /\ told[s] = "no"
    /\ srv' = [srv EXCEPT ![s] = "serving"]
    /\ UNCHANGED <<app, turn, told, why>>

\* A server that cannot start ends the whole process: log.Fatal, in App.Start for
\* an error that Start returns, in the gin server itself.
StartFails(s) ==
    /\ Alive /\ srv[s] \in {"spawned", "registered"} /\ told[s] = "no"
    /\ srv' = [srv EXCEPT ![s] = "failed"]
    /\ Dies("fatal")
    /\ UNCHANGED <<turn, told>>

\* The server sees that it is told to end, and Start returns nil.
Ends(s) ==
    /\ Alive /\ srv[s] \in {"registered", "serving"} /\ told[s] = "yes"
    /\ srv' = [srv EXCEPT ![s] = "ended"]
    /\ UNCHANGED <<app, turn, told, why>>

\* An agonet server whose accept loop fails turns itself off; its Start returns
\* nil, so the application goes on without it.
GivesUp(s) ==
    /\ Alive /\ Servers[s] = "agonet" /\ srv[s] = "serving"
    /\ srv' = [srv EXCEPT ![s] = "ended"]
    /\ UNCHANGED <<app, turn, told, why>>

------------------------------------------------------------------------------
\* App.Stop begins: a signal, a cancelled context, or the OnStop hook.
Stop ==
    /\ app = "started"
    /\ app' = "stopping"
    /\ UNCHANGED <<turn, srv, told, why>>

Found(s) == srv[s] \in {"registered", "serving", "ended"}

\* http and hello: Shutdown gives requests five seconds, its error is logged only;
\* on a nil *http.Server it panics.
StopHttp(s) ==
    /\ Servers[s] \in {"http", "hello"}
    /\ IF Found(s)
       THEN /\ told' = [told EXCEPT ![s] = "yes"]
            /\ turn' = turn + 1
            /\ UNCHANGED <<app, why>>
       ELSE Dies("nil") /\ UNCHANGED <<turn, told>>

\* Mutant of StopOther: the first error ends App.Stop.
StopOtherReturns(s) ==
    /\ Servers[s] \in {"agonet", "hertz", "kitex"}
    /\ told' = [told EXCEPT ![s] = IF Found(s) THEN "yes" ELSE "missed"]
    /\ turn' = IF Found(s) \/ Servers[s] = "agonet" THEN turn + 1 ELSE Len(Servers) + 1
    /\ UNCHANGED <<app, why>>

\* The others return nil or an error, which App.Stop collects; a server that is
\* not yet there misses its Stop.
StopOther(s) ==
    /\ Servers[s] \in {"agonet", "hertz", "kitex"}
    /\ told' = [told EXCEPT ![s] = IF Found(s) THEN "yes" ELSE "missed"]
    /\ turn' = turn + 1
    /\ UNCHANGED <<app, why>>

StopNext ==
    /\ app = "stopping" /\ turn \in Ids
    /\ StopHttp(turn) \/ StopOther(turn)
    /\ UNCHANGED srv

StopReturns ==
    /\ app = "stopping" /\ turn \notin Ids
    /\ app' = "stopped"
    /\ UNCHANGED <<turn, srv, told, why>>

Next ==
    \/ Start \/ Stop \/ StopNext \/ StopReturns
    \/ \E s \in Ids : Registers(s) \/ Serves(s) \/ StartFails(s) \/ Ends(s) \/ GivesUp(s)

\* Goroutines and the stopping application go on; nothing forces a stop.
Fairness ==
    /\ WF_vars(StopNext) /\ WF_vars(StopReturns)
    /\ \A s \in Ids : WF_vars(Registers(s)) /\ WF_vars(Ends(s))

Spec == Init /\ [][Next]_vars /\ Fairness

------------------------------------------------------------------------------
\* Stopping the application ends every server that had come up (app.go:139-161),
\* whatever the order and whatever errors the others return; what can go wrong is
\* only a server whose goroutine had not come to its registration: such a one goes
\* on serving, or, if it is an HTTP server, ends the process.
StopEndsServers ==
    /\ [][why' = "nil" /\ why # "nil" => srv[turn] = "spawned"]_vars
    /\ (app = "stopping") ~> (app = "dead" \/ \A s \in Ids : srv[s] = "ended" \/ told[s] = "missed")
===============================================================================
