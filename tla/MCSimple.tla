------------------------------- MODULE MCSimple -------------------------------
(***************************************************************************)
(* Model checking what runs on top of the event loops: a request over the  *)
(* channel of agonet/simple, the idle handler, and the options, listeners  *)
(* and TLS of servers and clients.  They do not interact: part says which  *)
(* of them the behaviour is about, the others stay as they are.            *)
(***************************************************************************)
EXTENDS SimpleChannel, IdleHandler, Transport

VARIABLE part

MCVars == <<vars, part, idleVars, transportVars>>

\* Every type with every state of its files: not named, readable, or not.
Pair == {"unset", "good", "bad"}
SomeSecurities ==
    [type : Types, cliType : Types, tls : [auth : Pair, sign : Pair, ca : {"unset", "bad"}],
     tlcp : [auth : Pair, sign : Pair, enc : Pair, ca : {"unset", "bad"}]]
Tcp == [scheme |-> "tcp", host |-> TRUE, path |-> FALSE]
Unix == [scheme |-> "unix", host |-> FALSE, path |-> TRUE]
NoHost == [scheme |-> "tcp", host |-> FALSE, path |-> TRUE]
Sctp == [scheme |-> "sctp", host |-> TRUE, path |-> FALSE]
SomeAddresses == {<<>>, <<Tcp>>, <<Unix, Tcp>>, <<Tcp, NoHost>>, <<Sctp>>}

-------------------------------------------------------------------------------
MCInit ==
    /\ part \in {"request", "idle", "transport"}
    /\ Init /\ IdleInit /\ TransportInit
    /\ part = "transport" \/ todo = <<>>

Elsewhere(p) ==
    /\ part = p /\ UNCHANGED part
    /\ p # "request" => UNCHANGED vars
    /\ p # "idle" => UNCHANGED idleVars
    /\ p # "transport" => UNCHANGED transportVars

MCNext ==
    \/ Elsewhere("request") /\ Next
    \/ Elsewhere("idle") /\ IdleNext
    \/ Elsewhere("transport") /\ TransportNext

\* The fairness of the three modules, each where its component moves.
MCFairness ==
    /\ WF_vars(part = "request" /\ Worker) /\ WF_vars(part = "request" /\ LoopStep)
    /\ WF_vars(part = "request" /\ LoopLeaves)
    /\ WF_vars(part = "request" /\ RequestSync)
    /\ WF_idleVars(part = "idle" /\ HandleActive)
    /\ WF_idleVars(part = "idle" /\ closing /\ HandleInactive)
    /\ WF_idleVars(part = "idle" /\ Tick)
    /\ \A k \in Kinds :
         /\ WF_idleVars(part = "idle" /\ TimerFires(k))
         /\ WF_idleVars(part = "idle" /\ OnTimeoutInEL(k))
         /\ SF_idleVars(part = "idle" /\ CheckIdle(k))
    /\ WF_idleVars(part = "idle" /\ (ReadFirst \/ ClearFirst \/ TriggerIdle))
    /\ WF_idleVars(part = "idle" /\ (WriteFlags \/ WriteResets))
    /\ WF_transportVars(part = "transport" /\ Boot)
    /\ WF_transportVars(part = "transport" /\ Ends)

MCSpec == MCInit /\ [][MCNext]_MCVars /\ MCFairness

-------------------------------------------------------------------------------
(* Properties *)

\* A request settles: RequestSync returns unless the client is stopped under it,
\* its connection is closed then, and so is one on which an exception handler
\* panicked (RequestSync, ChannelFromConn, TryFireException).
RequestSettles == RequestReturns /\ ConnReleased /\ []PoisonedCloses

\* The idle handler watches: it never loses its timers while the connection is
\* active, reports no silence that was none or that is over, except one that a
\* concurrent HandleWrite ended during the check itself, and reports every
\* other (HandleActive, HandleInactive, checkIdle, HandleWrite).
IdleWatches == []WatchKept /\ IdleHonest /\ IdleArrives

\* A server or client speaks what was declared, and a server that ends or is
\* stopped once it has its engine gives its ports back (ValidateServer,
\* ValidateClient, tlsIfNeed, server.run, server.Stop).
TransportAsDeclared ==
    [](part = "transport" => DeclaredIsSpoken /\ PortsReleased) /\ StopReleases
===============================================================================
