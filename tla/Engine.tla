-------------------------------- MODULE Engine --------------------------------
(***************************************************************************)
(* The agonet engine (contribute/agonet): event loops that own             *)
(* connections, the goroutines that feed their queues (the accept loop,    *)
(* client dials, one reader per connection, pool workers) and the          *)
(* goroutine that stops it all.  Every goroutine is a process; a step is   *)
(* what it does between two accesses to state another goroutine shares:    *)
(* the loops' queues, the cancelled context, the connection quota.         *)
(*                                                                         *)
(* Events carry no payload.  What user code decides (the Action a callback *)
(* returns, a panic, an inbound buffer over its limit) is a choice.        *)
(***************************************************************************)
EXTENDS Integers, Sequences, FiniteSets

CONSTANTS
    Loops,      \* the event loops
    Conns,      \* the connections that are ever made
    None,       \* no connection
    IsClient,   \* a client engine (Dial) or a server engine (accept)
    MaxConn,    \* Options.MaxConn; 0 is no limit
    QueueCap,   \* capacity of eventloop.ch (1024 in the code)
    MaxEvents   \* bound: packets from peers plus Close and Wake calls of users

ASSUME EngineAssumption ==
    /\ IsFiniteSet(Conns) /\ None \notin Conns
    /\ IsClient \in BOOLEAN
    /\ MaxConn \in Nat /\ QueueCap \in Nat \ {0} /\ MaxEvents \in Nat

VARIABLES
    ctxDone,    \* engine.concurrency.ctx is cancelled
    inShutdown, \* engine.inShutdown
    stopper,    \* the goroutine in engine.stop or client.Stop
    todo,       \* loops closeEventLoops has not yet visited
    listening,  \* the listener is open
    acceptor,   \* listenStream: where it is, and the connection in its hands
    ch,         \* eventloop.ch
    loop,       \* where eventloop.run is
    busy,       \* open's second half: the connection and what is left to do
    reg,        \* the connections in their loop's connections map (all loops)
    totalConn,  \* engine.totalConn
    owner,      \* conn.loop
    raw,        \* the network connection behind a conn
    reader,     \* the goroutine that reads it
    worker,     \* the pool worker that posts for it when the queue was full
    dial,       \* EnrollContext
    verdict,    \* the channel connOpened
    ons, offs,  \* how often OnOpen and OnClose were called for it
    events      \* how many of MaxEvents have happened

stopVars == <<inShutdown, stopper, todo, listening>>
connVars == <<reg, totalConn, ons, offs>>
vars == <<ctxDone, stopVars, acceptor, ch, loop, busy, connVars, owner, raw, reader,
          worker, dial, verdict, events>>

Idle == [do |-> "nothing", c |-> None]

Event(kind, c) == [kind |-> kind, c |-> c]

Full(l) == Len(ch[l]) >= QueueCap

\* The connections whose rejected quota increment is not yet rolled back.
Over == {c \in Conns : \E l \in Loops : busy[l] = [do |-> "rollback", c |-> c]}

Init ==
    /\ ctxDone = FALSE
    /\ inShutdown = FALSE
    /\ stopper = "waiting"
    /\ todo = Loops
    /\ listening = ~IsClient
    /\ acceptor = [at |-> IF IsClient THEN "exited" ELSE "accept", c |-> None]
    /\ ch = [l \in Loops |-> <<>>]
    /\ loop = [l \in Loops |-> "run"]
    /\ busy = [l \in Loops |-> Idle]
    /\ reg = {}
    /\ totalConn = 0
    /\ owner \in [Conns -> Loops]     \* what the load balancer will answer
    /\ raw = [c \in Conns |-> "none"]
    /\ reader = [c \in Conns |-> "none"]
    /\ worker = [c \in Conns |-> "none"]
    /\ dial = [c \in Conns |-> "none"]
    /\ verdict = [c \in Conns |-> "none"]
    /\ ons = [c \in Conns |-> 0]
    /\ offs = [c \in Conns |-> 0]
    /\ events = 0

-------------------------------------------------------------------------------
(* The event loop: eventloop.run, drain, rejectRemaining *)

\* The loop takes the event ev from its queue to handle it.
Handles(l, ev) ==
    /\ loop[l] \in {"run", "drain"}
    /\ busy[l] = Idle
    /\ ch[l] # <<>>
    /\ ev = Head(ch[l])
    /\ ch' = [ch EXCEPT ![l] = Tail(@)]

\* Where the loop is after an event whose handler returned: run exits on
\* ErrEngineShutdown; drain ignores the result and looks at its deadline.
Returns(l, result) ==
    \E next \in IF loop[l] = "drain" THEN {"drain", "reject"}
                ELSE IF result = "shutdown" THEN {"leave"} ELSE {"run"} :
        loop' = [loop EXCEPT ![l] = next]

\* Mutant of Close: the connection stays on the quota.
CloseKeepsQuota(c) ==
    /\ reg' = reg \ {c}
    /\ offs' = [offs EXCEPT ![c] = @ + 1]
    /\ raw' = [raw EXCEPT ![c] = "closed"]
    /\ UNCHANGED <<ons, totalConn>>

\* eventloop.close for a registered connection: out of the map, off the quota,
\* OnClose, and the network connection closed whatever OnClose does.
Close(c) ==
    /\ reg' = reg \ {c}
    /\ totalConn' = totalConn - 1
    /\ offs' = [offs EXCEPT ![c] = @ + 1]
    /\ raw' = [raw EXCEPT ![c] = "closed"]
    /\ UNCHANGED ons

\* ErrEngineShutdown, posted by closeEventLoops.
HandleError(l) ==
    /\ Handles(l, Event("error", None))
    /\ Returns(l, "shutdown")
    /\ UNCHANGED <<ctxDone, stopVars, acceptor, busy, connVars, owner, raw, reader,
                   worker, dial, verdict, events>>

\* Mutant of OverLimit: the old count decides.
OverLimitTooLate == MaxConn > 0 /\ totalConn > MaxConn

\* What open learns from its atomic increment.
OverLimit == MaxConn > 0 /\ totalConn + 1 > MaxConn

\* open, over the limit: the increment that found out is taken back later.
HandleOpenOver(l) ==
    /\ \E c \in Conns :
         /\ Handles(l, Event("open", c))
         /\ busy' = [busy EXCEPT ![l] = [do |-> "rollback", c |-> c]]
    /\ OverLimit
    /\ totalConn' = totalConn + 1
    /\ UNCHANGED <<ctxDone, stopVars, acceptor, loop, reg, ons, offs, owner, raw, reader,
                   worker, dial, verdict, events>>

\* Within the limit the connection is registered and OnOpen is called.
Register(c) ==
    /\ ~OverLimit
    /\ totalConn' = IF MaxConn > 0 THEN totalConn + 1 ELSE totalConn
    /\ reg' = reg \cup {c}
    /\ ons' = [ons EXCEPT ![c] = @ + 1]
    /\ UNCHANGED offs

\* open, when OnOpen keeps the connection: the dial is told.
HandleOpen(l) ==
    \E c \in Conns, action \in {"none", "shutdown"} :
        /\ Handles(l, Event("open", c))
        /\ Register(c)
        /\ Returns(l, action)
        /\ verdict' = [verdict EXCEPT ![c] = "ok"]
        /\ UNCHANGED <<ctxDone, stopVars, acceptor, busy, owner, raw, reader, worker, dial,
                       events>>

\* open, when OnOpen returns Close or panics: the connection is still to be closed,
\* and the dial to be told after that.
HandleOpenClose(l) ==
    \E c \in Conns, why \in {"close", "panic"} :
        /\ Handles(l, Event("open", c))
        /\ Register(c)
        /\ busy' = [busy EXCEPT ![l] = [do |-> why, c |-> c]]
        /\ UNCHANGED <<ctxDone, stopVars, acceptor, loop, owner, raw, reader, worker, dial,
                       verdict, events>>

\* Mutant of FinishRollback: the dial is told that all is well.
FinishRollbackSilently(l) ==
    LET c == busy[l].c
    IN  /\ busy[l].do = "rollback"
        /\ busy' = [busy EXCEPT ![l] = Idle]
        /\ totalConn' = totalConn - 1
        /\ raw' = [raw EXCEPT ![c] = "closed"]
        /\ verdict' = [verdict EXCEPT ![c] = "ok"]
        /\ Returns(l, "none")
        /\ UNCHANGED <<ctxDone, stopVars, acceptor, ch, reg, ons, offs, owner, reader, worker,
                       dial, events>>

\* The rejected connection: quota back, network connection closed, dial told.
FinishRollback(l) ==
    LET c == busy[l].c
    IN  /\ busy[l].do = "rollback"
        /\ busy' = [busy EXCEPT ![l] = Idle]
        /\ totalConn' = totalConn - 1
        /\ raw' = [raw EXCEPT ![c] = "closed"]
        /\ verdict' = [verdict EXCEPT ![c] = "error"]
        /\ Returns(l, "none")
        /\ UNCHANGED <<ctxDone, stopVars, acceptor, ch, reg, ons, offs, owner, reader, worker,
                       dial, events>>

\* OnOpen returned Close, or panicked: close the connection, then tell the dial.
FinishOpen(l) ==
    LET c == busy[l].c
    IN  /\ busy[l].do \in {"close", "panic"}
        /\ busy' = [busy EXCEPT ![l] = Idle]
        /\ Close(c)
        /\ verdict' = [verdict EXCEPT ![c] = IF busy[l].do = "panic" THEN "error" ELSE "ok"]
        /\ \E action \in {"none", "shutdown"} :
             Returns(l, IF busy[l].do = "panic" THEN "none" ELSE action)
        /\ UNCHANGED <<ctxDone, stopVars, acceptor, ch, owner, reader, worker, dial, events>>

\* Mutant of HandleClose: does not look whether the connection is still in the map.
HandleCloseBlindly(l) ==
    \E c \in Conns, kind \in {"netErr", "close"}, action \in {"none", "shutdown"} :
        /\ Handles(l, Event(kind, c))
        /\ Close(c) /\ Returns(l, action)
        /\ UNCHANGED <<ctxDone, stopVars, acceptor, busy, owner, reader, worker, dial, verdict,
                       events>>

\* A read error, or the function conn.Close posts.  A connection that is not in
\* the map any more is left alone.
HandleClose(l) ==
    \E c \in Conns, kind \in {"netErr", "close"}, action \in {"none", "shutdown"} :
        /\ Handles(l, Event(kind, c))
        /\ IF c \in reg
           THEN Close(c) /\ Returns(l, action)
           ELSE UNCHANGED <<connVars, raw>> /\ Returns(l, "none")
        /\ UNCHANGED <<ctxDone, stopVars, acceptor, busy, owner, reader, worker, dial, verdict,
                       events>>

\* A packet (read) or the function conn.Wake posts (wake): OnTraffic unless the
\* connection is gone.  read closes on Close, on a panic and on inbound overflow.
HandleTraffic(l) ==
    \E c \in Conns, kind \in {"data", "wake"}, closes \in BOOLEAN,
       action \in {"none", "shutdown"} :
        /\ Handles(l, Event(kind, c))
        /\ IF c \in reg /\ closes THEN Close(c) ELSE UNCHANGED <<connVars, raw>>
        /\ Returns(l, IF c \in reg THEN action ELSE "none")
        /\ UNCHANGED <<ctxDone, stopVars, acceptor, busy, owner, reader, worker, dial, verdict,
                       events>>

\* Mutant of BeginDrain: the loop only listens to its queue.
BeginDrainNever(l) == FALSE

\* The select of run sees the cancelled context.
BeginDrain(l) ==
    /\ loop[l] = "run" /\ busy[l] = Idle
    /\ ctxDone
    /\ loop' = [loop EXCEPT ![l] = "drain"]
    /\ UNCHANGED <<ctxDone, stopVars, acceptor, ch, busy, connVars, owner, raw, reader, worker,
                   dial, verdict, events>>

\* rejectRemaining, after the deadline: a queued open is refused, all else is dropped.
RejectOne(l) ==
    /\ loop[l] = "reject"
    /\ ch[l] # <<>>
    /\ ch' = [ch EXCEPT ![l] = Tail(@)]
    /\ LET ev == Head(ch[l])
       IN  IF ev.kind = "open"
           THEN /\ raw' = [raw EXCEPT ![ev.c] = "closed"]
                /\ verdict' = [verdict EXCEPT ![ev.c] = "error"]
           ELSE UNCHANGED <<raw, verdict>>
    /\ UNCHANGED <<ctxDone, stopVars, acceptor, loop, busy, connVars, owner, reader, worker,
                   dial, events>>

\* drain or rejectRemaining finds the queue empty and run returns.
EndDrain(l) ==
    /\ loop[l] \in {"drain", "reject"} /\ busy[l] = Idle
    /\ ch[l] = <<>>
    /\ loop' = [loop EXCEPT ![l] = "leave"]
    /\ UNCHANGED <<ctxDone, stopVars, acceptor, ch, busy, connVars, owner, raw, reader, worker,
                   dial, verdict, events>>

\* run's deferred function: cancel the context ...
TurnOff(l) ==
    /\ loop[l] = "leave"
    /\ loop' = [loop EXCEPT ![l] = "cleanup"]
    /\ ctxDone' = TRUE
    /\ UNCHANGED <<stopVars, acceptor, ch, busy, connVars, owner, raw, reader, worker, dial,
                   verdict, events>>

\* ... close every connection of the loop ...
CleanupOne(l) ==
    /\ loop[l] = "cleanup"
    /\ \E c \in reg : owner[c] = l /\ Close(c)
    /\ UNCHANGED <<ctxDone, stopVars, acceptor, ch, loop, busy, owner, reader, worker, dial,
                   verdict, events>>

\* ... and return.
Exit(l) ==
    /\ loop[l] = "cleanup"
    /\ \A c \in reg : owner[c] # l
    /\ loop' = [loop EXCEPT ![l] = "exited"]
    /\ UNCHANGED <<ctxDone, stopVars, acceptor, ch, busy, connVars, owner, raw, reader, worker,
                   dial, verdict, events>>

LoopStep(l) ==
    \/ HandleError(l) \/ HandleOpenOver(l) \/ HandleOpen(l) \/ HandleOpenClose(l)
    \/ FinishRollback(l) \/ FinishOpen(l) \/ HandleClose(l) \/ HandleTraffic(l) \/ BeginDrain(l)
    \/ RejectOne(l) \/ EndDrain(l) \/ TurnOff(l) \/ CleanupOne(l) \/ Exit(l)

-------------------------------------------------------------------------------
(* Feeding the queues: eventloop.send, sendNonBlocking, trySend *)

Enqueue(l, ev) == ch' = [ch EXCEPT ![l] = Append(@, ev)]

\* listenStream: the listener hands out a connection, for some loop ...
Accept(c) ==
    /\ acceptor.at = "accept"
    /\ listening
    /\ raw[c] = "none"
    /\ raw' = [raw EXCEPT ![c] = "open"]
    /\ acceptor' = [at |-> "check", c |-> c]
    /\ UNCHANGED <<ctxDone, stopVars, ch, loop, busy, connVars, owner, reader, worker, dial,
                   verdict, events>>

\* ... sendNonBlocking looks at the context ...
AcceptCheck ==
    /\ acceptor.at = "check"
    /\ IF ctxDone
       THEN /\ raw' = [raw EXCEPT ![acceptor.c] = "closed"]
            /\ acceptor' = [at |-> "accept", c |-> None]
       ELSE /\ acceptor' = [acceptor EXCEPT !.at = "put"]
            /\ UNCHANGED raw
    /\ UNCHANGED <<ctxDone, stopVars, ch, loop, busy, connVars, owner, reader, worker, dial,
                   verdict, events>>

\* ... and puts the event if there is room.  Then the reader is started.
AcceptPut ==
    LET c == acceptor.c
    IN  /\ acceptor.at = "put"
        /\ IF Full(owner[c])
           THEN raw' = [raw EXCEPT ![c] = "closed"] /\ UNCHANGED <<ch, reader>>
           ELSE /\ Enqueue(owner[c], Event("open", c))
                /\ reader' = [reader EXCEPT ![c] = "reading"]
                /\ UNCHANGED raw
        /\ acceptor' = [at |-> "accept", c |-> None]
        /\ UNCHANGED <<ctxDone, stopVars, loop, busy, connVars, owner, worker, dial, verdict,
                       events>>

\* Accept fails, because the listener was closed or for a reason of its own: the
\* accept loop ends and takes the engine with it.
AcceptError ==
    /\ acceptor.at = "accept"
    /\ acceptor' = [at |-> "exited", c |-> None]
    /\ ctxDone' = TRUE
    /\ UNCHANGED <<stopVars, ch, loop, busy, connVars, owner, raw, reader, worker, dial,
                   verdict, events>>

\* EnrollContext: a connected socket is to be given to some loop.  It may be turned
\* down first: closed if the caller is that loop, left to the caller if its kind is
\* not supported or keep-alive cannot be set.
DialStart(c) ==
    /\ IsClient
    /\ dial[c] = "none" /\ raw[c] = "none"
    /\ \/ /\ raw' = [raw EXCEPT ![c] = "open"]
          /\ dial' = [dial EXCEPT ![c] = "check"]
       \/ /\ \E left \in {"open", "closed"} : raw' = [raw EXCEPT ![c] = left]
          /\ dial' = [dial EXCEPT ![c] = "refused"]
    /\ UNCHANGED <<ctxDone, stopVars, acceptor, ch, loop, busy, connVars, owner, reader,
                   worker, verdict, events>>

\* ... send looks at the context and then waits for room or for the context; when it
\* fails the socket is closed.
DialFails(c) ==
    /\ dial[c] \in {"check", "put"}
    /\ ctxDone
    /\ raw' = [raw EXCEPT ![c] = "closed"]
    /\ dial' = [dial EXCEPT ![c] = "failed"]
    /\ UNCHANGED <<ctxDone, stopVars, acceptor, ch, loop, busy, connVars, owner, reader,
                   worker, verdict, events>>

DialCheck(c) ==
    /\ dial[c] = "check"
    /\ ~ctxDone
    /\ dial' = [dial EXCEPT ![c] = "put"]
    /\ UNCHANGED <<ctxDone, stopVars, acceptor, ch, loop, busy, connVars, owner, raw, reader,
                   worker, verdict, events>>

DialPut(c) ==
    /\ dial[c] = "put"
    /\ ~Full(owner[c])
    /\ Enqueue(owner[c], Event("open", c))
    /\ reader' = [reader EXCEPT ![c] = "reading"]
    /\ dial' = [dial EXCEPT ![c] = "wait"]
    /\ UNCHANGED <<ctxDone, stopVars, acceptor, loop, busy, connVars, owner, raw, worker,
                   verdict, events>>

\* The final select: the loop's verdict, or the cancelled context.
DialOpened(c) ==
    /\ dial[c] = "wait"
    /\ verdict[c] # "none"
    /\ dial' = [dial EXCEPT ![c] = IF verdict[c] = "ok" THEN "ok" ELSE "failed"]
    /\ UNCHANGED <<ctxDone, stopVars, acceptor, ch, loop, busy, connVars, owner, raw, reader,
                   worker, verdict, events>>

\* Mutants of DialCancelled: the socket is forgotten; the context is not looked at.
DialCancelledLeaks(c) ==
    /\ dial[c] = "wait"
    /\ ctxDone
    /\ dial' = [dial EXCEPT ![c] = "failed"]
    /\ UNCHANGED <<ctxDone, stopVars, acceptor, ch, loop, busy, connVars, owner, raw, reader,
                   worker, verdict, events>>
DialCancelledNever(c) == FALSE

DialCancelled(c) ==
    /\ dial[c] = "wait"
    /\ ctxDone
    /\ raw' = [raw EXCEPT ![c] = "closed"]
    /\ dial' = [dial EXCEPT ![c] = "failed"]
    /\ UNCHANGED <<ctxDone, stopVars, acceptor, ch, loop, busy, connVars, owner, reader,
                   worker, verdict, events>>

DialStep(c) == DialFails(c) \/ DialCheck(c) \/ DialPut(c) \/ DialOpened(c) \/ DialCancelled(c)

\* The reader of c got a packet.
ReadData(c) ==
    /\ reader[c] = "reading"
    /\ raw[c] = "open"
    /\ events < MaxEvents
    /\ events' = events + 1
    /\ reader' = [reader EXCEPT ![c] = IF ctxDone THEN "done" ELSE "data"]
    /\ UNCHANGED <<ctxDone, stopVars, acceptor, ch, loop, busy, connVars, owner, raw, worker,
                   dial, verdict>>

\* The reader got an error: the peer closed, or this side did.
ReadError(c) ==
    /\ reader[c] = "reading"
    /\ reader' = [reader EXCEPT ![c] = IF ctxDone THEN "done" ELSE "netErr"]
    /\ UNCHANGED <<ctxDone, stopVars, acceptor, ch, loop, busy, connVars, owner, raw, worker,
                   dial, verdict, events>>

\* Its send succeeds, or gives up on the cancelled context.
ReaderPut(c) ==
    /\ reader[c] \in {"data", "netErr"}
    /\ ~Full(owner[c])
    /\ Enqueue(owner[c], Event(reader[c], c))
    /\ reader' = [reader EXCEPT ![c] = IF @ = "data" THEN "reading" ELSE "done"]
    /\ UNCHANGED <<ctxDone, stopVars, acceptor, loop, busy, connVars, owner, raw, worker, dial,
                   verdict, events>>

\* Mutant of ReaderGivesUp: a bare send.
ReaderGivesUpNever(c) == FALSE

ReaderGivesUp(c) ==
    /\ reader[c] \in {"data", "netErr"}
    /\ ctxDone
    /\ reader' = [reader EXCEPT ![c] = "done"]
    /\ UNCHANGED <<ctxDone, stopVars, acceptor, ch, loop, busy, connVars, owner, raw, worker,
                   dial, verdict, events>>

\* conn.Close and conn.Wake, by any goroutine that was given the connection: trySend,
\* which does not look at the context, or a pool worker that sends.
Post(c, kind) ==
    /\ ons[c] > 0
    /\ worker[c] = "none"
    /\ events < MaxEvents
    /\ events' = events + 1
    /\ IF Full(owner[c])
       THEN worker' = [worker EXCEPT ![c] = IF ctxDone THEN @ ELSE kind] /\ UNCHANGED ch
       ELSE Enqueue(owner[c], Event(kind, c)) /\ UNCHANGED worker
    /\ UNCHANGED <<ctxDone, stopVars, acceptor, loop, busy, connVars, owner, raw, reader, dial,
                   verdict>>

WorkerPut(c) ==
    /\ worker[c] # "none"
    /\ ~Full(owner[c])
    /\ Enqueue(owner[c], Event(worker[c], c))
    /\ worker' = [worker EXCEPT ![c] = "none"]
    /\ UNCHANGED <<ctxDone, stopVars, acceptor, loop, busy, connVars, owner, raw, reader, dial,
                   verdict, events>>

WorkerGivesUp(c) ==
    /\ worker[c] # "none"
    /\ ctxDone
    /\ worker' = [worker EXCEPT ![c] = "none"]
    /\ UNCHANGED <<ctxDone, stopVars, acceptor, ch, loop, busy, connVars, owner, raw, reader,
                   dial, verdict, events>>

-------------------------------------------------------------------------------
(* Stopping: server.Stop, client.Stop, engine.stop *)

\* The user calls Stop.  A client's Stop goes on itself; a server's only cancels,
\* and the goroutine blocked in run goes on when it sees that.
Stop ==
    /\ stopper = "waiting"
    /\ ctxDone' = TRUE
    /\ stopper' = IF IsClient THEN "notify" ELSE stopper
    /\ UNCHANGED <<inShutdown, todo, listening, acceptor, ch, loop, busy, connVars, owner, raw,
                   reader, worker, dial, verdict, events>>

StopSeen ==
    /\ stopper = "waiting" /\ ~IsClient
    /\ ctxDone
    /\ stopper' = "notify"
    /\ UNCHANGED <<ctxDone, inShutdown, todo, listening, acceptor, ch, loop, busy, connVars,
                   owner, raw, reader, worker, dial, verdict, events>>

\* closeEventLoops: trySend the shutdown error to every loop, close the listeners.
StopNotify(l) ==
    /\ stopper = "notify"
    /\ l \in todo
    /\ todo' = todo \ {l}
    /\ IF Full(l) THEN UNCHANGED ch ELSE Enqueue(l, Event("error", None))
    /\ UNCHANGED <<ctxDone, inShutdown, stopper, listening, acceptor, loop, busy, connVars,
                   owner, raw, reader, worker, dial, verdict, events>>

StopListeners ==
    /\ stopper = "notify"
    /\ todo = {}
    /\ stopper' = "join"
    /\ listening' = FALSE
    /\ UNCHANGED <<ctxDone, inShutdown, todo, acceptor, ch, loop, busy, connVars, owner, raw,
                   reader, worker, dial, verdict, events>>

\* Mutant of StopJoin: does not wait for the loops.
StopJoinAtOnce ==
    /\ stopper = "join"
    /\ stopper' = "stopped"
    /\ inShutdown' = TRUE
    /\ UNCHANGED <<ctxDone, todo, listening, acceptor, ch, loop, busy, connVars, owner, raw,
                   reader, worker, dial, verdict, events>>

\* concurrency.Wait returns when every loop and the accept loop have returned.
StopJoin ==
    /\ stopper = "join"
    /\ \A l \in Loops : loop[l] = "exited"
    /\ acceptor.at = "exited"
    /\ stopper' = "stopped"
    /\ inShutdown' = TRUE
    /\ UNCHANGED <<ctxDone, todo, listening, acceptor, ch, loop, busy, connVars, owner, raw,
                   reader, worker, dial, verdict, events>>

StopStep == StopSeen \/ (\E l \in Loops : StopNotify(l)) \/ StopListeners \/ StopJoin

-------------------------------------------------------------------------------
Next ==
    \/ \E l \in Loops : LoopStep(l)
    \/ \E c \in Conns :
         \/ Accept(c) \/ DialStart(c) \/ DialStep(c)
         \/ ReadData(c) \/ ReadError(c) \/ ReaderPut(c) \/ ReaderGivesUp(c)
         \/ Post(c, "close") \/ Post(c, "wake") \/ WorkerPut(c) \/ WorkerGivesUp(c)
    \/ AcceptCheck \/ AcceptPut \/ AcceptError
    \/ Stop \/ StopStep

Spec == Init /\ [][Next]_vars

\* Go runs every goroutine that can run.  Nothing obliges a peer to send or to hang up,
\* a user to dial, post or stop, or a listener to fail before it is closed.
Fairness ==
    /\ \A l \in Loops : WF_vars(LoopStep(l))
    /\ \A c \in Conns :
         /\ WF_vars(DialStep(c))
         /\ WF_vars(ReaderPut(c) \/ ReaderGivesUp(c))
         /\ WF_vars(raw[c] = "closed" /\ ReadError(c))
         /\ WF_vars(WorkerPut(c) \/ WorkerGivesUp(c))
    /\ WF_vars(AcceptCheck \/ AcceptPut)
    /\ WF_vars(~listening /\ AcceptError)
    /\ WF_vars(StopStep)

FairSpec == Spec /\ Fairness

-------------------------------------------------------------------------------
(* Properties *)

Kinds == {"error", "open", "netErr", "close", "data", "wake"}

Events == [kind : Kinds, c : Conns \cup {None}]

EngineTypeOK ==
    /\ ctxDone \in BOOLEAN /\ inShutdown \in BOOLEAN /\ listening \in BOOLEAN
    /\ stopper \in {"waiting", "notify", "join", "stopped"}
    /\ todo \in SUBSET Loops
    /\ acceptor \in [at : {"accept", "check", "put", "exited"}, c : Conns \cup {None}]
    /\ acceptor.at \in {"check", "put"} => acceptor.c \in Conns
    /\ totalConn \in Int
    /\ events \in 0..MaxEvents

QueueTypeOK ==
    /\ ch \in [Loops -> Seq(Events)]
    /\ \A l \in Loops : Len(ch[l]) <= QueueCap

LoopTypeOK ==
    /\ loop \in [Loops -> {"run", "drain", "reject", "leave", "cleanup", "exited"}]
    /\ busy \in [Loops -> [do : {"nothing", "rollback", "close", "panic"},
                           c : Conns \cup {None}]]
    /\ \A l \in Loops : busy[l].do # "nothing" => busy[l].c \in Conns

ConnTypeOK ==
    /\ reg \in SUBSET Conns
    /\ owner \in [Conns -> Loops]
    /\ raw \in [Conns -> {"none", "open", "closed"}]
    /\ reader \in [Conns -> {"none", "reading", "data", "netErr", "done"}]
    /\ worker \in [Conns -> {"none", "close", "wake"}]
    /\ dial \in [Conns -> {"none", "refused", "check", "put", "wait", "ok", "failed"}]
    /\ verdict \in [Conns -> {"none", "ok", "error"}]
    /\ ons \in [Conns -> Nat] /\ offs \in [Conns -> Nat]

\* Type invariant; a queue never holds more than its channel's capacity.
TypeOK == EngineTypeOK /\ QueueTypeOK /\ LoopTypeOK /\ ConnTypeOK

\* The limit holds whichever loops open connections at the same time: the atomic
\* increment in open is also the test.
QuotaHeld == MaxConn > 0 => Cardinality(reg) <= MaxConn

\* engine.totalConn never drifts: it counts the registered connections and the
\* increments open is about to take back, on every way a connection can end.
QuotaAccounted == MaxConn > 0 => totalConn = Cardinality(reg) + Cardinality(Over)

\* A connection gets OnOpen at most once and OnClose at most once, never before
\* OnOpen, and it is in the map exactly between the two: read errors, Close calls,
\* handler panics and the shutdown race to close it, and one of them does.
CallbacksPaired ==
    \A c \in Conns :
        /\ ons[c] <= 1
        /\ ons[c] = offs[c] + (IF c \in reg THEN 1 ELSE 0)

\* Dial reports success only for a connection whose OnOpen ran, and reports the
\* loop's refusal only with the socket closed.
DialTruthful ==
    \A c \in Conns :
        /\ dial[c] = "ok" => ons[c] = 1
        /\ dial[c] = "failed" => raw[c] = "closed"

\* When a client's Stop has returned and no Dial is under way, every socket the engine
\* ever took over is closed, also those whose open event was left in the queue of a
\* loop that had exited (the last select of EnrollContext).
ClientLeavesNothingOpen ==
    (IsClient /\ inShutdown) =>
        \A c \in Conns : dial[c] \in {"none", "ok", "failed"} => raw[c] # "open"

\* The accept loop uses sendNonBlocking so that no connection is left behind when
\* the engine is shut down: when the server has stopped, no accepted connection is
\* still open.
ServerLeavesNothingOpen ==
    (~IsClient /\ inShutdown) => \A c \in Conns : raw[c] # "open"

\* The engine implements the abstract table of connections.
Table == INSTANCE ConnTable WITH live <- reg, gone <- {c \in Conns : offs[c] > 0}
ImplementsTable == Table!Spec

\* No callback of a connection runs once Stop has returned.
QuietAfterStop == [][inShutdown => UNCHANGED <<ons, offs>>]_vars

\* Once the context is cancelled every loop exits, also when its queue is full or its
\* producers keep posting, so Stop returns and every open connection got its OnClose.
StopReturns ==
    /\ (stopper # "waiting") ~> inShutdown
    /\ ctxDone ~> \A l \in Loops : loop[l] = "exited"

\* A Dial never hangs, whatever the loop it was given to does.
DialReturns == \A c \in Conns : (dial[c] # "none") ~> (dial[c] \in {"refused", "ok", "failed"})

\* No reader or pool worker is left blocked on a queue nobody empties.
NoPosterStuck ==
    \A c \in Conns :
        /\ (reader[c] \in {"data", "netErr"}) ~> (reader[c] \in {"reading", "done"})
        /\ (worker[c] # "none") ~> (worker[c] = "none")

-------------------------------------------------------------------------------
(* The inductive invariant behind CallbacksPaired, the quota and DialTruthful *)

\* The open event of c is still to be posted, or will never be.
Unposted(c) ==
    \/ raw[c] = "none"
    \/ acceptor.at \in {"check", "put"} /\ acceptor.c = c
    \/ dial[c] \in {"check", "put"}
    \/ IsClient /\ dial[c] = "none"

\* An event is in the queue of the loop that owns its connection.
Routed ==
    \A l \in Loops : \A i \in 1..Len(ch[l]) :
        ch[l][i].kind # "error" => ch[l][i].c \in Conns /\ owner[ch[l][i].c] = l

\* A connection is posted for opening once ...
OpenOnce ==
    \A l \in Loops : \A i, j \in 1..Len(ch[l]) :
        (ch[l][i].kind = "open" /\ ch[l][j].kind = "open" /\ ch[l][i].c = ch[l][j].c) => i = j

\* ... and until it is handled its OnOpen has not run.
OpenIsNew ==
    /\ \A l \in Loops : \A i \in 1..Len(ch[l]) :
         ch[l][i].kind = "open" => ons[ch[l][i].c] = 0 /\ ~Unposted(ch[l][i].c)
    /\ \A c \in Conns : Unposted(c) => ons[c] = 0

\* A loop in the middle of open owns the connection, and nobody else will open it.
BusyOwns ==
    \A l \in Loops :
        /\ busy[l].do = "nothing" => busy[l] = Idle
        /\ busy[l].do # "nothing" =>
             /\ loop[l] \in {"run", "drain"}
             /\ owner[busy[l].c] = l
             /\ ~Unposted(busy[l].c)
             /\ \A i \in 1..Len(ch[l]) : ch[l][i].kind = "open" => ch[l][i].c # busy[l].c
        /\ busy[l].do = "rollback" => ons[busy[l].c] = 0
        /\ busy[l].do \in {"close", "panic"} => busy[l].c \in reg

\* Clients dial and servers accept; both have a network connection to show for it.
ModeOK ==
    /\ IsClient => acceptor.at = "exited"
    /\ ~IsClient => \A c \in Conns : dial[c] = "none"
    /\ \A c \in Conns : dial[c] # "none" => raw[c] # "none"
    /\ acceptor.at \in {"check", "put"} => raw[acceptor.c] # "none"

\* The verdict in connOpened is what happened.
VerdictTrue ==
    \A c \in Conns :
        /\ verdict[c] = "ok" => ons[c] = 1
        /\ verdict[c] = "error" => raw[c] = "closed"

ConnInv ==
    /\ Routed /\ OpenOnce /\ OpenIsNew /\ BusyOwns /\ ModeOK
    /\ VerdictTrue /\ CallbacksPaired /\ DialTruthful
==============================================================================
