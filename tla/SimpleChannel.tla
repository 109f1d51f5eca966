----------------------------- MODULE SimpleChannel -----------------------------
(***************************************************************************)
(* One request of the short client of agonet/simple: RequestSync dials,    *)
(* fetches the channel from the event loop, hangs its handlers in the      *)
(* pipeline, writes, and waits for the promise that the response, the loss *)
(* of the connection and the timeout race for.  The connection, its        *)
(* channel and pipeline belong to the event loop; RequestSync runs in a    *)
(* goroutine of its own and the two meet in the loop's queue, the closed   *)
(* flag, the exception flag and the promise.                               *)
(*                                                                         *)
(* The engine is what Engine.tla shows of it: a bounded queue, pool        *)
(* workers that post for others, a context that is cancelled once.         *)
(***************************************************************************)
EXTENDS Integers, Sequences

CONSTANTS
    QueueCap,     \* capacity of eventloop.ch
    MaxData,      \* bound: packets from the peer
    MaxRefusals   \* bound: times the full worker pool refuses a task

VARIABLES
    ctxDone,      \* engine.concurrency.ctx is cancelled
    inShutdown,   \* engine.inShutdown
    loop,         \* eventloop.run: in its loop, in an exception handler, gone
    queue,        \* eventloop.ch
    posting,      \* tasks given to the pool, their worker not yet running
    sending,      \* tasks whose worker found the context alive
    refused,      \* tasks the pool refused
    reg,          \* the connection is registered and open
    connCtx,      \* conn.ctx: "nil", the dialler's "plain" one, or with "channel"
    closed,       \* channel.closed
    handling,     \* pipeline.handlingException
    chain,        \* handlers RequestSync has added
    caller,       \* where RequestSync is
    tries,        \* times in ChannelFromConn
    got,          \* what the task of ChannelFromConn read
    written,      \* what the callback of AsyncWrite reported
    promise,      \* simplePromise: pending, or how it was completed
    result,       \* what RequestSync returned
    packets       \* packets the peer has sent

engineVars == <<ctxDone, inShutdown>>
poolVars == <<posting, sending, refused>>
callVars == <<tries, got, written, result>>
vars == <<engineVars, loop, queue, poolVars, reg, connCtx, closed, handling, chain,
          caller, callVars, promise, packets>>

Tasks == {"get", "write", "closeChannel", "closeConn", "wake", "data", "netErr"}

NoTasks == [t \in Tasks |-> 0]

Init ==
    /\ ctxDone = FALSE /\ inShutdown = FALSE
    /\ loop = "run" /\ queue = <<>>
    /\ posting = NoTasks /\ sending = NoTasks /\ refused = 0
    /\ reg = FALSE /\ connCtx = "plain"
    /\ closed = FALSE /\ handling = FALSE /\ chain = {}
    /\ caller = "dial" /\ tries = 0 /\ got = "none" /\ written = "none"
    /\ promise = "pending" /\ result = "none"
    /\ packets = 0

-------------------------------------------------------------------------------
(* Posting to the loop *)

\* Submit to the non-blocking pool: a worker takes the task, or nobody does.
Submit(t, ok) ==
    /\ IF ok THEN posting' = [posting EXCEPT ![t] = @ + 1] /\ UNCHANGED refused
             ELSE refused < MaxRefusals /\ refused' = refused + 1 /\ UNCHANGED posting
    /\ UNCHANGED sending

\* eventloop.Execute
Execute(t, ok) ==
    IF inShutdown THEN ~ok /\ UNCHANGED poolVars ELSE Submit(t, ok)

\* trySend, and the pool when the queue is full (AsyncWrite, conn.Close, Wake).
TrySend(q, t, ok) ==
    IF Len(q) < QueueCap THEN ok /\ queue' = Append(q, t) /\ UNCHANGED poolVars
                         ELSE queue' = q /\ Submit(t, ok)

\* eventloop.send, first half: a cancelled context drops the task.
WorkerChecks(t) ==
    /\ posting[t] > 0
    /\ posting' = [posting EXCEPT ![t] = @ - 1]
    /\ sending' = IF ctxDone THEN sending ELSE [sending EXCEPT ![t] = @ + 1]
    /\ UNCHANGED <<engineVars, loop, queue, refused, reg, connCtx, closed, handling,
                   chain, caller, callVars, promise, packets>>

\* eventloop.send, second half: the select between room and cancellation.
WorkerSends(t) ==
    /\ sending[t] > 0
    /\ sending' = [sending EXCEPT ![t] = @ - 1]
    /\ \/ Len(queue) < QueueCap /\ queue' = Append(queue, t)
       \/ ctxDone /\ UNCHANGED queue
    /\ UNCHANGED <<engineVars, loop, posting, refused, reg, connCtx, closed, handling,
                   chain, caller, callVars, promise, packets>>

-------------------------------------------------------------------------------
(* The channel and the promise *)

\* simplePromise.Resolve and Reject: only the first of them counts.
Complete(how) == promise' = IF promise = "pending" THEN how ELSE promise

\* channel.Close: the first caller asks the loop to close the connection.
ChannelClose ==
    \/ closed /\ UNCHANGED <<closed, poolVars>>
    \/ ~closed /\ closed' = TRUE /\ \E ok \in BOOLEAN : Execute("closeChannel", ok)

\* SimpleEventHandler.OnClose: FireChannelInactive, then channel.Close.  The
\* handler RequestSync adds rejects the promise with the error it is given,
\* which is nil unless a read or a handler failed.
OnClose(ex) ==
    IF connCtx = "channel"
    THEN /\ IF "inactive" \in chain THEN Complete(ex) ELSE UNCHANGED promise
         /\ ChannelClose
    ELSE UNCHANGED <<promise, closed, poolVars>>

\* eventloop.close, which ignores a connection it no longer has.
LoopClose(ex) ==
    IF reg THEN /\ OnClose(ex)
                /\ reg' = FALSE
                /\ connCtx' = "nil"
           ELSE UNCHANGED <<reg, connCtx, promise, closed, poolVars>>

-------------------------------------------------------------------------------
(* The event loop *)

Takes(t) ==
    /\ loop = "run" /\ queue # <<>> /\ Head(queue) = t

\* The task of ChannelFromConn; the caller is waiting for its signal.
LoopGet ==
    /\ Takes("get")
    /\ queue' = Tail(queue)
    /\ got' = connCtx
    /\ caller' = "got"
    /\ UNCHANGED <<engineVars, loop, poolVars, reg, connCtx, closed, handling, chain,
                   tries, written, result, promise, packets>>

\* The task of AsyncWrite: conn.Write and the callback that ends Write1's wait.
LoopWrite ==
    /\ Takes("write")
    /\ queue' = Tail(queue)
    /\ \E w \in {"ok", "failed"} : (w = "ok" => reg) /\ written' = w
    /\ caller' = "wrote"
    /\ UNCHANGED <<engineVars, loop, poolVars, reg, connCtx, closed, handling, chain,
                   tries, got, result, promise, packets>>

\* netErr, conn.Close and the task of channel.Close, which passes on the error it
\* was given: nil when a handler panicked with a value that is no error.
LoopCloses ==
    /\ \E t \in {"closeChannel", "closeConn", "netErr"}, ex \in {"nil", "error"} :
         /\ Takes(t)
         /\ t # "closeChannel" => ex = (IF t = "closeConn" THEN "nil" ELSE "error")
         /\ LoopClose(ex)
    /\ queue' = Tail(queue)
    /\ UNCHANGED <<engineVars, loop, handling, chain, caller, callVars, packets>>

\* read and wake, for a packet the handlers get along with: no whole frame, or
\* a frame that reaches the handler of RequestSync if it is there already, and
\* perhaps bytes left over, for which the loop is woken again (bound: once for
\* each packet).
Traffic ==
    /\ Takes("data") \/ Takes("wake")
    /\ IF reg
       THEN \E frame, more \in BOOLEAN :
              /\ more => frame /\ Takes("data")
              /\ IF frame /\ "promise" \in chain THEN Complete("value")
                                                 ELSE UNCHANGED promise
              /\ IF more THEN \E ok \in BOOLEAN : TrySend(Tail(queue), "wake", ok)
                         ELSE queue' = Tail(queue) /\ UNCHANGED poolVars
       ELSE queue' = Tail(queue) /\ UNCHANGED <<promise, poolVars>>
    /\ UNCHANGED <<engineVars, loop, reg, connCtx, closed, handling, chain, caller,
                   callVars, packets>>

\* A handler panics: OnTraffic enters the exception chain, or, when somebody
\* is in it, closes the connection.
TrafficPanics ==
    /\ Takes("data") \/ Takes("wake")
    /\ reg
    /\ queue' = Tail(queue)
    /\ IF handling
       THEN LoopClose("nil") /\ UNCHANGED <<loop, handling>>
       ELSE /\ handling' = TRUE /\ loop' = "exception"
            /\ UNCHANGED <<reg, connCtx, promise, closed, poolVars>>
    /\ UNCHANGED <<engineVars, chain, caller, callVars, packets>>

\* Mutant of LoopExceptionEnds: the failed chain is taken for a finished one.
LoopExceptionForgets ==
    /\ loop = "exception" /\ loop' = "run"
    /\ \E how \in {"handled", "tail", "panics"} :
         /\ handling' = (how = "panics")
         /\ IF how = "tail" THEN ChannelClose ELSE UNCHANGED <<closed, poolVars>>
    /\ UNCHANGED <<engineVars, queue, reg, connCtx, chain, caller, callVars, promise,
                   packets>>

\* TryFireException returns: a handler dealt with it, the tail handler closed
\* the channel, or a handler panicked, which closes the connection.
LoopExceptionEnds ==
    /\ loop = "exception" /\ loop' = "run"
    /\ \/ handling' = FALSE /\ UNCHANGED <<reg, connCtx, promise, closed, poolVars>>
       \/ handling' = FALSE /\ ChannelClose /\ UNCHANGED <<reg, connCtx, promise>>
       \/ UNCHANGED handling /\ LoopClose("nil")
    /\ UNCHANGED <<engineVars, queue, chain, caller, callVars, packets>>

\* The end of run: what is still queued was handled before or is thrown away,
\* and a registered connection is closed without an error.
LoopLeaves ==
    /\ ctxDone /\ loop = "run"
    /\ loop' = "gone" /\ queue' = <<>>
    /\ LoopClose("nil")
    /\ UNCHANGED <<engineVars, handling, chain, caller, callVars, packets>>

\* client.Stop
Stop ==
    /\ ~ctxDone /\ ctxDone' = TRUE
    /\ UNCHANGED <<inShutdown, loop, queue, poolVars, reg, connCtx, closed, handling,
                   chain, caller, callVars, promise, packets>>

\* client.Stop, after the loops have exited.
StopEnds ==
    /\ loop = "gone" /\ ~inShutdown /\ inShutdown' = TRUE
    /\ UNCHANGED <<ctxDone, loop, queue, poolVars, reg, connCtx, closed, handling,
                   chain, caller, callVars, promise, packets>>

\* The goroutine that reads the connection posts a packet or its end.
PeerSends(t) ==
    /\ t \in {"data", "netErr"}
    /\ reg /\ packets < MaxData /\ Len(queue) < QueueCap
    /\ packets' = IF t = "netErr" THEN MaxData ELSE packets + 1
    /\ queue' = Append(queue, t)
    /\ UNCHANGED <<engineVars, loop, poolVars, reg, connCtx, closed, handling, chain,
                   caller, callVars, promise>>

-------------------------------------------------------------------------------
(* RequestSync *)

\* The deferred tcon.Close follows every return after the dial.
Returns(r) == result' = r /\ caller' = "closing"

\* DialContext with OnOpen in the loop: it fails; or the channel is bound; or
\* the initializer or a handler fails and the open connection is closed again,
\* in which case DialContext still succeeds.
Dial ==
    /\ caller = "dial"
    /\ \/ caller' = "returned" /\ result' = "error" /\ UNCHANGED <<reg, connCtx>>
       \/ /\ loop = "run" /\ caller' = "execute" /\ UNCHANGED result
          /\ \E fine \in BOOLEAN : reg' = fine /\ connCtx' = IF fine THEN "channel" ELSE "nil"
    /\ UNCHANGED <<engineVars, loop, queue, poolVars, closed, handling, chain, tries, got,
                   written, promise, packets>>

\* ChannelFromConn gives the loop its task.
ExecuteGet ==
    /\ caller = "execute"
    /\ \E ok \in BOOLEAN :
         /\ Execute("get", ok)
         /\ IF ok THEN caller' = "wait" /\ UNCHANGED result ELSE Returns("error")
    /\ UNCHANGED <<engineVars, loop, queue, reg, connCtx, closed, handling, chain, tries,
                   got, written, promise, packets>>

\* Mutant of GotChannel: the retries are not counted.
GotChannelForever ==
    /\ caller = "got"
    /\ caller' = IF got = "channel" THEN "addPromise" ELSE "execute"
    /\ UNCHANGED <<engineVars, loop, queue, poolVars, reg, connCtx, closed, handling,
                   chain, tries, got, written, result, promise, packets>>

\* ChannelFromConn after the signal: a nil context is tried again, three times.
GotChannel ==
    /\ caller = "got"
    /\ \/ got = "channel" /\ caller' = "addPromise" /\ UNCHANGED <<tries, result>>
       \/ /\ got = "nil" /\ tries' = tries + 1
          /\ IF tries' < 3 THEN caller' = "execute" /\ UNCHANGED result
                           ELSE Returns("error")
       \/ got = "plain" /\ Returns("error") /\ UNCHANGED tries
    /\ UNCHANGED <<engineVars, loop, queue, poolVars, reg, connCtx, closed, handling,
                   chain, got, written, promise, packets>>

\* The two AddLast calls.
AddHandler ==
    /\ \/ caller = "addPromise" /\ caller' = "addInactive" /\ chain' = chain \cup {"promise"}
       \/ caller = "addInactive" /\ caller' = "write" /\ chain' = chain \cup {"inactive"}
    /\ UNCHANGED <<engineVars, loop, queue, poolVars, reg, connCtx, closed, handling,
                   callVars, promise, packets>>

\* channel.Write to Write1: refused when closed, an encoder may panic, and
\* AsyncWrite may find the queue and the pool full.
Write ==
    /\ caller = "write"
    /\ \/ closed /\ Returns("error") /\ UNCHANGED <<queue, poolVars>>
       \/ ~closed /\ caller' = "panicked" /\ UNCHANGED <<queue, poolVars, result>>
       \/ ~closed /\ UNCHANGED result
          /\ \E ok \in BOOLEAN :
               TrySend(queue, "write", ok) /\ caller' = IF ok THEN "written?" ELSE "panicked"
    /\ UNCHANGED <<engineVars, loop, reg, connCtx, closed, handling, chain, tries, got,
                   written, promise, packets>>

\* Write1 returns; a failure becomes a panic of the head handler.
Wrote ==
    /\ caller = "wrote"
    /\ caller' = IF written = "ok" THEN "await" ELSE "panicked"
    /\ UNCHANGED <<engineVars, loop, queue, poolVars, reg, connCtx, closed, handling,
                   chain, callVars, promise, packets>>

\* invokeMethod recovers: the exception chain runs in this goroutine unless the
\* channel is closed; when somebody is in the chain, the channel is closed.
Recover ==
    /\ caller = "panicked"
    /\ \/ closed /\ caller' = "await" /\ UNCHANGED <<handling, closed, poolVars>>
       \/ ~closed /\ handling /\ ChannelClose /\ caller' = "await" /\ UNCHANGED handling
       \/ /\ ~closed /\ ~handling /\ handling' = TRUE /\ caller' = "exception"
          /\ UNCHANGED <<closed, poolVars>>
    /\ UNCHANGED <<engineVars, loop, queue, reg, connCtx, chain, callVars, promise, packets>>

\* TryFireException returns to invokeMethod, which drops the error: Write
\* reports success and RequestSync goes on to wait.
ExceptionEnds ==
    /\ caller = "exception" /\ caller' = "await"
    /\ \/ handling' = FALSE /\ UNCHANGED <<closed, poolVars>>
       \/ handling' \in {FALSE, TRUE} /\ ChannelClose
    /\ UNCHANGED <<engineVars, loop, queue, reg, connCtx, chain, callVars, promise, packets>>

\* AwaitTimeout: the promise is complete, or the timer was first.
Await ==
    /\ caller = "await"
    /\ \/ promise = "value" /\ Returns("reply")
       \/ promise = "error" /\ Returns("error")
       \/ promise = "nil" /\ Returns("nothing")
       \/ Returns("timeout")
    /\ UNCHANGED <<engineVars, loop, queue, poolVars, reg, connCtx, closed, handling,
                   chain, tries, got, written, promise, packets>>

\* The deferred conn.Close, whose error nobody looks at.
CloseConn ==
    /\ caller = "closing" /\ caller' = "returned"
    /\ \E ok \in BOOLEAN : TrySend(queue, "closeConn", ok)
    /\ UNCHANGED <<engineVars, loop, reg, connCtx, closed, handling, chain, callVars,
                   promise, packets>>

-------------------------------------------------------------------------------

Worker == \E t \in Tasks : WorkerChecks(t) \/ WorkerSends(t)

LoopStep == LoopGet \/ LoopWrite \/ LoopCloses \/ Traffic \/ TrafficPanics
            \/ LoopExceptionEnds

RequestSync == Dial \/ ExecuteGet \/ GotChannel \/ AddHandler \/ Write \/ Wrote
               \/ Recover \/ ExceptionEnds \/ Await \/ CloseConn

Next == Worker \/ LoopStep \/ LoopLeaves \/ Stop \/ StopEnds \/ RequestSync
        \/ \E t \in Tasks : PeerSends(t)

\* Goroutines run; nothing makes a peer send or a user stop the client.
Fairness == WF_vars(Worker) /\ WF_vars(LoopStep) /\ WF_vars(LoopLeaves)
            /\ WF_vars(RequestSync)

Spec == Init /\ [][Next]_vars /\ Fairness

-------------------------------------------------------------------------------

\* RequestSync returns unless the client is stopped under it: ChannelFromConn
\* and Write1 wait for tasks of the event loop, the promise for three rivals.
RequestReturns == (caller # "dial") ~> (caller = "returned" \/ ctxDone)

\* A dialled connection is given back: after RequestSync returned, whatever
\* happened to it, the connection is closed, unless the full pool refused a
\* close.
ConnReleased == (caller = "returned") ~> (~reg \/ refused > 0)

\* An exception handler that panics leaves handlingException set for good and
\* every later exception unreported; such a connection is closed or about to be,
\* unless the full pool refused the close or the client is stopping.
PoisonedCloses ==
    handling /\ loop # "exception" /\ caller # "exception" =>
        \/ ~reg \/ ctxDone \/ refused > 0
        \/ \E t \in {"closeChannel", "closeConn"} :
              posting[t] + sending[t] > 0 \/ \E i \in DOMAIN queue : queue[i] = t

\* RequestSync without an error has the response.
NoErrorMeansReply == result # "nothing"

\* The tasks rejectRemaining throws away, and those posted to a loop that has
\* exited, have nobody waiting for them.
NobodyWaitsInVain == (loop = "gone") => caller \notin {"wait", "written?"}
================================================================================
