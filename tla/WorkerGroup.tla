----------------------------- MODULE WorkerGroup -----------------------------
(***************************************************************************)
(* Asynchronous logging (ag/ag_log/async): goroutines that log borrow a    *)
(* task from a shared pool and submit it to the bounded queue of a worker  *)
(* group; workers take tasks, call the original slog.Handler and give the  *)
(* tasks back; the manager creates the group at the first reference and    *)
(* stops it at the last release.                                           *)
(*                                                                         *)
(* A step is what a goroutine does up to its next channel operation,       *)
(* handler call or counter another goroutine reads.  A record is the       *)
(* goroutine that logged it and its position among the records of that     *)
(* goroutine; the group name and the context are left out.                 *)
(***************************************************************************)
EXTENDS Integers, Sequences, FiniteSets

CONSTANTS
    Workers,     \* AsyncGroupConfig.Worker goroutines
    Submitters,  \* goroutines that log through an AsyncHandler
    Tasks,       \* the logTask objects there are
    None,        \* no task, no record
    Queue,       \* AsyncGroupConfig.Queue
    Strategies,  \* the values of AsyncGroupConfig.FullStrategy considered
    MaxRecords,  \* bound: records each goroutine logs
    MaxRefs      \* bound: calls of GetWorkerGroup

ASSUME WorkerGroupAssumption ==
    /\ IsFiniteSet(Workers) /\ Workers # {}
    /\ IsFiniteSet(Submitters) /\ IsFiniteSet(Tasks)
    /\ Queue \in Nat \ {0}
    \* every borrower finds an object: sync.Pool allocates when it has none
    /\ Cardinality(Tasks) >= Queue + Cardinality(Workers) + Cardinality(Submitters)
    /\ MaxRecords \in Nat /\ MaxRefs \in Nat
    /\ None \notin Tasks

VARIABLES
    strategy,    \* config.FullStrategy
    registered,  \* the manager's map holds the group
    refCount,    \* wg.refCount
    refs,        \* stats.Refs
    pool,        \* the tasks nobody has borrowed
    content,     \* the record in each task
    logQueue,    \* wg.logQueue
    sub,         \* each submitter: where it is in Handle, and its task
    wk,          \* each worker: where it is in run, and its task
    shutdown,    \* wg.shutdownChan is closed
    done,        \* how many tokens are in wg.doneChan
    workerCount, \* wg.workerCount
    stop,        \* Stop: where it is, and how many workers it has counted
    stats,       \* Queued, Dropped, Processed, Errors
    logged,      \* how many records each submitter has logged
    handled      \* the records the original handler was called with, in order

mgrVars == <<registered, refCount, refs>>
stopVars == <<shutdown, workerCount, stop>>
vars == <<strategy, mgrVars, pool, content, logQueue, sub, wk, stopVars, done, stats,
          logged, handled>>

Idle == [at |-> "idle", t |-> None]

Init ==
    /\ strategy \in Strategies
    /\ registered = FALSE
    /\ refCount = 0
    /\ refs = 0
    /\ pool = Tasks
    /\ content = [t \in Tasks |-> None]
    /\ logQueue = <<>>
    /\ sub = [s \in Submitters |-> Idle]
    /\ wk = [w \in Workers |-> Idle]
    /\ shutdown = FALSE
    /\ done = 0
    /\ workerCount = 0
    /\ stop = [at |-> "none", completed |-> 0]
    /\ stats = [field \in {"queued", "dropped", "processed", "errors"} |-> 0]
    /\ logged = [s \in Submitters |-> 0]
    /\ handled = <<>>

Count(field) == stats' = [stats EXCEPT ![field] = @ + 1]

\* Mutant of Full: room for one task too many.
FullTooLate == Len(logQueue) > Queue

Full == Len(logQueue) >= Queue

\* logTaskPool.Return: the task is reset and is the pool's again.
Return(t) ==
    /\ content' = [content EXCEPT ![t] = None]
    /\ pool' = pool \cup {t}

-------------------------------------------------------------------------------
(* The manager *)

\* NewWorkerGroup and Start: the workers run before anybody has the group.
Start ==
    /\ wk' = [w \in Workers |-> [at |-> "select", t |-> None]]
    /\ workerCount' = Cardinality(Workers)

\* GetWorkerGroup: the registered group, or a new one; one more reference.
\* Release holds the manager's lock while it waits for Stop.
GetWorkerGroup ==
    /\ stop.at # "waiting"
    /\ refs < MaxRefs
    /\ refCount' = refCount + 1
    /\ refs' = refs + 1
    /\ registered' = TRUE
    /\ IF registered THEN UNCHANGED <<wk, workerCount>> ELSE Start
    /\ UNCHANGED <<strategy, pool, content, logQueue, sub, shutdown, stop, done, stats,
                   logged, handled>>

\* What ReleaseWorkerGroup does once Unref has returned.
Unregister == registered' = (refs > 0)

\* A reference that is not the last: Unref leaves the group alone.
ReleaseShared ==
    /\ registered
    /\ stop.at # "waiting"
    /\ refCount > 1
    /\ refCount' = refCount - 1
    /\ Unregister
    /\ UNCHANGED <<strategy, refs, pool, content, logQueue, sub, wk, stopVars, done, stats,
                   logged, handled>>

\* The last reference: Unref calls Stop, which returns at once if the group
\* has stopped, and otherwise closes shutdownChan; closing it twice panics.
ReleaseLast ==
    /\ registered
    /\ stop.at \notin {"waiting", "panic"}
    /\ refCount = 1
    /\ refCount' = 0
    /\ shutdown' = (shutdown \/ workerCount > 0)
    /\ stop' = [at |-> IF workerCount = 0 THEN "stopped"
                       ELSE IF shutdown THEN "panic" ELSE "waiting",
                completed |-> 0]
    /\ registered' = IF workerCount = 0 THEN refs > 0 ELSE registered
    /\ UNCHANGED <<strategy, refs, pool, content, logQueue, sub, wk, workerCount, done,
                   stats, logged, handled>>

\* Stop counts a worker that is done.
StopCounts ==
    /\ stop.at = "waiting"
    /\ stop.completed < Cardinality(Workers)
    /\ done > 0
    /\ done' = done - 1
    /\ stop' = [stop EXCEPT !.completed = @ + 1]
    /\ UNCHANGED <<strategy, mgrVars, pool, content, logQueue, sub, wk, shutdown,
                   workerCount, stats, logged, handled>>

\* Mutant of AllCounted: Stop does not wait for the last worker.
OneIsMissing == stop.completed >= Cardinality(Workers) - 1

AllCounted == stop.completed >= Cardinality(Workers)

\* Stop has counted every worker and returns nil.
StopReturns ==
    /\ stop.at = "waiting"
    /\ AllCounted
    /\ stop' = [stop EXCEPT !.at = "stopped"]
    /\ workerCount' = 0
    /\ Unregister
    /\ UNCHANGED <<strategy, refCount, refs, pool, content, logQueue, sub, wk, shutdown,
                   done, stats, logged, handled>>

\* Mutant of StopTimesOut: Stop waits for its workers without a timeout.
StopHangs == FALSE /\ UNCHANGED vars

\* ShutdownTimeout passes first: Stop returns an error that Unref ignores, and
\* the group still counts its workers.
StopTimesOut ==
    /\ stop.at = "waiting"
    /\ ~AllCounted
    /\ stop' = [stop EXCEPT !.at = "timeout"]
    /\ Unregister
    /\ UNCHANGED <<strategy, refCount, refs, pool, content, logQueue, sub, wk, shutdown,
                   workerCount, done, stats, logged, handled>>

-------------------------------------------------------------------------------
(* AsyncHandler.Handle and WorkerGroup.Submit *)

At(s, at) == sub' = [sub EXCEPT ![s].at = at]

\* Handle fills a borrowed task and calls Submit.  The handler of a released
\* group is still in its users' hands.
Handle(s) ==
    /\ registered
    /\ sub[s] = Idle
    /\ logged[s] < MaxRecords
    /\ logged' = [logged EXCEPT ![s] = @ + 1]
    /\ \E t \in pool :
        /\ pool' = pool \ {t}
        /\ content' = [content EXCEPT ![t] = <<s, logged[s] + 1>>]
        /\ sub' = [sub EXCEPT ![s] = [at |-> "submit", t |-> t]]
    /\ UNCHANGED <<strategy, mgrVars, logQueue, wk, stopVars, done, stats, handled>>

\* The send succeeds: Submit's first attempt, or drop_old's second.
Send(s) ==
    /\ sub[s].at \in {"submit", "retry"}
    /\ strategy \in {"drop_new", "block_wait", "drop_old"}
    /\ ~Full
    /\ logQueue' = Append(logQueue, sub[s].t)
    /\ sub' = [sub EXCEPT ![s] = [at |-> "sent", t |-> None]]
    /\ UNCHANGED <<strategy, mgrVars, pool, content, wk, stopVars, done, stats, logged,
                   handled>>

\* The queue is full: drop_new gives up, drop_old looks for an old task, and
\* gives up the second time.  block_wait has no such step: it waits.
SendFails(s) ==
    /\ Full
    /\ \/ sub[s].at = "submit" /\ strategy = "drop_new" /\ At(s, "drop")
       \/ sub[s].at = "submit" /\ strategy = "drop_old" /\ At(s, "evict")
       \/ sub[s].at = "retry" /\ At(s, "drop")
    /\ UNCHANGED <<strategy, mgrVars, pool, content, logQueue, wk, stopVars, done, stats,
                   logged, handled>>

\* Mutant of CountSent: the queued task is not counted.
SentUncounted(s) ==
    /\ sub[s].at = "sent"
    /\ sub' = [sub EXCEPT ![s] = Idle]
    /\ UNCHANGED <<strategy, mgrVars, pool, content, logQueue, wk, stopVars, done, stats,
                   logged, handled>>

CountSent(s) ==
    /\ sub[s].at = "sent"
    /\ Count("queued")
    /\ sub' = [sub EXCEPT ![s] = Idle]
    /\ UNCHANGED <<strategy, mgrVars, pool, content, logQueue, wk, stopVars, done, logged,
                   handled>>

\* Mutant of Evicted: the new task is given back in place of the old one.
EvictedNew(s) == sub[s].t

Evicted(s) == Head(logQueue)

\* Mutant of Evict: the evicted record is not counted.
EvictUncounted(s) ==
    /\ sub[s].at = "evict"
    /\ logQueue # <<>>
    /\ logQueue' = Tail(logQueue)
    /\ Return(Head(logQueue))
    /\ At(s, "retry")
    /\ UNCHANGED <<strategy, mgrVars, wk, stopVars, done, stats, logged, handled>>

\* drop_old takes the oldest task out of the queue and drops it, ...
Evict(s) ==
    /\ sub[s].at = "evict"
    /\ logQueue # <<>>
    /\ logQueue' = Tail(logQueue)
    /\ Count("dropped")
    /\ Return(Evicted(s))
    /\ At(s, "retry")
    /\ UNCHANGED <<strategy, mgrVars, wk, stopVars, done, logged, handled>>

\* Mutant of EvictFails: the receive has no default case.
EvictWaits(s) == FALSE /\ UNCHANGED vars

\* ... unless the workers have emptied the queue meanwhile.
EvictFails(s) ==
    /\ sub[s].at = "evict"
    /\ logQueue = <<>>
    /\ At(s, "drop")
    /\ UNCHANGED <<strategy, mgrVars, pool, content, logQueue, wk, stopVars, done, stats,
                   logged, handled>>

Drop(s) ==
    /\ sub[s].at = "drop"
    /\ Count("dropped")
    /\ Return(sub[s].t)
    /\ sub' = [sub EXCEPT ![s] = Idle]
    /\ UNCHANGED <<strategy, mgrVars, logQueue, wk, stopVars, done, logged, handled>>

\* Any other strategy: Submit forgets the task, which is garbage.
Forget(s) ==
    /\ sub[s].at = "submit"
    /\ strategy \notin {"drop_new", "block_wait", "drop_old"}
    /\ Return(sub[s].t)
    /\ sub' = [sub EXCEPT ![s] = Idle]
    /\ UNCHANGED <<strategy, mgrVars, logQueue, wk, stopVars, done, stats, logged, handled>>

-------------------------------------------------------------------------------
(* worker.run *)

\* A worker takes a task: waiting for one, or emptying the queue.
Take(w) ==
    /\ wk[w].at \in {"select", "batch"}
    /\ logQueue # <<>>
    /\ logQueue' = Tail(logQueue)
    /\ wk' = [wk EXCEPT ![w] = [at |-> "process", t |-> Head(logQueue)]]
    /\ UNCHANGED <<strategy, mgrVars, pool, content, sub, stopVars, done, stats, logged,
                   handled>>

\* processTask calls the original handler, which may return an error.
Process(w) ==
    /\ wk[w].at = "process"
    /\ handled' = Append(handled, content[wk[w].t])
    /\ \E result \in {"processed", "errors"} : wk' = [wk EXCEPT ![w].at = result]
    /\ UNCHANGED <<strategy, mgrVars, pool, content, logQueue, sub, stopVars, done, stats,
                   logged>>

\* Mutant of Finish: a task whose handler failed goes back to the queue.
FinishRetries(w) ==
    /\ wk[w].at \in {"processed", "errors"}
    /\ Count(wk[w].at)
    /\ wk' = [wk EXCEPT ![w] = [at |-> "batch", t |-> None]]
    /\ IF wk[w].at = "errors" /\ ~Full
       THEN logQueue' = Append(logQueue, wk[w].t) /\ UNCHANGED <<pool, content>>
       ELSE Return(wk[w].t) /\ UNCHANGED logQueue
    /\ UNCHANGED <<strategy, mgrVars, sub, stopVars, done, logged, handled>>

\* processTask counts the outcome and gives the task back.
Finish(w) ==
    /\ wk[w].at \in {"processed", "errors"}
    /\ Count(wk[w].at)
    /\ Return(wk[w].t)
    /\ wk' = [wk EXCEPT ![w] = [at |-> "batch", t |-> None]]
    /\ UNCHANGED <<strategy, mgrVars, logQueue, sub, stopVars, done, logged, handled>>

\* Mutant of BatchEnds: the worker returns instead.
BatchQuits(w) ==
    /\ wk[w].at = "batch"
    /\ logQueue = <<>>
    /\ wk' = [wk EXCEPT ![w].at = "quit"]
    /\ UNCHANGED <<strategy, mgrVars, pool, content, logQueue, sub, stopVars, done, stats,
                   logged, handled>>

\* The queue is empty: back to the blocking select.
BatchEnds(w) ==
    /\ wk[w].at = "batch"
    /\ logQueue = <<>>
    /\ wk' = [wk EXCEPT ![w].at = "select"]
    /\ UNCHANGED <<strategy, mgrVars, pool, content, logQueue, sub, stopVars, done, stats,
                   logged, handled>>

\* The blocking select sees shutdownChan closed; a queue that is not empty
\* does not keep it from choosing this case.
Quit(w) ==
    /\ wk[w].at = "select"
    /\ shutdown
    /\ wk' = [wk EXCEPT ![w].at = "quit"]
    /\ UNCHANGED <<strategy, mgrVars, pool, content, logQueue, sub, stopVars, done, stats,
                   logged, handled>>

\* run's deferred token; doneChan has room for one of each worker.
Exit(w) ==
    /\ wk[w].at = "quit"
    /\ done < Cardinality(Workers)
    /\ done' = done + 1
    /\ wk' = [wk EXCEPT ![w].at = "exited"]
    /\ UNCHANGED <<strategy, mgrVars, pool, content, logQueue, sub, stopVars, stats, logged,
                   handled>>

-------------------------------------------------------------------------------
StopStep == StopCounts \/ StopReturns \/ StopTimesOut
SubmitStep(s) ==
    \/ Send(s) \/ SendFails(s) \/ CountSent(s)
    \/ Evict(s) \/ EvictFails(s) \/ Drop(s) \/ Forget(s)
RunStep(w) == Take(w) \/ Finish(w) \/ BatchEnds(w) \/ Quit(w) \/ Exit(w)

\* The steps of a group with one reference at a time.
OneReference ==
    \/ GetWorkerGroup \/ ReleaseLast \/ StopStep
    \/ \E s \in Submitters : Handle(s) \/ SubmitStep(s)
    \/ \E w \in Workers : RunStep(w) \/ Process(w)

Next == OneReference \/ ReleaseShared

Spec == Init /\ [][Next]_vars

\* Goroutines that can go on do; nobody has to log or to release, and the
\* original handler may never return.
FairSpec ==
    /\ Spec
    /\ WF_vars(StopStep)
    /\ \A s \in Submitters : WF_vars(SubmitStep(s))
    /\ \A w \in Workers : WF_vars(RunStep(w))

\* The original handler returns, which the code leaves to its user.
HandlersReturn == \A w \in Workers : WF_vars(Process(w))

-------------------------------------------------------------------------------
(* Properties *)

Records == Submitters \X (1..MaxRecords)

\* Types: every variable holds what its declaration says, the queue is never
\* longer than its channel and doneChan never holds more than its capacity.
TypeOK ==
    /\ registered \in BOOLEAN /\ shutdown \in BOOLEAN
    /\ refCount \in 0..MaxRefs /\ refs \in 0..MaxRefs
    /\ pool \subseteq Tasks
    /\ content \in [Tasks -> Records \cup {None}]
    /\ logQueue \in Seq(Tasks) /\ Len(logQueue) <= Queue
    /\ sub \in [Submitters ->
                  [at : {"idle", "submit", "sent", "evict", "retry", "drop"},
                   t : Tasks \cup {None}]]
    /\ wk \in [Workers ->
                 [at : {"idle", "select", "batch", "process", "processed", "errors",
                        "quit", "exited"},
                  t : Tasks \cup {None}]]
    /\ done \in 0..Cardinality(Workers)
    /\ workerCount \in {0, Cardinality(Workers)}
    /\ stop \in [at : {"none", "waiting", "stopped", "timeout", "panic"},
                 completed : 0..Cardinality(Workers)]
    /\ stats \in [{"queued", "dropped", "processed", "errors"} -> Nat]
    /\ logged \in [Submitters -> 0..MaxRecords]
    /\ handled \in Seq(Records)

InQueue == {logQueue[i] : i \in DOMAIN logQueue}
SubmitterHolds == {s \in Submitters : sub[s].t # None}
WorkerHolds == {w \in Workers : wk[w].t # None}

\* A pooled task has one owner: it is in the pool, at one place of the queue,
\* with one submitter or with one worker.  A task given back while somebody
\* still uses it would carry another goroutine's record (Return, Submit,
\* processTask).
OneOwner ==
    /\ pool \cap InQueue = {}
    /\ \A i, j \in DOMAIN logQueue : logQueue[i] = logQueue[j] => i = j
    /\ \A s \in SubmitterHolds :
        /\ sub[s].t \notin pool \cup InQueue
        /\ \A r \in SubmitterHolds : sub[r].t = sub[s].t => r = s
        /\ \A w \in WorkerHolds : sub[s].t # wk[w].t
    /\ \A w \in WorkerHolds :
        /\ wk[w].t \notin pool \cup InQueue
        /\ \A v \in WorkerHolds : wk[v].t = wk[w].t => v = w

\* Every variable has its type and every task its one owner (Return, Submit,
\* processTask).
TasksOwned == TypeOK /\ OneOwner

\* The records logged so far, and how many they are.
Logged == {r \in Records : r[2] <= logged[r[1]]}
Total == Cardinality(Logged)

\* The workers that have called the handler and not yet counted the call.
Uncounted == {w \in Workers : wk[w].at \in {"processed", "errors"}}

\* The tasks, and the records in them, still on their way to a handler.
InFlight ==
    InQueue \cup {sub[s].t : s \in SubmitterHolds} \cup {wk[w].t : w \in WorkerHolds \ Uncounted}
Pending == {content[t] : t \in InFlight}

\* Under the three strategies no record vanishes or is handled twice: each one
\* logged has reached the handler, is counted in Dropped, or is still on its
\* way; and Processed and Errors count every handler call that has returned.
EveryRecordAccounted ==
    strategy \in {"drop_new", "block_wait", "drop_old"} =>
        /\ Len(handled) + stats.dropped + Cardinality(Pending) = Total
        /\ stats.processed + stats.errors + Cardinality(Uncounted) = Len(handled)

\* What TestSubmitCounterReconciliation waits for: once nobody is in Submit
\* and the queue is empty, Queued + Dropped is what was logged and Processed
\* (with Errors) is Queued.  Under drop_old a record can be in both counters.
CountersReconcile ==
    (/\ strategy \in {"drop_new", "block_wait"}
     /\ \A s \in Submitters : sub[s] = Idle
     /\ logQueue = <<>> /\ WorkerHolds = {})
    => /\ stats.queued + stats.dropped = Total
       /\ stats.processed + stats.errors = stats.queued

\* The counters tell the truth: at every moment about the records, and in the
\* end about each other (Submit, processTask, GetStats).
Accounted == EveryRecordAccounted /\ CountersReconcile

\* With the default single worker the records of one goroutine reach the
\* handler in the order it logged them, each at most once (Submit, run).
OrderKept ==
    Cardinality(Workers) = 1 =>
        \A i, j \in DOMAIN handled :
            i < j /\ handled[i][1] = handled[j][1] => handled[i][2] < handled[j][2]

\* Records reach the handler in the order in which a goroutine logged them, each is
\* handled, dropped, evicted or queued and counted so, and a pooled task is in one
\* place (Handle, Submit, run).
RecordsKept == OrderKept /\ Accounted /\ TasksOwned

\* Once Stop has returned nil no handler is called any more: every worker has
\* left run (Stop, run).
QuietAfterStop == [][stop.at = "stopped" => handled' = handled]_vars

\* If handlers return, the queue drains whenever logging pauses, as the bound on
\* the records makes it do, unless the group is shut down (run's batch loop,
\* drop_old's eviction).
QueueMoves == HandlersReturn => []<>(logQueue = <<>> \/ shutdown)

\* If handlers return, so does Submit to every caller; only block_wait on a group that was shut
\* down may keep one.
SubmitReturns ==
    HandlersReturn => \A s \in Submitters :
        sub[s] # Idle ~> (sub[s] = Idle \/ (strategy = "block_wait" /\ shutdown))

\* Whatever the original handler does, the dropping strategies never hold the
\* application: Submit returns (Submit's default cases).
DropNeverBlocks ==
    \A s \in Submitters :
        (sub[s] # Idle /\ strategy \in {"drop_new", "drop_old"}) ~> sub[s] = Idle

\* Stop always returns, though a handler may hang: counted workers or the timeout (Stop's select).
StopEnds == stop.at = "waiting" ~> stop.at # "waiting"

\* Nobody who calls the group waits for ever, and nothing is left in its queue
\* (Submit, run, Stop).
Progress == QueueMoves /\ SubmitReturns /\ DropNeverBlocks /\ StopEnds
===============================================================================
