------------------------------ MODULE FuturePool ------------------------------
(***************************************************************************)
(* Futures that are recycled through a sync.Pool (ag/ag_ext/future):       *)
(* NewFuture takes one out, submits the task and hands out the pointer;    *)
(* Await waits for the task and puts the future back.                      *)
(*                                                                         *)
(* A caller's task is named after its ticket, and so is its result.  A     *)
(* caller awaits its own pointer, and may do so again (MaxAwaits).         *)
(* All futures are of one type and share one pool; getPool keys pools by   *)
(* the text of a type, which is "<nil>" for every interface type, so that  *)
(* two such types share one and NewFuture's cast panics: left out.         *)
(***************************************************************************)
EXTENDS Naturals

CONSTANTS
    Awaiters,   \* goroutines that create and await
    Futures,    \* the futures the pool may hold
    MaxTickets, \* bound: tasks submitted
    MaxAwaits   \* bound: calls of Await per future handed out

VARIABLES
    fut,     \* each future: its fields
    pool,    \* futures in the pool
    tasks,   \* submitted tasks that have not ended: the future they write
    await,   \* each goroutine: the pointer it holds, and what Await gave it
    tickets  \* tasks submitted so far

futureVars == <<fut, pool, tasks, await, tickets>>

NoResult == 0
Rejected == 1   \* the pool of goroutines refused the task, or it panicked
FreshFuture == [val |-> NoResult, ready |-> FALSE, consumed |-> FALSE]
NoFuture == [at |-> "idle", f |-> "none", ticket |-> NoResult, awaits |-> 0, got |-> NoResult]

FutureInit ==
    /\ fut = [f \in Futures |-> FreshFuture]
    /\ pool = Futures
    /\ tasks = {}
    /\ await = [c \in Awaiters |-> NoFuture]
    /\ tickets = 1

\* NewFuture: the future is reset whatever the pool left in it; if the task is
\* refused the future is ready at once.
NewFuture(c) ==
    /\ await[c].at = "idle" /\ tickets < MaxTickets
    /\ \E f \in pool :
         /\ pool' = pool \ {f}
         /\ tickets' = tickets + 1
         /\ await' = [await EXCEPT ![c] =
                         [NoFuture EXCEPT !.at = "holds", !.f = f, !.ticket = tickets']]
         /\ \/ /\ tasks' = tasks \cup {[f |-> f, ticket |-> tickets']}
               /\ fut' = [fut EXCEPT ![f] = FreshFuture]
            \/ /\ fut' = [fut EXCEPT ![f] = [FreshFuture EXCEPT !.val = Rejected, !.ready = TRUE]]
               /\ UNCHANGED tasks

\* The task ends, with its result or in a panic, and closes the channel.
TaskEnds(t) ==
    /\ t \in tasks
    /\ tasks' = tasks \ {t}
    /\ \E v \in {t.ticket, Rejected} : fut' = [fut EXCEPT ![t.f].val = v, ![t.f].ready = TRUE]
    /\ UNCHANGED <<pool, await, tickets>>

AwaitReturns(c, v) == await' = [await EXCEPT ![c].at = "holds", ![c].got = v]

\* The compare-and-swap on consumed: one Await goes in, another is refused.
AwaitEnter(c) ==
    /\ await[c].at = "holds" /\ await[c].awaits < MaxAwaits
    /\ LET f == await[c].f IN
       IF fut[f].consumed
       THEN /\ await' = [await EXCEPT ![c].awaits = @ + 1, ![c].got = Rejected]
            /\ UNCHANGED fut
       ELSE /\ fut' = [fut EXCEPT ![f].consumed = TRUE]
            /\ await' = [await EXCEPT ![c].awaits = @ + 1, ![c].at = "wait"]
    /\ UNCHANGED <<pool, tasks, tickets>>

\* The task is done: the result is read and the future goes back to the pool.
AwaitReady(c) ==
    /\ await[c].at = "wait" /\ fut[await[c].f].ready
    /\ AwaitReturns(c, fut[await[c].f].val)
    /\ pool' = pool \cup {await[c].f}
    /\ UNCHANGED <<fut, tasks, tickets>>

\* Mutant of AwaitCancelled: an abandoned future goes back to the pool too.
AwaitCancelledPuts(c) ==
    /\ await[c].at = "wait"
    /\ AwaitReturns(c, Rejected)
    /\ pool' = pool \cup {await[c].f}
    /\ UNCHANGED <<fut, tasks, tickets>>

\* The caller's context ends first: the future is left to the garbage collector,
\* its task may still write it.
AwaitCancelled(c) ==
    /\ await[c].at = "wait"
    /\ AwaitReturns(c, Rejected)
    /\ UNCHANGED <<fut, pool, tasks, tickets>>

\* The caller has what it wants and drops the pointer.
DropsFuture(c) ==
    /\ await[c].at = "holds" /\ await[c].awaits > 0
    /\ await' = [await EXCEPT ![c] = NoFuture]
    /\ UNCHANGED <<fut, pool, tasks, tickets>>

FutureNext ==
    \/ \E c \in Awaiters : \/ NewFuture(c) \/ AwaitEnter(c) \/ AwaitReady(c)
                           \/ AwaitCancelled(c) \/ DropsFuture(c)
    \/ \E t \in tasks : TaskEnds(t)

FutureSpec == FutureInit /\ [][FutureNext]_futureVars

------------------------------------------------------------------------------
\* A caller that awaits once gets its own task's result or an error, never another
\* task's, through cancelled contexts, panics and recycled futures
\* (future_stuct.go:44-102).  In particular a task never writes a future that has
\* gone to somebody else.
OwnResult ==
    /\ \A c \in Awaiters : await[c].got \in {NoResult, Rejected, await[c].ticket}
    /\ \A t \in tasks : t.f \notin pool

\* A second Await on the same future is always refused, as
\* future_test.go:203-220 has it ("second await should be rejected").
SecondAwaitRefused ==
    [][\A c \in Awaiters : await[c].awaits > 0 /\ await[c].at = "holds" => await'[c].at # "wait"]_futureVars
===============================================================================
