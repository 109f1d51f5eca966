-------------------------- MODULE WorkerGroupProofs --------------------------
(***************************************************************************)
(* The worker group of the asynchronous log loses no record, counts every  *)
(* one, keeps their order and is quiet once it has stopped, for any number *)
(* of workers, goroutines, tasks, records and references, any length of    *)
(* the queue and every strategy.                                           *)
(***************************************************************************)
EXTENDS WorkerGroup, FiniteSetTheorems, SequenceTheorems, TLAPS

\* Whoever is between borrowing and giving back has a task, and nobody else has.
TasksHeld ==
    /\ \A s \in Submitters :
         sub[s].t \in Tasks <=> sub[s].at \in {"submit", "evict", "retry", "drop"}
    /\ \A w \in Workers :
         wk[w].t \in Tasks <=> wk[w].at \in {"process", "processed", "errors"}

\* Tasks out of the pool carry records that were logged, no two the same.
ContentsDiffer ==
    /\ \A t \in Tasks \ pool : content[t] \in Logged
    /\ \A t, u \in Tasks \ pool : content[t] = content[u] => t = u

\* The part of the invariant about tasks.
TaskInv == TypeOK /\ OneOwner /\ TasksHeld /\ ContentsDiffer

Exited == {w \in Workers : wk[w].at = "exited"}

\* The life of the group: it is started once, by the first reference (Refs never
\* falls); before Stop closes the channel nobody quits; every worker that has left
\* run has a token in doneChan or was counted; and what Stop has returned nil for
\* has no worker left.
Lifecycle ==
    /\ refCount <= refs
    /\ registered <=> refs > 0
    /\ registered \/ workerCount = 0
    /\ ~registered => \A w \in Workers : wk[w] = Idle
    /\ ~shutdown =>
         /\ stop = [at |-> "none", completed |-> 0]
         /\ done = 0
         /\ \A w \in Workers : wk[w].at \notin {"quit", "exited"}
    /\ shutdown => registered
    /\ stop.at = "waiting" => done + stop.completed = Cardinality(Exited)
    /\ (registered /\ workerCount = 0) \/ stop.at = "stopped" => Exited = Workers

\* The workers that have a task and have not called the handler.
Processing == {w \in Workers : wk[w].at = "process"}
Sending == {s \in Submitters : sub[s].at = "sent"}

ThreeStrategies == {"drop_new", "block_wait", "drop_old"}

\* The counters at every moment: a record is handled, counted as dropped or on its
\* way; a handler call is counted or about to be; only drop_old evicts; and without
\* an eviction what was sent is in the queue, with a worker or handled.
RecordsCounted ==
    strategy \in ThreeStrategies =>
      Len(handled) + stats.dropped + Cardinality(Pending) = Cardinality(Logged)
CallsCounted == stats.processed + stats.errors + Cardinality(Uncounted) = Len(handled)
EvictsOld == \A s \in Submitters : sub[s].at \in {"evict", "retry"} => strategy = "drop_old"
SendsCounted ==
    strategy \in {"drop_new", "block_wait"} =>
      stats.queued + Cardinality(Sending)
        = Len(logQueue) + Cardinality(Processing) + Len(handled)

CounterInv == RecordsCounted /\ CallsCounted /\ EvictsOld /\ SendsCounted

\* Earlier(r, q): not logged by the same goroutine, or logged before.
Earlier(r, q) == r[1] = q[1] => r[2] < q[2]

HandledBefore(r) == \A i \in DOMAIN handled : Earlier(handled[i], r)
ProcessingBefore(r) == \A w \in Processing : Earlier(content[wk[w].t], r)
QueuedBefore(r) == \A j \in DOMAIN logQueue : Earlier(content[logQueue[j]], r)

\* The order of one goroutine's records along the only way they can take: handled,
\* with the worker, in the queue, with the goroutine.
OrderInv ==
    /\ \A i \in DOMAIN handled : handled[i] \in Logged
    /\ \A i, j \in DOMAIN handled : i < j => Earlier(handled[i], handled[j])
    /\ \A w \in Processing : HandledBefore(content[wk[w].t])
    /\ \A j \in DOMAIN logQueue :
         HandledBefore(content[logQueue[j]]) /\ ProcessingBefore(content[logQueue[j]])
    /\ \A i, j \in DOMAIN logQueue :
         i < j => Earlier(content[logQueue[i]], content[logQueue[j]])
    /\ \A s \in SubmitterHolds :
         /\ content[sub[s].t] = <<s, logged[s]>>
         /\ HandledBefore(<<s, logged[s]>>)
         /\ ProcessingBefore(<<s, logged[s]>>)
         /\ QueuedBefore(<<s, logged[s]>>)

-------------------------------------------------------------------------------
(* Sequences: what Append and Tail do to the places of a queue.            *)

\* A record sent is at the end of the queue, behind all others (the channel is
\* first in, first out).
LEMMA AppendFacts ==
  ASSUME NEW S, NEW q \in Seq(S), NEW e \in S
  PROVE  /\ Append(q, e) \in Seq(S)
         /\ Len(Append(q, e)) = Len(q) + 1
         /\ DOMAIN q = 1 .. Len(q)
         /\ DOMAIN Append(q, e) = 1 .. Len(q) + 1
         /\ \A i \in 1 .. Len(q) : Append(q, e)[i] = q[i]
         /\ Append(q, e)[Len(q) + 1] = e
  OBVIOUS

\* A receive takes the first place away and moves every other one forward.
LEMMA TailFacts ==
  ASSUME NEW S, NEW q \in Seq(S), q # <<>>
  PROVE  /\ Tail(q) \in Seq(S)
         /\ Len(q) \in Nat /\ Len(q) >= 1
         /\ Len(Tail(q)) = Len(q) - 1
         /\ DOMAIN q = 1 .. Len(q)
         /\ DOMAIN Tail(q) = 1 .. Len(q) - 1
         /\ \A i \in 1 .. Len(q) - 1 : Tail(q)[i] = q[i + 1]
         /\ Head(q) = q[1] /\ Head(q) \in S
  BY HeadTailProperties, EmptySeq, LenProperties

-------------------------------------------------------------------------------
(* Tasks.                                                                  *)

\* Before the first reference every task is in the pool and no worker runs.
LEMMA InitTasks == Init => TaskInv /\ Lifecycle
  <1> SUFFICES ASSUME Init PROVE TaskInv /\ Lifecycle
    OBVIOUS
  <1> USE WorkerGroupAssumption DEF Init, Idle
  <1>0. Cardinality(Workers) \in Nat
    BY FS_CardinalityType
  <1>1. TypeOK
    <2>1. /\ refCount \in 0 .. MaxRefs /\ refs \in 0 .. MaxRefs
          /\ done \in 0 .. Cardinality(Workers) /\ stop.completed \in 0 .. Cardinality(Workers)
      BY <1>0
    <2>2. stop \in [at : {"none", "waiting", "stopped", "timeout", "panic"},
                    completed : 0 .. Cardinality(Workers)]
      BY <2>1
    <2>3. logQueue \in Seq(Tasks) /\ Len(logQueue) <= Queue /\ handled \in Seq(Records)
      OBVIOUS
    <2>4. logged \in [Submitters -> 0 .. MaxRecords]
      OBVIOUS
    <2>5. stats \in [{"queued", "dropped", "processed", "errors"} -> Nat]
      OBVIOUS
    <2>6. content \in [Tasks -> Records \cup {None}]
      OBVIOUS
    <2> QED BY <1>0, <2>1, <2>2, <2>3, <2>4, <2>5, <2>6 DEF TypeOK
  <1>2. OneOwner
    BY DEF OneOwner, InQueue, SubmitterHolds, WorkerHolds
  <1>3. TasksHeld /\ ContentsDiffer
    BY DEF TasksHeld, ContentsDiffer
  <1>4. Lifecycle
    BY FS_EmptySet, <1>0 DEF Lifecycle, Exited
  <1> QED BY <1>1, <1>2, <1>3, <1>4 DEF TaskInv

\* The counters of the group.
Fields == {"queued", "dropped", "processed", "errors"}

\* An atomic Add changes one counter by one.
LEMMA CountFacts ==
  ASSUME TypeOK, NEW f \in Fields, Count(f)
  PROVE  /\ stats' \in [Fields -> Nat]
         /\ stats'[f] = stats[f] + 1
         /\ \A g \in Fields \ {f} : stats'[g] = stats[g]
  BY DEF TypeOK, Count, Fields

\* A submitter that goes on in Submit keeps its task.
LEMMA AtFacts ==
  ASSUME TypeOK, NEW s \in Submitters,
         NEW at \in {"idle", "submit", "sent", "evict", "retry", "drop"}, At(s, at)
  PROVE  /\ sub' \in [Submitters ->
                       [at : {"idle", "submit", "sent", "evict", "retry", "drop"},
                        t : Tasks \cup {None}]]
         /\ \A r \in Submitters : sub'[r].t = sub[r].t
         /\ \A r \in Submitters \ {s} : sub'[r] = sub[r]
         /\ sub'[s].at = at
  BY SMTT(30) DEF TypeOK, At

\* Handle borrows a task nobody has and writes a record into it that no other
\* task carries.
LEMMA HandleTasks ==
  ASSUME TaskInv, NEW s \in Submitters, Handle(s)
  PROVE  TaskInv'
  <1> USE WorkerGroupAssumption DEF TaskInv, Handle, mgrVars, stopVars
  <1> PICK t \in pool :
        /\ pool' = pool \ {t}
        /\ content' = [content EXCEPT ![t] = <<s, logged[s] + 1>>]
        /\ sub' = [sub EXCEPT ![s] = [at |-> "submit", t |-> t]]
    OBVIOUS
  <1>0. <<s, logged[s] + 1>> \in Records /\ <<s, logged[s] + 1>> \notin Logged
    BY DEF TypeOK, Records, Logged
  <1>1. TypeOK'
    BY <1>0, SMTT(30) DEF TypeOK
  <1>2. OneOwner'
    BY SMTT(30) DEF TypeOK, OneOwner, InQueue, SubmitterHolds, WorkerHolds, Idle
  <1>3. TasksHeld'
    BY DEF TypeOK, TasksHeld
  <1>4. Logged \subseteq Logged' /\ <<s, logged[s] + 1>> \in Logged'
    BY <1>0, SMTT(30) DEF TypeOK, Logged, Records
  <1>5. ContentsDiffer'
    <2>1. content'[t] = <<s, logged[s] + 1>> /\ \A u \in Tasks \ {t} : content'[u] = content[u]
      BY DEF TypeOK
    <2>2. \A u \in (Tasks \ pool') \ {t} : u \in Tasks \ pool
      OBVIOUS
    <2>3. \A u \in Tasks \ pool' : content'[u] \in Logged'
      BY <1>4, <2>1, <2>2 DEF ContentsDiffer
    <2>4. \A u, v \in Tasks \ pool' : content'[u] = content'[v] => u = v
      BY <1>0, <2>1, <2>2 DEF ContentsDiffer
    <2> QED BY <2>3, <2>4 DEF ContentsDiffer
  <1> QED BY <1>1, <1>2, <1>3, <1>5

\* A send moves the task from its submitter into the queue: Full left room for
\* it.
LEMMA SendTasks ==
  ASSUME TaskInv, NEW s \in Submitters, Send(s)
  PROVE  TaskInv'
  <1> USE WorkerGroupAssumption DEF TaskInv, Send, mgrVars, stopVars
  <1>0. logQueue \in Seq(Tasks) /\ sub[s].t \in Tasks
    BY DEF TypeOK, TasksHeld
  <1>1. TypeOK'
    BY <1>0, AppendFacts DEF TypeOK, Full
  <1>2. OneOwner'
    <2>1. /\ DOMAIN logQueue = 1 .. Len(logQueue) /\ Len(logQueue) \in Nat
          /\ DOMAIN logQueue' = 1 .. Len(logQueue) + 1
          /\ \A i \in 1 .. Len(logQueue) : logQueue'[i] = logQueue[i]
          /\ logQueue'[Len(logQueue) + 1] = sub[s].t
      BY <1>0, AppendFacts
    <2>2. InQueue' = InQueue \cup {sub[s].t}
      BY <2>1 DEF InQueue
    <2>3. s \in SubmitterHolds /\ SubmitterHolds' = SubmitterHolds \ {s}
      BY <1>0 DEF SubmitterHolds, TypeOK
    <2>4. \A r \in SubmitterHolds' : sub'[r] = sub[r]
      BY <2>3 DEF SubmitterHolds, TypeOK
    <2>5. WorkerHolds' = WorkerHolds
      BY DEF WorkerHolds
    <2>6. pool' \cap InQueue' = {}
      BY <2>2, <2>3 DEF OneOwner
    <2>7. \A i, j \in DOMAIN logQueue' : logQueue'[i] = logQueue'[j] => i = j
      BY <2>1, <2>3 DEF OneOwner, InQueue
    <2> QED BY <2>2, <2>3, <2>4, <2>5, <2>6, <2>7 DEF OneOwner
  <1>3. TasksHeld'
    BY DEF TypeOK, TasksHeld
  <1>5. ContentsDiffer'
    BY DEF TypeOK, ContentsDiffer, Logged
  <1> QED BY <1>1, <1>2, <1>3, <1>5

\* The steps of Handle and Submit that move no task.
LEMMA StaysTasks ==
  ASSUME TaskInv, NEW s \in Submitters, SendFails(s) \/ EvictFails(s) \/ CountSent(s)
  PROVE  TaskInv'
  <1> USE WorkerGroupAssumption
      DEF TaskInv, SendFails, EvictFails, CountSent, At, Idle, mgrVars, stopVars
  <1>0. /\ UNCHANGED <<strategy, mgrVars, pool, content, logQueue, wk, stopVars, done, logged, handled>>
        /\ sub'[s].t = sub[s].t
        /\ sub' \in [Submitters ->
                      [at : {"idle", "submit", "sent", "evict", "retry", "drop"},
                       t : Tasks \cup {None}]]
        /\ \A r \in Submitters \ {s} : sub'[r] = sub[r]
        /\ sub'[s].at \in {"submit", "evict", "retry", "drop"}
             <=> sub[s].at \in {"submit", "evict", "retry", "drop"}
    <2>1. CASE CountSent(s) BY <2>1 DEF TypeOK, TasksHeld
    <2>2. CASE EvictFails(s) BY <2>2, ZenonT(30) DEF TypeOK
    <2>3. CASE SendFails(s)
      <3>1. PICK at \in {"drop", "evict"} :
              sub[s].at \in {"submit", "retry"} /\ sub' = [sub EXCEPT ![s].at = at]
        BY <2>3
      <3> QED BY <2>3, <3>1, ZenonT(30) DEF TypeOK
    <2> QED BY <2>1, <2>2, <2>3
  <1> HIDE DEF SendFails, EvictFails, CountSent
  <1>1. TypeOK'
    <2>1. stats' \in [Fields -> Nat]
      BY CountFacts DEF SendFails, EvictFails, CountSent, Fields, TypeOK
    <2> QED BY <1>0, <2>1 DEF TypeOK, Fields
  <1>2. \A r \in Submitters : sub'[r].t = sub[r].t
    BY <1>0
  <1>3. OneOwner'
    BY <1>0, <1>2 DEF OneOwner, InQueue, SubmitterHolds, WorkerHolds
  <1>4. TasksHeld'
    BY <1>0 DEF TasksHeld
  <1>5. ContentsDiffer'
    BY <1>0 DEF ContentsDiffer, Logged
  <1> QED BY <1>1, <1>3, <1>4, <1>5

\* The places and the tasks of the queue once its head is gone.
LEMMA QueueLosesHead ==
  ASSUME TaskInv, logQueue # <<>>, logQueue' = Tail(logQueue)
  PROVE  /\ logQueue' \in Seq(Tasks) /\ Len(logQueue') = Len(logQueue) - 1
         /\ Len(logQueue) \in Nat /\ Len(logQueue) >= 1
         /\ DOMAIN logQueue = 1 .. Len(logQueue)
         /\ DOMAIN logQueue' = 1 .. Len(logQueue) - 1
         /\ \A i \in DOMAIN logQueue' : logQueue'[i] = logQueue[i + 1]
         /\ Head(logQueue) = logQueue[1] /\ Head(logQueue) \in Tasks
         /\ Head(logQueue) \in InQueue /\ Head(logQueue) \notin pool
         /\ InQueue' = InQueue \ {Head(logQueue)}
         /\ \A i, j \in DOMAIN logQueue' : logQueue'[i] = logQueue'[j] => i = j
         /\ \A s \in SubmitterHolds : sub[s].t # Head(logQueue)
         /\ \A w \in WorkerHolds : wk[w].t # Head(logQueue)
  <1> USE DEF TaskInv
  <1>1. logQueue \in Seq(Tasks)
    BY DEF TypeOK
  <1>2. /\ logQueue' \in Seq(Tasks) /\ Len(logQueue') = Len(logQueue) - 1
        /\ Len(logQueue) \in Nat /\ Len(logQueue) >= 1
        /\ DOMAIN logQueue = 1 .. Len(logQueue)
        /\ DOMAIN logQueue' = 1 .. Len(logQueue) - 1
        /\ \A i \in DOMAIN logQueue' : logQueue'[i] = logQueue[i + 1]
        /\ Head(logQueue) = logQueue[1] /\ Head(logQueue) \in Tasks
    BY <1>1, TailFacts
  <1>3. Head(logQueue) \in InQueue /\ Head(logQueue) \notin pool
    BY <1>2 DEF InQueue, OneOwner
  <1>4. InQueue' \subseteq InQueue \ {Head(logQueue)}
    BY <1>2 DEF InQueue, OneOwner
  <1>5. ASSUME NEW x \in InQueue \ {Head(logQueue)} PROVE x \in InQueue'
    <2>1. PICK i \in 1 .. Len(logQueue) : x = logQueue[i]
      BY <1>2 DEF InQueue
    <2>2. i # 1 /\ i - 1 \in DOMAIN logQueue' /\ (i - 1) + 1 = i
      BY <1>2, <2>1
    <2> QED BY <1>2, <2>1, <2>2 DEF InQueue
  <1>6. \A i, j \in DOMAIN logQueue' : logQueue'[i] = logQueue'[j] => i = j
    BY <1>2 DEF OneOwner
  <1>7. /\ \A s \in SubmitterHolds : sub[s].t # Head(logQueue)
        /\ \A w \in WorkerHolds : wk[w].t # Head(logQueue)
    BY <1>3 DEF OneOwner
  <1> QED BY <1>2, <1>3, <1>4, <1>5, <1>6, <1>7

\* drop_old gives back the head of the queue, which is nobody else's.
LEMMA EvictTasks ==
  ASSUME TaskInv, NEW s \in Submitters, Evict(s)
  PROVE  TaskInv'
  <1> USE WorkerGroupAssumption DEF Evict, Evicted, Return, mgrVars, stopVars
  <1> DEFINE h == Head(logQueue)
  <1>0. h \in Tasks /\ h \in InQueue /\ h \notin pool /\ InQueue' = InQueue \ {h}
    BY QueueLosesHead
  <1>a. /\ sub' \in [Submitters ->
                      [at : {"idle", "submit", "sent", "evict", "retry", "drop"},
                       t : Tasks \cup {None}]]
        /\ \A r \in Submitters : sub'[r].t = sub[r].t
        /\ \A r \in Submitters \ {s} : sub'[r] = sub[r]
        /\ sub'[s].at = "retry"
    BY AtFacts DEF TaskInv
  <1>1. TypeOK'
    <2>1. stats' \in [Fields -> Nat]
      BY CountFacts DEF TaskInv, Fields
    <2>2. logQueue' \in Seq(Tasks) /\ Len(logQueue') <= Queue
      BY QueueLosesHead DEF TaskInv, TypeOK
    <2>3. content' \in [Tasks -> Records \cup {None}] /\ pool' \subseteq Tasks
      BY <1>0 DEF TaskInv, TypeOK
    <2> QED BY <1>a, <2>1, <2>2, <2>3 DEF TaskInv, TypeOK, Fields
  <1>2. \A r \in Submitters : sub'[r].t = sub[r].t
    BY <1>a
  <1>3. OneOwner'
    <2>1. SubmitterHolds' = SubmitterHolds /\ WorkerHolds' = WorkerHolds /\ wk' = wk
      BY <1>2 DEF SubmitterHolds, WorkerHolds
    <2>2. pool' = pool \cup {h}
      OBVIOUS
    <2>3. pool' \cap InQueue' = {}
      BY <1>0, <2>2 DEF TaskInv, OneOwner
    <2>4. \A i, j \in DOMAIN logQueue' : logQueue'[i] = logQueue'[j] => i = j
      BY QueueLosesHead
    <2>5. /\ \A r \in SubmitterHolds : sub[r].t # h
          /\ \A w \in WorkerHolds : wk[w].t # h
      BY QueueLosesHead
    <2>6. \A r \in SubmitterHolds' : r \in Submitters
      BY DEF SubmitterHolds
    <2> QED BY <1>0, <1>2, <2>1, <2>2, <2>3, <2>4, <2>5, <2>6 DEF TaskInv, OneOwner
  <1>4. TasksHeld'
    BY <1>a DEF TaskInv, TasksHeld
  <1>5. ContentsDiffer'
    BY <1>0, SMTT(30) DEF TaskInv, TypeOK, ContentsDiffer, Logged
  <1> QED BY <1>1, <1>3, <1>4, <1>5 DEF TaskInv

\* A worker that takes a task had none.
LEMMA TakeTasks ==
  ASSUME TaskInv, NEW w \in Workers, Take(w)
  PROVE  TaskInv'
  <1> USE WorkerGroupAssumption DEF Take, mgrVars, stopVars
  <1> DEFINE h == Head(logQueue)
  <1>0. h \in Tasks /\ h \in InQueue /\ h \notin pool /\ InQueue' = InQueue \ {h}
    BY QueueLosesHead
  <1>1. TypeOK'
    BY <1>0, QueueLosesHead, SMTT(30) DEF TaskInv, TypeOK
  <1>2. /\ wk'[w].t = h
        /\ \A v \in Workers : v # w => wk'[v] = wk[v]
    BY DEF TaskInv, TypeOK
  <1>3. OneOwner'
    <2>1. SubmitterHolds' = SubmitterHolds
      BY DEF SubmitterHolds
    <2>2. WorkerHolds' = WorkerHolds \cup {w} /\ w \notin WorkerHolds
      BY <1>0, <1>2 DEF TaskInv, TypeOK, TasksHeld, WorkerHolds
    <2>3. WorkerHolds \subseteq Workers
      BY DEF WorkerHolds
    <2>4. \A i, j \in DOMAIN logQueue' : logQueue'[i] = logQueue'[j] => i = j
      BY QueueLosesHead
    <2>5. /\ \A s \in SubmitterHolds : sub[s].t # h
          /\ \A v \in WorkerHolds : wk[v].t # h
      BY QueueLosesHead
    <2>6. \A v \in WorkerHolds : wk'[v].t = wk[v].t
      BY <1>2, <2>2, <2>3
    <2>7. pool' \cap InQueue' = {}
      BY <1>0 DEF TaskInv, OneOwner
    <2>8. \A v \in WorkerHolds' : wk'[v].t \notin pool' \cup InQueue'
      BY <1>0, <1>2, <2>2, <2>6 DEF TaskInv, OneOwner
    <2> QED BY <1>0, <1>2, <2>1, <2>2, <2>4, <2>5, <2>6, <2>7, <2>8 DEF TaskInv, OneOwner
  <1>4. TasksHeld'
    BY <1>0 DEF TaskInv, TypeOK, TasksHeld
  <1>5. ContentsDiffer'
    BY DEF TaskInv, ContentsDiffer, Logged
  <1> QED BY <1>1, <1>3, <1>4, <1>5 DEF TaskInv

\* A submitter that drops its task is the only one to have it.
LEMMA GivesBackTasks ==
  ASSUME TaskInv, NEW s \in Submitters, Drop(s) \/ Forget(s)
  PROVE  TaskInv'
  <1> USE WorkerGroupAssumption DEF Drop, Forget, Return, Idle, mgrVars, stopVars
  <1> DEFINE t == sub[s].t
  <1>0. t \in Tasks /\ t # None /\ pool' = pool \cup {t}
    BY DEF TaskInv, TypeOK, TasksHeld
  <1>a. /\ UNCHANGED <<strategy, mgrVars, logQueue, wk, stopVars, done, logged, handled>>
        /\ content' = [content EXCEPT ![t] = None]
        /\ sub' = [sub EXCEPT ![s] = [at |-> "idle", t |-> None]]
        /\ stats' \in [Fields -> Nat]
    BY CountFacts DEF Fields, TaskInv, TypeOK
  <1> HIDE DEF Drop, Forget
  <1>1. TypeOK'
    BY <1>0, <1>a DEF TaskInv, TypeOK, Fields
  <1>2. OneOwner'
    <2>1. SubmitterHolds' = SubmitterHolds \ {s} /\ s \in SubmitterHolds
      BY <1>0, <1>a DEF TaskInv, TypeOK, SubmitterHolds
    <2>2. WorkerHolds' = WorkerHolds /\ InQueue' = InQueue
      BY <1>a DEF WorkerHolds, InQueue
    <2>3. \A r \in SubmitterHolds' : sub'[r] = sub[r]
      BY <1>a, <2>1 DEF TaskInv, TypeOK, SubmitterHolds
    <2> QED BY <1>0, <1>a, <2>1, <2>2, <2>3 DEF TaskInv, OneOwner
  <1>4. TasksHeld'
    BY <1>a DEF TaskInv, TypeOK, TasksHeld
  <1>5. ContentsDiffer'
    BY <1>0, <1>a DEF TaskInv, TypeOK, ContentsDiffer, Logged
  <1> QED BY <1>1, <1>2, <1>4, <1>5 DEF TaskInv

\* processTask gives back the task its worker holds, and nobody else does.
LEMMA FinishTasks ==
  ASSUME TaskInv, NEW w \in Workers, Finish(w)
  PROVE  TaskInv'
  <1> USE WorkerGroupAssumption DEF Finish, Return, mgrVars, stopVars
  <1> DEFINE t == wk[w].t
  <1>0. t \in Tasks /\ t # None /\ pool' = pool \cup {t}
    BY DEF TaskInv, TypeOK, TasksHeld
  <1>1. TypeOK'
    <2>1. stats' \in [Fields -> Nat]
      BY CountFacts DEF TaskInv, Fields
    <2> QED BY <1>0, <2>1 DEF TaskInv, TypeOK, Fields
  <1>2. OneOwner'
    <2>1. WorkerHolds' = WorkerHolds \ {w} /\ w \in WorkerHolds
      BY <1>0 DEF TaskInv, TypeOK, WorkerHolds
    <2>2. SubmitterHolds' = SubmitterHolds /\ InQueue' = InQueue
      BY DEF SubmitterHolds, InQueue
    <2>3. \A v \in WorkerHolds' : wk'[v] = wk[v]
      BY <2>1 DEF TaskInv, TypeOK, WorkerHolds
    <2> QED BY <1>0, <2>1, <2>2, <2>3 DEF TaskInv, OneOwner
  <1>4. TasksHeld'
    BY DEF TaskInv, TypeOK, TasksHeld
  <1>5. ContentsDiffer'
    BY <1>0 DEF TaskInv, TypeOK, ContentsDiffer, Logged
  <1> QED BY <1>1, <1>2, <1>4, <1>5 DEF TaskInv

\* The handler call and the other steps of run leave every task where it is.
LEMMA RunTasks ==
  ASSUME TaskInv, NEW w \in Workers, Process(w) \/ BatchEnds(w) \/ Quit(w) \/ Exit(w)
  PROVE  TaskInv'
  <1> USE WorkerGroupAssumption DEF mgrVars, stopVars
  <1>0. /\ UNCHANGED <<strategy, mgrVars, pool, content, logQueue, sub, stopVars, stats, logged>>
        /\ wk' \in [Workers ->
                     [at : {"idle", "select", "batch", "process", "processed", "errors",
                            "quit", "exited"},
                      t : Tasks \cup {None}]]
        /\ \A v \in Workers : wk'[v].t = wk[v].t
        /\ \A v \in Workers : wk'[v].at \in {"process", "processed", "errors"}
                                <=> wk[v].at \in {"process", "processed", "errors"}
    <2>1. CASE Process(w)
      <3>1. PICK result \in {"processed", "errors"} : wk' = [wk EXCEPT ![w].at = result]
        BY <2>1 DEF Process
      <3> QED BY <2>1, <3>1, ZenonT(30) DEF Process, TaskInv, TypeOK
    <2>2. CASE BatchEnds(w) BY <2>2 DEF BatchEnds, TaskInv, TypeOK
    <2>3. CASE Quit(w) BY <2>3, SMTT(30) DEF Quit, TaskInv, TypeOK
    <2>4. CASE Exit(w) BY <2>4, SMTT(30) DEF Exit, TaskInv, TypeOK
    <2> QED BY <2>1, <2>2, <2>3, <2>4
  <1>1. wk[w].at = "process" => content[wk[w].t] \in Records
    <2>1. wk[w].at = "process" => w \in WorkerHolds /\ wk[w].t \in Tasks
      BY DEF TaskInv, TypeOK, TasksHeld, WorkerHolds
    <2>2. Logged \subseteq Records
      BY DEF Logged
    <2> QED BY <2>1, <2>2 DEF TaskInv, OneOwner, ContentsDiffer
  <1>2. TypeOK'
    <2>1. handled' \in Seq(Records)
      <3>1. CASE Process(w)
        <4>1. content[wk[w].t] \in Records /\ handled \in Seq(Records)
          BY <1>1, <3>1 DEF Process, TaskInv, TypeOK
        <4> QED BY <3>1, <4>1, AppendFacts DEF Process
      <3>2. CASE BatchEnds(w) \/ Quit(w) \/ Exit(w)
        BY <3>2 DEF BatchEnds, Quit, Exit, TaskInv, TypeOK
      <3> QED BY <3>1, <3>2
    <2>2. done' \in 0 .. Cardinality(Workers)
      <3>1. Cardinality(Workers) \in Nat /\ done \in 0 .. Cardinality(Workers)
        BY FS_CardinalityType DEF TaskInv, TypeOK
      <3>2. done' = done \/ (done < Cardinality(Workers) /\ done' = done + 1)
        BY DEF Process, BatchEnds, Quit, Exit
      <3> QED BY <3>1, <3>2
    <2> QED BY <2>1, <2>2, <1>0 DEF TaskInv, TypeOK
  <1>3. OneOwner'
    BY <1>0 DEF TaskInv, OneOwner, InQueue, SubmitterHolds, WorkerHolds
  <1>4. TasksHeld'
    BY <1>0 DEF TaskInv, TasksHeld
  <1>5. ContentsDiffer'
    BY <1>0 DEF TaskInv, ContentsDiffer, Logged
  <1> QED BY <1>2, <1>3, <1>4, <1>5 DEF TaskInv

\* The last release either finds the group stopped or closes shutdownChan.
LEMMA ReleaseLastFacts ==
  ASSUME TypeOK, Lifecycle, ReleaseLast
  PROVE  /\ registered /\ registered' = TRUE
         /\ \/ /\ workerCount = 0
               /\ shutdown' = shutdown
               /\ stop' = [at |-> "stopped", completed |-> 0]
            \/ /\ workerCount # 0
               /\ shutdown' = TRUE
               /\ shutdown => stop' = [at |-> "panic", completed |-> 0]
               /\ ~shutdown => stop' = [at |-> "waiting", completed |-> 0]
  <1> USE DEF ReleaseLast
  <1>1. registered = TRUE /\ refs > 0
    BY DEF Lifecycle, TypeOK
  <1>2. CASE workerCount = 0
    <2>1. (refs > 0) = TRUE
      BY <1>1
    <2>2. registered' = TRUE
      BY <1>1, <1>2, <2>1
    <2>3. (workerCount > 0) = FALSE
      BY <1>2
    <2>4. shutdown' = shutdown
      BY <2>3 DEF TypeOK
    <2> QED BY <1>1, <1>2, <2>2, <2>4
  <1>3. CASE workerCount # 0
    <2>1. (workerCount > 0) = TRUE
      BY <1>3, FS_CardinalityType, WorkerGroupAssumption DEF TypeOK
    <2>2. shutdown' = TRUE
      BY <2>1
    <2>3. (shutdown => stop' = [at |-> "panic", completed |-> 0])
          /\ (~shutdown => stop' = [at |-> "waiting", completed |-> 0])
      BY <1>3 DEF TypeOK
    <2> QED BY <1>1, <1>3, <2>2, <2>3
  <1> QED BY <1>2, <1>3

\* The manager and Stop touch no task: the workers Start makes have none.
LEMMA ManagerTasks ==
  ASSUME TaskInv, Lifecycle, GetWorkerGroup \/ ReleaseShared \/ ReleaseLast \/ StopStep
  PROVE  TaskInv'
  <1> USE WorkerGroupAssumption DEF mgrVars, stopVars
  <1>0. Cardinality(Workers) \in Nat
    BY FS_CardinalityType
  <1>1. /\ UNCHANGED <<strategy, pool, content, logQueue, sub, stats, logged, handled>>
        /\ registered' \in BOOLEAN /\ shutdown' \in BOOLEAN
        /\ refCount' \in 0 .. MaxRefs /\ refs' \in 0 .. MaxRefs
        /\ wk' \in [Workers ->
                     [at : {"idle", "select", "batch", "process", "processed", "errors",
                            "quit", "exited"},
                      t : Tasks \cup {None}]]
        /\ done' \in 0 .. Cardinality(Workers)
        /\ workerCount' \in {0, Cardinality(Workers)}
        /\ stop' \in [at : {"none", "waiting", "stopped", "timeout", "panic"},
                       completed : 0 .. Cardinality(Workers)]
        /\ \A w \in Workers :
             /\ wk'[w].t = wk[w].t
             /\ wk'[w].at \in {"process", "processed", "errors"}
                  <=> wk[w].at \in {"process", "processed", "errors"}
    <2> USE <1>0 DEF TaskInv, TypeOK
    <2>1. CASE GetWorkerGroup
      <3>1. refCount' \in 0 .. MaxRefs /\ refs' \in 0 .. MaxRefs
        BY <2>1 DEF GetWorkerGroup, Lifecycle
      <3> QED BY <2>1, <3>1 DEF GetWorkerGroup, Start, Lifecycle, Idle
    <2>2. CASE ReleaseShared BY <2>2 DEF ReleaseShared, Unregister
    <2>3. CASE ReleaseLast
      <3>1. registered' \in BOOLEAN /\ shutdown' \in BOOLEAN
        BY <2>3, ReleaseLastFacts
      <3>2. 0 \in 0 .. MaxRefs /\ 0 \in 0 .. Cardinality(Workers)
        OBVIOUS
      <3>3. stop' \in [at : {"none", "waiting", "stopped", "timeout", "panic"},
                       completed : 0 .. Cardinality(Workers)]
        <4>1. PICK a \in {"stopped", "panic", "waiting"} : stop' = [at |-> a, completed |-> 0]
          BY <2>3, ReleaseLastFacts
        <4> QED BY <3>2, <4>1
      <3>4. /\ refCount' = 0
            /\ UNCHANGED <<strategy, refs, pool, content, logQueue, sub, wk, workerCount, done,
                           stats, logged, handled>>
        BY <2>3 DEF ReleaseLast
      <3> QED BY <3>1, <3>2, <3>3, <3>4
    <2>4. CASE StopCounts
      <3>1. done' \in 0 .. Cardinality(Workers) /\ stop.completed + 1 \in 0 .. Cardinality(Workers)
        BY <2>4, SMTT(30) DEF StopCounts
      <3>2. stop' \in [at : {"none", "waiting", "stopped", "timeout", "panic"},
                       completed : 0 .. Cardinality(Workers)]
        BY <2>4, <3>1 DEF StopCounts
      <3> QED BY <2>4, <3>1, <3>2 DEF StopCounts
    <2>5. CASE StopReturns BY <2>5, SMTT(30) DEF StopReturns, Unregister
    <2>6. CASE StopTimesOut BY <2>6, SMTT(30) DEF StopTimesOut, Unregister
    <2> QED BY <2>1, <2>2, <2>3, <2>4, <2>5, <2>6 DEF StopStep
  <1>2. TypeOK'
    BY <1>1 DEF TaskInv, TypeOK
  <1>3. OneOwner'
    BY <1>1 DEF TaskInv, OneOwner, InQueue, SubmitterHolds, WorkerHolds
  <1>4. TasksHeld'
    BY <1>1 DEF TaskInv, TasksHeld
  <1>5. ContentsDiffer'
    BY <1>1 DEF TaskInv, ContentsDiffer, Logged
  <1> QED BY <1>2, <1>3, <1>4, <1>5 DEF TaskInv

-------------------------------------------------------------------------------
(* The life of the group.                                                  *)

\* A reference starts the group once; the last release closes shutdownChan or
\* finds it stopped.
LEMMA ManagerLives ==
  ASSUME TypeOK, Lifecycle, GetWorkerGroup \/ ReleaseShared \/ ReleaseLast
  PROVE  Lifecycle'
  <1> USE WorkerGroupAssumption DEF mgrVars, stopVars
  <1>0. Cardinality(Workers) \in Nat \ {0} /\ Exited \subseteq Workers
        /\ Cardinality({}) = 0
    BY FS_CardinalityType, FS_EmptySet DEF Exited
  <1>1. CASE GetWorkerGroup
    <2>1. refs' > 0 /\ registered' = TRUE /\ refCount' <= refs'
          /\ UNCHANGED <<shutdown, stop, done>>
      BY <1>1 DEF GetWorkerGroup, Lifecycle, TypeOK
    <2>2. CASE registered
      <3>1. UNCHANGED <<wk, workerCount>>
        BY <1>1, <2>2 DEF GetWorkerGroup
      <3>2. Exited' = Exited
        BY <3>1 DEF Exited
      <3> QED BY <2>1, <2>2, <3>1, <3>2 DEF Lifecycle
    <2>3. CASE ~registered
      <3>1. workerCount' = Cardinality(Workers) /\ \A w \in Workers : wk'[w].at = "select"
        BY <1>1, <2>3 DEF GetWorkerGroup, Start
      <3>2. ~shutdown /\ stop.at = "none"
        BY <2>3 DEF Lifecycle, TypeOK
      <3> QED BY <1>0, <2>1, <3>1, <3>2 DEF Lifecycle
    <2> QED BY <2>2, <2>3
  <1>2. CASE ReleaseShared
    <2>1. registered' = registered
      BY <1>2 DEF ReleaseShared, Unregister, Lifecycle, TypeOK
    <2>2. refCount' <= refs /\ UNCHANGED <<refs, wk, shutdown, workerCount, stop, done>>
      BY <1>2 DEF ReleaseShared, Lifecycle, TypeOK
    <2>3. Exited' = Exited
      BY <2>2 DEF Exited
    <2> QED BY <2>1, <2>2, <2>3 DEF Lifecycle
  <1>3. CASE ReleaseLast
    <2>1. refCount' <= refs /\ UNCHANGED <<refs, wk, workerCount, done>>
      BY <1>3 DEF ReleaseLast, Lifecycle, TypeOK
    <2>2. Exited' = Exited
      BY <2>1 DEF Exited
    <2>3. registered /\ registered' = TRUE
      BY <1>3, ReleaseLastFacts
    <2>4. CASE workerCount = 0
      <3>1. shutdown' = shutdown /\ stop'.at = "stopped" /\ Exited = Workers
        BY <1>3, <2>3, <2>4, ReleaseLastFacts DEF Lifecycle
      <3>2. shutdown
        BY <3>1, WorkerGroupAssumption DEF Lifecycle, Exited
      <3> QED BY <2>1, <2>2, <2>3, <3>1, <3>2 DEF Lifecycle, TypeOK
    <2>5. CASE workerCount # 0
      <3>1. shutdown' = TRUE
        BY <1>3, <2>5, ReleaseLastFacts
      <3>2. CASE shutdown
        <4>0. stop' = [at |-> "panic", completed |-> 0]
          BY <1>3, <2>5, <3>2, ReleaseLastFacts, Zenon
        <4>1. stop'.at = "panic"
          BY <4>0
        <4> QED BY <2>1, <2>2, <2>3, <2>5, <3>1, <4>1 DEF Lifecycle
      <3>3. CASE ~shutdown
        <4>0. stop' = [at |-> "waiting", completed |-> 0]
          BY <1>3, <2>5, <3>3, ReleaseLastFacts, Zenon
        <4>1. stop'.at = "waiting" /\ stop'.completed = 0
          BY <4>0
        <4>2. done = 0 /\ Exited = {}
          BY <3>3 DEF Lifecycle, Exited
        <4> QED BY <1>0, <2>1, <2>2, <2>3, <2>5, <3>1, <4>1, <4>2 DEF Lifecycle
      <3> QED BY <3>2, <3>3
    <2> QED BY <2>4, <2>5
  <1> QED BY <1>1, <1>2, <1>3

\* Stop counts each worker that has left run once, and so all of them have when
\* it has counted as many as there are.
LEMMA StopLives ==
  ASSUME TypeOK, Lifecycle, StopStep
  PROVE  Lifecycle'
  <1> USE WorkerGroupAssumption DEF mgrVars, stopVars
  <1>0. Cardinality(Workers) \in Nat \ {0} /\ Exited \subseteq Workers
        /\ Cardinality(Exited) \in Nat /\ Cardinality(Exited) <= Cardinality(Workers)
        /\ (Cardinality(Exited) = Cardinality(Workers) => Exited = Workers)
    <2>1. Exited \in SUBSET Workers
      BY DEF Exited
    <2> QED BY <2>1, FS_CardinalityType, FS_EmptySet, FS_Subset
  <1>1. wk' = wk /\ Exited' = Exited /\ UNCHANGED <<refCount, refs, shutdown>>
    BY DEF StopStep, StopCounts, StopReturns, StopTimesOut, Exited
  <1>2. stop.at = "waiting" /\ shutdown /\ registered
    BY DEF StopStep, StopCounts, StopReturns, StopTimesOut, Lifecycle
  <1>3. CASE StopCounts
    <2>1. /\ registered' = registered /\ workerCount' = workerCount
          /\ stop'.at = "waiting" /\ stop'.completed = stop.completed + 1 /\ done' = done - 1
      BY <1>3, <1>2 DEF StopCounts, TypeOK
    <2> QED BY <1>1, <1>2, <2>1 DEF Lifecycle, TypeOK
  <1>4. CASE StopReturns
    <2>1. stop'.at = "stopped" /\ workerCount' = 0 /\ registered' = registered /\ done' = done
      BY <1>4, <1>2 DEF StopReturns, Unregister, Lifecycle, TypeOK
    <2>2. done + stop.completed = Cardinality(Exited) /\ stop.completed >= Cardinality(Workers)
      BY <1>4, <1>2 DEF StopReturns, AllCounted, Lifecycle
    <2>3. Exited = Workers
      BY <1>0, <2>2 DEF TypeOK
    <2> QED BY <1>1, <1>2, <2>1, <2>3 DEF Lifecycle
  <1>5. CASE StopTimesOut
    <2>1. /\ stop'.at = "timeout" /\ workerCount' = workerCount /\ registered' = registered
          /\ done' = done
      BY <1>5, <1>2 DEF StopTimesOut, Unregister, Lifecycle, TypeOK
    <2> QED BY <1>1, <1>2, <2>1 DEF Lifecycle
  <1> QED BY <1>3, <1>4, <1>5 DEF StopStep

\* Logging does not change the life of the group.
LEMMA SubmitLives ==
  ASSUME TypeOK, Lifecycle, NEW s \in Submitters, Handle(s) \/ SubmitStep(s)
  PROVE  Lifecycle'
  <1>1. UNCHANGED <<mgrVars, wk, stopVars, done>>
    BY DEF Handle, SubmitStep, Send, SendFails, CountSent, Evict, EvictFails, Drop, Forget
  <1> QED BY <1>1 DEF Lifecycle, Exited, mgrVars, stopVars

\* A worker quits only when shutdownChan is closed, and its token is there once
\* it has left.
LEMMA RunLives ==
  ASSUME TypeOK, Lifecycle, NEW w \in Workers, RunStep(w) \/ Process(w)
  PROVE  Lifecycle'
  <1> USE WorkerGroupAssumption DEF mgrVars, stopVars
  <1>1. UNCHANGED <<mgrVars, stopVars>> /\ registered
    BY DEF RunStep, Take, Finish, BatchEnds, Quit, Exit, Process, Lifecycle, Idle
  <1>2. \A v \in Workers : v # w => wk'[v] = wk[v]
    BY DEF RunStep, Take, Finish, BatchEnds, Quit, Exit, Process, TypeOK
  <1>3. CASE Exit(w)
    <2>1. shutdown /\ w \notin Exited /\ Exited' = Exited \cup {w} /\ done' = done + 1
      BY <1>3, SMTT(30) DEF Exit, Exited, TypeOK, Lifecycle
    <2>2. Exited \in SUBSET Workers
      BY DEF Exited
    <2>3. Cardinality(Exited') = Cardinality(Exited) + 1 /\ Cardinality(Exited) \in Nat
      BY <2>1, <2>2, FS_Subset, FS_AddElement, FS_CardinalityType
    <2>4. Exited # Workers
      BY <2>1
    <2> QED BY <1>1, <2>1, <2>3, <2>4, SMTT(30) DEF Lifecycle, TypeOK
  <1>4. CASE ~Exit(w)
    <2>1. done' = done /\ wk[w].at # "exited" /\ wk'[w].at # "exited"
      BY <1>4, SMTT(30) DEF RunStep, Take, Finish, BatchEnds, Quit, Process, TypeOK
    <2>2. Exited' = Exited
      BY <1>2, <2>1 DEF Exited
    <2>3. shutdown \/ wk'[w].at \notin {"quit", "exited"}
      BY <1>4, SMTT(30) DEF RunStep, Take, Finish, BatchEnds, Quit, Process, TypeOK
    <2> QED BY <1>1, <1>2, <2>1, <2>2, <2>3 DEF Lifecycle
  <1> QED BY <1>3, <1>4

\* No step leaves the invariant of tasks and life.
LEMMA NextTasks ==
  ASSUME TaskInv, Lifecycle, [Next]_vars
  PROVE  TaskInv' /\ Lifecycle'
  <1>0. TypeOK
    BY DEF TaskInv
  <1>1. CASE GetWorkerGroup \/ ReleaseShared \/ ReleaseLast
    BY <1>0, <1>1, ManagerTasks, ManagerLives
  <1>2. CASE StopStep
    BY <1>0, <1>2, ManagerTasks, StopLives
  <1>3. ASSUME NEW s \in Submitters, Handle(s) \/ SubmitStep(s)
        PROVE  TaskInv' /\ Lifecycle'
    BY <1>0, <1>3, HandleTasks, SendTasks, StaysTasks, EvictTasks, GivesBackTasks, SubmitLives
       DEF SubmitStep
  <1>4. ASSUME NEW w \in Workers, RunStep(w) \/ Process(w)
        PROVE  TaskInv' /\ Lifecycle'
    BY <1>0, <1>4, TakeTasks, FinishTasks, RunTasks, RunLives DEF RunStep
  <1>5. CASE UNCHANGED vars
    BY <1>5 DEF vars, mgrVars, stopVars, TaskInv, TypeOK, OneOwner, InQueue, SubmitterHolds,
                WorkerHolds, TasksHeld, ContentsDiffer, Logged, Lifecycle, Exited
  <1> QED BY <1>1, <1>2, <1>3, <1>4, <1>5 DEF Next, OneReference

\* The invariant of tasks and life holds at every moment (Handle, Submit, run,
\* Stop).
THEOREM GroupTasks == Spec => [](TaskInv /\ Lifecycle)
  <1>1. Init => TaskInv /\ Lifecycle
    BY InitTasks
  <1>2. TaskInv /\ Lifecycle /\ [Next]_vars => (TaskInv /\ Lifecycle)'
    BY NextTasks
  <1> QED BY <1>1, <1>2, PTL DEF Spec

\* Every task of the pool has one owner at every moment, however submitters, workers
\* and evictions interleave (TasksOwned).
THEOREM GroupOwns == Spec => []TasksOwned
  <1>1. TaskInv => TasksOwned
    BY DEF TaskInv, TasksOwned
  <1> QED BY <1>1, GroupTasks, PTL

\* Once Stop has returned nil no handler is called any more (QuietAfterStop).
THEOREM GroupStops == Spec => QuietAfterStop
  <1>1. ASSUME TaskInv, Lifecycle, [Next]_vars, stop.at = "stopped"
        PROVE  handled' = handled
    <2>1. \A w \in Workers : wk[w].at = "exited"
      BY <1>1 DEF Lifecycle, Exited
    <2>2. ASSUME NEW w \in Workers, Process(w) PROVE FALSE
      BY <2>1, <2>2 DEF Process
    <2>3. CASE UNCHANGED vars
      BY <2>3 DEF vars
    <2> QED BY <1>1, <2>2, <2>3
         DEF Next, OneReference, GetWorkerGroup, ReleaseShared, ReleaseLast, StopStep,
             StopCounts, StopReturns, StopTimesOut, Handle, SubmitStep, Send, SendFails,
             CountSent, Evict, EvictFails, Drop, Forget, RunStep, Take, Finish, BatchEnds,
             Quit, Exit
  <1>2. TaskInv /\ Lifecycle /\ [Next]_vars => [stop.at = "stopped" => handled' = handled]_vars
    BY <1>1
  <1> QED BY <1>2, GroupTasks, PTL DEF Spec, QuietAfterStop

-------------------------------------------------------------------------------
(* The counters.                                                           *)

\* The sets that are counted are finite, and so are what a step makes of them.
LEMMA Finite ==
  ASSUME TaskInv
  PROVE  /\ IsFiniteSet(Uncounted) /\ IsFiniteSet(Processing) /\ IsFiniteSet(Sending)
         /\ IsFiniteSet(Records) /\ IsFiniteSet(Logged)
         /\ InFlight \subseteq Tasks \ pool
         /\ Pending \subseteq Logged /\ IsFiniteSet(Pending)
         /\ Cardinality(Uncounted) \in Nat /\ Cardinality(Processing) \in Nat
         /\ Cardinality(Sending) \in Nat /\ Cardinality(Logged) \in Nat
         /\ Cardinality(Pending) \in Nat
         /\ Len(logQueue) \in Nat /\ Len(handled) \in Nat
         /\ stats.queued \in Nat /\ stats.dropped \in Nat
         /\ stats.processed \in Nat /\ stats.errors \in Nat
  <1> USE WorkerGroupAssumption
  <1>1. Uncounted \in SUBSET Workers /\ Processing \in SUBSET Workers
        /\ Sending \in SUBSET Submitters
    BY DEF Uncounted, Processing, Sending
  <1>2. IsFiniteSet(Uncounted) /\ IsFiniteSet(Processing) /\ IsFiniteSet(Sending)
    BY <1>1, FS_Subset
  <1>3. IsFiniteSet(Records)
    <2>1. IsFiniteSet(1 .. MaxRecords)
      BY FS_Interval
    <2> QED BY <2>1, FS_Product DEF Records
  <1>4. Logged \in SUBSET Records
    BY DEF Logged
  <1>5. InFlight \subseteq Tasks \ pool
    <2>1. InQueue \subseteq Tasks
      BY ElementOfSeq, LenProperties DEF InQueue, TaskInv, TypeOK
    <2>2. \A s \in SubmitterHolds : sub[s].t \in Tasks
      BY DEF SubmitterHolds, TaskInv, TypeOK
    <2>3. \A w \in WorkerHolds : wk[w].t \in Tasks
      BY DEF WorkerHolds, TaskInv, TypeOK
    <2> QED BY <2>1, <2>2, <2>3 DEF InFlight, TaskInv, OneOwner
  <1>6. Pending \in SUBSET Logged
    BY <1>5 DEF Pending, TaskInv, ContentsDiffer
  <1>7. IsFiniteSet(Logged)
    BY <1>3, <1>4, FS_Subset
  <1>8. IsFiniteSet(Pending)
    BY <1>6, <1>7, FS_Subset
  <1>9. /\ Len(logQueue) \in Nat /\ Len(handled) \in Nat
        /\ stats.queued \in Nat /\ stats.dropped \in Nat
        /\ stats.processed \in Nat /\ stats.errors \in Nat
    BY LenProperties DEF TaskInv, TypeOK
  <1> QED BY <1>2, <1>3, <1>5, <1>6, <1>7, <1>8, <1>9, FS_CardinalityType

\* A task that is no longer on its way takes one record out of Pending.
LEMMA PendingShrinks ==
  ASSUME TaskInv, NEW x \in InFlight, InFlight' = InFlight \ {x},
         \A t \in InFlight' : content'[t] = content[t]
  PROVE  Cardinality(Pending') = Cardinality(Pending) - 1
  <1>1. InFlight \subseteq Tasks \ pool /\ IsFiniteSet(Pending)
    BY Finite
  <1>2. Pending' = Pending \ {content[x]}
    BY <1>1 DEF Pending, TaskInv, ContentsDiffer
  <1>3. content[x] \in Pending
    BY DEF Pending
  <1> QED BY <1>1, <1>2, <1>3, FS_RemoveElement

\* What carries the same records is as much.
LEMMA PendingStays ==
  ASSUME InFlight' = InFlight, \A t \in InFlight' : content'[t] = content[t]
  PROVE  Pending' = Pending
  BY DEF Pending

\* Nothing is logged and nothing counted.
LEMMA InitCounts == Init => CounterInv
  <1> SUFFICES ASSUME Init PROVE CounterInv
    OBVIOUS
  <1> USE WorkerGroupAssumption DEF Init, Idle
  <1>1. Uncounted = {} /\ Sending = {} /\ Processing = {} /\ Pending = {}
    BY DEF Uncounted, Sending, Processing, Pending, InFlight, InQueue, SubmitterHolds, WorkerHolds
  <1>2. Logged = {}
    BY DEF Logged, Records
  <1>3. Cardinality({}) = 0 /\ Len(<<>>) = 0
    BY FS_EmptySet
  <1>4. /\ stats.dropped = 0 /\ stats.processed = 0 /\ stats.errors = 0 /\ stats.queued = 0
        /\ Len(handled) = 0 /\ Len(logQueue) = 0
    BY <1>3
  <1> QED BY <1>1, <1>2, <1>3, <1>4 DEF CounterInv, RecordsCounted, CallsCounted, EvictsOld, SendsCounted

\* A record that is logged is on its way, and is a new one.
LEMMA HandleCounts ==
  ASSUME TaskInv, CounterInv, NEW s \in Submitters, Handle(s)
  PROVE  CounterInv'
  <1> USE WorkerGroupAssumption DEF Handle, mgrVars, stopVars
  <1> PICK t \in pool :
        /\ content' = [content EXCEPT ![t] = <<s, logged[s] + 1>>]
        /\ sub' = [sub EXCEPT ![s] = [at |-> "submit", t |-> t]]
    OBVIOUS
  <1> DEFINE r == <<s, logged[s] + 1>>
  <1>1. r \in Records /\ r \notin Logged /\ Logged' = Logged \cup {r}
    BY SMTT(30) DEF TaskInv, TypeOK, Records, Logged
  <1>2. InFlight' = InFlight \cup {t} /\ t \notin InFlight
    <2>1. t \in Tasks /\ t # None /\ s \notin SubmitterHolds
      BY DEF TaskInv, TypeOK, SubmitterHolds, Idle
    <2>2. SubmitterHolds' = SubmitterHolds \cup {s} /\ sub'[s].t = t
          /\ \A q \in SubmitterHolds : sub'[q].t = sub[q].t
      BY <2>1 DEF TaskInv, TypeOK, SubmitterHolds
    <2>3. /\ WorkerHolds' = WorkerHolds /\ wk' = wk
          /\ InQueue' = InQueue /\ Uncounted' = Uncounted
      BY DEF InQueue, WorkerHolds, Uncounted
    <2>4. t \notin InFlight
      BY Finite
    <2> QED BY <2>1, <2>2, <2>3, <2>4 DEF InFlight
  <1>3. Pending' = Pending \cup {r} /\ r \notin Pending
    <2>1. InFlight \subseteq Tasks /\ Pending \subseteq Logged
      BY Finite
    <2>2. content'[t] = r /\ \A u \in InFlight : content'[u] = content[u]
      BY <1>2, <2>1 DEF TaskInv, TypeOK
    <2> QED BY <1>1, <1>2, <2>1, <2>2 DEF Pending
  <1>4. /\ Cardinality(Pending') = Cardinality(Pending) + 1
        /\ Cardinality(Logged') = Cardinality(Logged) + 1
    BY <1>1, <1>3, Finite, FS_AddElement
  <1>5. Sending' = Sending /\ Uncounted' = Uncounted /\ Processing' = Processing
    BY DEF Sending, Uncounted, Processing, TaskInv, TypeOK, Idle
  <1>6. RecordsCounted'
    <2>1. /\ Cardinality(Pending) \in Nat /\ Cardinality(Logged) \in Nat /\ Len(handled) \in Nat
          /\ stats.dropped \in Nat
      BY Finite
    <2>2. UNCHANGED <<stats, handled, strategy>>
      OBVIOUS
    <2> HIDE WorkerGroupAssumption DEF Handle
    <2> QED BY <1>4, <2>1, <2>2 DEF CounterInv, RecordsCounted
  <1>7. EvictsOld'
    BY DEF CounterInv, EvictsOld, TaskInv, TypeOK
  <1> QED BY <1>5, <1>6, <1>7 DEF CounterInv, CallsCounted, SendsCounted

\* What no step but those of its own goroutine changes.
LEMMA SubmitStays ==
  ASSUME TaskInv, NEW s \in Submitters, wk' = wk
  PROVE  Uncounted' = Uncounted /\ Processing' = Processing /\ WorkerHolds' = WorkerHolds
  BY DEF Uncounted, Processing, WorkerHolds

\* A record that is sent is still on its way.
LEMMA SendCounts ==
  ASSUME TaskInv, CounterInv, NEW s \in Submitters, Send(s)
  PROVE  CounterInv'
  <1> USE WorkerGroupAssumption DEF Send, mgrVars, stopVars
  <1>1. Uncounted' = Uncounted /\ Processing' = Processing /\ WorkerHolds' = WorkerHolds
        /\ UNCHANGED <<wk, content, stats, logged, handled, strategy>> /\ Logged' = Logged
    BY SubmitStays DEF Logged
  <1>2. InFlight' = InFlight
    <2>1. sub[s].t \in Tasks /\ logQueue \in Seq(Tasks)
      BY DEF TaskInv, TypeOK, TasksHeld
    <2>2. InQueue' = InQueue \cup {sub[s].t}
      BY <2>1, AppendFacts DEF InQueue
    <2>3. s \in SubmitterHolds /\ SubmitterHolds' = SubmitterHolds \ {s}
          /\ \A r \in SubmitterHolds' : sub'[r].t = sub[r].t
      BY <2>1 DEF SubmitterHolds, TaskInv, TypeOK
    <2> QED BY <1>1, <2>2, <2>3 DEF InFlight
  <1>3. Pending' = Pending
    BY <1>1, <1>2, PendingStays
  <1>4. Sending' = Sending \cup {s} /\ s \notin Sending
    BY DEF Sending, TaskInv, TypeOK
  <1>5. Cardinality(Sending') = Cardinality(Sending) + 1
    BY <1>4, Finite, FS_AddElement
  <1>6. Len(logQueue') = Len(logQueue) + 1
    BY AppendFacts DEF TaskInv, TypeOK, TasksHeld
  <1>7. SendsCounted'
    <2>1. /\ Cardinality(Sending) \in Nat /\ Cardinality(Processing) \in Nat
          /\ Len(logQueue) \in Nat /\ Len(handled) \in Nat /\ stats.queued \in Nat
      BY Finite
    <2> HIDE WorkerGroupAssumption DEF Send
    <2> QED BY <1>1, <1>5, <1>6, <2>1, SMTT(30) DEF CounterInv, SendsCounted
  <1>8. EvictsOld'
    BY DEF CounterInv, EvictsOld, TaskInv, TypeOK
  <1> QED BY <1>1, <1>3, <1>7, <1>8 DEF CounterInv, RecordsCounted, CallsCounted

\* A failed attempt to send or to evict leaves the record on its way; only
\* drop_old evicts.
LEMMA StaysCounts ==
  ASSUME TaskInv, CounterInv, NEW s \in Submitters, SendFails(s) \/ EvictFails(s)
  PROVE  CounterInv'
  <1> USE WorkerGroupAssumption DEF SendFails, EvictFails, At, mgrVars, stopVars
  <1>1. Uncounted' = Uncounted /\ Processing' = Processing /\ WorkerHolds' = WorkerHolds
        /\ UNCHANGED <<wk, content, stats, logQueue, logged, handled, strategy>> /\ Logged' = Logged
    BY SubmitStays DEF Logged
  <1>2. PICK at \in {"drop", "evict"} :
          /\ sub[s].at \in {"submit", "retry", "evict"}
          /\ sub' = [sub EXCEPT ![s].at = at]
          /\ at = "evict" => strategy = "drop_old"
    OBVIOUS
  <1>3. \A r \in Submitters : sub'[r].t = sub[r].t
    BY <1>2 DEF TaskInv, TypeOK
  <1>4. InFlight' = InFlight
    BY <1>1, <1>3 DEF InFlight, InQueue, SubmitterHolds
  <1>5. Pending' = Pending
    BY <1>1, <1>4, PendingStays
  <1>6. Sending' = Sending
    BY <1>2, SMTT(30) DEF Sending, TaskInv, TypeOK
  <1>7. EvictsOld'
    BY <1>2, <1>1 DEF CounterInv, EvictsOld, TaskInv, TypeOK
  <1> QED BY <1>1, <1>5, <1>6, <1>7 DEF CounterInv, RecordsCounted, CallsCounted, SendsCounted

\* Queued counts a record once it is in the queue.
LEMMA CountSentCounts ==
  ASSUME TaskInv, CounterInv, NEW s \in Submitters, CountSent(s)
  PROVE  CounterInv'
  <1> USE WorkerGroupAssumption DEF CountSent, Idle, mgrVars, stopVars
  <1>1. Uncounted' = Uncounted /\ Processing' = Processing /\ WorkerHolds' = WorkerHolds
        /\ UNCHANGED <<wk, content, logQueue, logged, handled, strategy>> /\ Logged' = Logged
    BY SubmitStays DEF Logged
  <1>2. /\ stats'.queued = stats.queued + 1 /\ stats'.dropped = stats.dropped
        /\ stats'.processed = stats.processed /\ stats'.errors = stats.errors
    BY CountFacts DEF TaskInv, Fields
  <1>3. \A r \in Submitters : sub'[r].t = sub[r].t
    BY ZenonT(30) DEF TaskInv, TypeOK, TasksHeld
  <1>4. InFlight' = InFlight
    BY <1>1, <1>3 DEF InFlight, InQueue, SubmitterHolds
  <1>5. Pending' = Pending
    BY <1>1, <1>4, PendingStays
  <1>6. Sending' = Sending \ {s} /\ s \in Sending
    BY DEF Sending, TaskInv, TypeOK
  <1>7. Cardinality(Sending') = Cardinality(Sending) - 1
    BY <1>6, Finite, FS_RemoveElement
  <1>8. EvictsOld'
    BY <1>1 DEF CounterInv, EvictsOld, TaskInv, TypeOK
  <1>9. SendsCounted'
    <2>1. /\ Cardinality(Sending) \in Nat /\ Cardinality(Processing) \in Nat
          /\ Len(logQueue) \in Nat /\ Len(handled) \in Nat /\ stats.queued \in Nat
      BY Finite
    <2> HIDE WorkerGroupAssumption DEF CountSent
    <2> QED BY <1>1, <1>2, <1>7, <2>1, SMTT(30) DEF CounterInv, SendsCounted
  <1> QED BY <1>1, <1>2, <1>5, <1>8, <1>9 DEF CounterInv, RecordsCounted, CallsCounted

\* An evicted record is no longer on its way and is counted as dropped.
LEMMA EvictCounts ==
  ASSUME TaskInv, CounterInv, NEW s \in Submitters, Evict(s)
  PROVE  CounterInv'
  <1> USE WorkerGroupAssumption DEF Evict, Evicted, Return, At, mgrVars, stopVars
  <1> DEFINE h == Head(logQueue)
  <1>1. Uncounted' = Uncounted /\ Processing' = Processing /\ WorkerHolds' = WorkerHolds
        /\ UNCHANGED <<wk, logged, handled, strategy>> /\ Logged' = Logged
    BY SubmitStays DEF Logged
  <1>2. /\ stats'.queued = stats.queued /\ stats'.dropped = stats.dropped + 1
        /\ stats'.processed = stats.processed /\ stats'.errors = stats.errors
    BY CountFacts DEF TaskInv, Fields
  <1>3. \A r \in Submitters : sub'[r].t = sub[r].t
    BY DEF TaskInv, TypeOK
  <1>4. h \in InFlight /\ InFlight' = InFlight \ {h}
    <2>1. /\ h \in InQueue /\ InQueue' = InQueue \ {h}
          /\ \A r \in SubmitterHolds : sub[r].t # h
          /\ \A w \in WorkerHolds : wk[w].t # h
      BY QueueLosesHead
    <2>2. SubmitterHolds' = SubmitterHolds /\ SubmitterHolds \subseteq Submitters
      BY <1>3 DEF SubmitterHolds
    <2> QED BY <1>1, <1>3, <2>1, <2>2 DEF InFlight
  <1>5. \A t \in InFlight' : content'[t] = content[t]
    BY <1>4, Finite DEF TaskInv, TypeOK
  <1>6. Cardinality(Pending') = Cardinality(Pending) - 1
    BY <1>4, <1>5, PendingShrinks
  <1>7. EvictsOld' /\ strategy = "drop_old"
    BY <1>1 DEF CounterInv, EvictsOld, TaskInv, TypeOK
  <1>8. RecordsCounted'
    <2>1. /\ Cardinality(Pending) \in Nat /\ Cardinality(Logged) \in Nat /\ Len(handled) \in Nat
          /\ stats.dropped \in Nat
      BY Finite
    <2> HIDE WorkerGroupAssumption DEF Evict
    <2> QED BY <1>1, <1>2, <1>6, <2>1, SMTT(30) DEF CounterInv, RecordsCounted
  <1>9. SendsCounted'
    BY <1>1, <1>7 DEF SendsCounted
  <1> QED BY <1>1, <1>2, <1>7, <1>8, <1>9 DEF CounterInv, CallsCounted

\* A dropped record is no longer on its way and is counted, unless the strategy
\* is none of the three.
LEMMA GivesBackCounts ==
  ASSUME TaskInv, CounterInv, NEW s \in Submitters, Drop(s) \/ Forget(s)
  PROVE  CounterInv'
  <1> USE WorkerGroupAssumption DEF Drop, Forget, Return, Idle, mgrVars, stopVars
  <1> DEFINE t == sub[s].t
  <1>1. Uncounted' = Uncounted /\ Processing' = Processing /\ WorkerHolds' = WorkerHolds
        /\ UNCHANGED <<wk, logQueue, logged, handled, strategy>> /\ Logged' = Logged
        /\ InQueue' = InQueue
    BY SubmitStays DEF Logged, InQueue
  <1>2. /\ stats'.queued = stats.queued
        /\ stats'.dropped = stats.dropped + 1 \/ strategy \notin ThreeStrategies
        /\ stats'.processed = stats.processed /\ stats'.errors = stats.errors
    BY CountFacts DEF TaskInv, Fields, ThreeStrategies
  <1>a. /\ sub' = [sub EXCEPT ![s] = [at |-> "idle", t |-> None]]
        /\ sub[s].at \in {"drop", "submit"} /\ t \in Tasks
        /\ content' = [content EXCEPT ![t] = None]
    BY DEF TaskInv, TasksHeld
  <1> HIDE DEF Drop, Forget
  <1>3. t \in InFlight /\ InFlight' = InFlight \ {t}
    <2>1. s \in SubmitterHolds /\ SubmitterHolds' = SubmitterHolds \ {s}
          /\ \A r \in SubmitterHolds' : sub'[r].t = sub[r].t
      BY <1>a DEF SubmitterHolds, TaskInv, TypeOK
    <2>2. /\ t \notin InQueue /\ \A w \in WorkerHolds : wk[w].t # t
          /\ \A r \in SubmitterHolds' : sub[r].t # t
      BY <2>1 DEF TaskInv, OneOwner
    <2> QED BY <1>1, <2>1, <2>2 DEF InFlight
  <1>4. \A u \in InFlight' : content'[u] = content[u]
    BY <1>3, <1>a, Finite DEF TaskInv, TypeOK
  <1>5. Cardinality(Pending') = Cardinality(Pending) - 1
    BY <1>3, <1>4, PendingShrinks
  <1>6. Sending' = Sending /\ EvictsOld'
    BY <1>1, <1>a DEF Sending, CounterInv, EvictsOld, TaskInv, TypeOK
  <1>7. RecordsCounted'
    <2>1. /\ Cardinality(Pending) \in Nat /\ Cardinality(Logged) \in Nat /\ Len(handled) \in Nat
          /\ stats.dropped \in Nat
      BY Finite
    <2> HIDE WorkerGroupAssumption
    <2> QED BY <1>1, <1>2, <1>5, <2>1, SMTT(30) DEF CounterInv, RecordsCounted
  <1> QED BY <1>1, <1>2, <1>6, <1>7 DEF CounterInv, CallsCounted, SendsCounted

\* With its task a worker that processes holds a record that is on its way.
LEMMA ProcessingHolds ==
  ASSUME TaskInv
  PROVE  WorkerHolds \ Uncounted = Processing /\ Processing \subseteq Workers
  BY WorkerGroupAssumption DEF TaskInv, TypeOK, TasksHeld, WorkerHolds, Uncounted, Processing

\* The same after a step.
LEMMA ProcessingHoldsNext ==
  ASSUME TaskInv'
  PROVE  (WorkerHolds \ Uncounted)' = Processing'
  BY WorkerGroupAssumption DEF TaskInv, TypeOK, TasksHeld, WorkerHolds, Uncounted, Processing

\* A record a worker takes is still on its way.
LEMMA TakeCounts ==
  ASSUME TaskInv, TaskInv', CounterInv, NEW w \in Workers, Take(w)
  PROVE  CounterInv'
  <1> USE WorkerGroupAssumption DEF Take, mgrVars, stopVars
  <1> DEFINE h == Head(logQueue)
  <1>1. /\ UNCHANGED <<sub, content, stats, logged, handled, strategy>> /\ Logged' = Logged
        /\ Sending' = Sending /\ SubmitterHolds' = SubmitterHolds
    BY DEF Logged, Sending, SubmitterHolds
  <1>2. /\ wk'[w].t = h /\ wk'[w].at = "process" /\ wk[w].at \in {"select", "batch"}
        /\ \A v \in Workers \ {w} : wk'[v] = wk[v]
    BY DEF TaskInv, TypeOK
  <1>3. Uncounted' = Uncounted
    BY <1>2 DEF Uncounted
  <1>4. Processing' = Processing \cup {w} /\ w \notin Processing
    BY <1>2 DEF Processing
  <1>5. InFlight' = InFlight
    <2>1. h \in InQueue /\ InQueue' = InQueue \ {h} /\ Len(logQueue') = Len(logQueue) - 1
      BY QueueLosesHead
    <2>2. InFlight = InQueue \cup {sub[s].t : s \in SubmitterHolds} \cup {wk[v].t : v \in Processing}
      BY ProcessingHolds DEF InFlight
    <2>3. InFlight' = InQueue' \cup {sub'[s].t : s \in SubmitterHolds'} \cup {wk'[v].t : v \in Processing'}
      BY ProcessingHoldsNext DEF InFlight
    <2>4. {wk'[v].t : v \in Processing'} = {wk[v].t : v \in Processing} \cup {h}
      BY <1>2, <1>4, ProcessingHolds
    <2> QED BY <1>1, <2>1, <2>2, <2>3, <2>4, ZenonT(30)
  <1>6. Pending' = Pending
    BY <1>1, <1>5, PendingStays
  <1>7. Cardinality(Processing') = Cardinality(Processing) + 1
    BY <1>4, Finite, FS_AddElement
  <1>8. Len(logQueue') = Len(logQueue) - 1
    BY QueueLosesHead
  <1>9. SendsCounted'
    <2>1. /\ Cardinality(Sending) \in Nat /\ Cardinality(Processing) \in Nat
          /\ Len(logQueue) \in Nat /\ Len(handled) \in Nat /\ stats.queued \in Nat
      BY Finite
    <2> HIDE WorkerGroupAssumption DEF Take
    <2> QED BY <1>1, <1>7, <1>8, <2>1, SMTT(30) DEF CounterInv, SendsCounted
  <1> QED BY <1>1, <1>3, <1>6, <1>9 DEF CounterInv, RecordsCounted, CallsCounted, EvictsOld

\* A record the handler is called with is handled, and its outcome not yet
\* counted.
LEMMA ProcessCounts ==
  ASSUME TaskInv, TaskInv', CounterInv, NEW w \in Workers, Process(w)
  PROVE  CounterInv'
  <1> USE WorkerGroupAssumption DEF Process, mgrVars, stopVars
  <1> DEFINE t == wk[w].t
  <1>1. /\ UNCHANGED <<sub, content, logQueue, stats, logged, strategy>> /\ Logged' = Logged
        /\ Sending' = Sending /\ SubmitterHolds' = SubmitterHolds /\ InQueue' = InQueue
    BY DEF Logged, Sending, SubmitterHolds, InQueue
  <1>2. /\ wk[w].at = "process" /\ wk'[w].at \in {"processed", "errors"}
        /\ \A v \in Workers \ {w} : wk'[v] = wk[v]
    <2>1. PICK result \in {"processed", "errors"} : wk' = [wk EXCEPT ![w].at = result]
      OBVIOUS
    <2> QED BY <2>1 DEF TaskInv, TypeOK
  <1>3. Uncounted' = Uncounted \cup {w} /\ w \notin Uncounted
    BY <1>2 DEF Uncounted
  <1>4. Processing' = Processing \ {w} /\ w \in Processing
    BY <1>2 DEF Processing
  <1>5. t \in InFlight /\ InFlight' = InFlight \ {t}
    <2>1. w \in WorkerHolds
      BY <1>4, ProcessingHolds
    <2>2. /\ t \notin InQueue /\ \A s \in SubmitterHolds : sub[s].t # t
          /\ \A v \in Processing' : wk'[v].t = wk[v].t /\ wk[v].t # t
      BY <1>2, <1>4, <2>1, ProcessingHolds DEF TaskInv, OneOwner
    <2>3. InFlight = InQueue \cup {sub[s].t : s \in SubmitterHolds} \cup {wk[v].t : v \in Processing}
      BY ProcessingHolds DEF InFlight
    <2>4. InFlight' = InQueue' \cup {sub'[s].t : s \in SubmitterHolds'} \cup {wk'[v].t : v \in Processing'}
      BY ProcessingHoldsNext DEF InFlight
    <2> QED BY <1>1, <1>4, <2>2, <2>3, <2>4
  <1>6. Cardinality(Pending') = Cardinality(Pending) - 1
    BY <1>1, <1>5, PendingShrinks
  <1>7. /\ Cardinality(Processing') = Cardinality(Processing) - 1
        /\ Cardinality(Uncounted') = Cardinality(Uncounted) + 1
    BY <1>3, <1>4, Finite, FS_AddElement, FS_RemoveElement
  <1>8. Len(handled') = Len(handled) + 1
    BY DEF TaskInv, TypeOK
  <1>9. /\ Cardinality(Sending) \in Nat /\ Cardinality(Processing) \in Nat
        /\ Cardinality(Uncounted) \in Nat /\ Cardinality(Pending) \in Nat
        /\ Cardinality(Logged) \in Nat
        /\ Len(logQueue) \in Nat /\ Len(handled) \in Nat /\ stats.queued \in Nat
        /\ stats.dropped \in Nat /\ stats.processed \in Nat /\ stats.errors \in Nat
    BY Finite
  <1> HIDE WorkerGroupAssumption DEF Process
  <1>10. SendsCounted'
    BY <1>1, <1>7, <1>8, <1>9, SMTT(30) DEF CounterInv, SendsCounted
  <1>11. RecordsCounted'
    <2>1. /\ Cardinality(Pending) \in Nat /\ Cardinality(Logged) \in Nat /\ Len(handled) \in Nat
          /\ stats.dropped \in Nat
      BY <1>9
    <2> QED BY <1>1, <1>6, <1>8, <2>1, SMTT(30) DEF CounterInv, RecordsCounted
  <1>12. CallsCounted'
    BY <1>1, <1>7, <1>8, <1>9, SMTT(30) DEF CounterInv, CallsCounted
  <1> QED BY <1>1, <1>10, <1>11, <1>12 DEF CounterInv, EvictsOld

\* processTask counts one outcome of one call.
LEMMA FinishCounts ==
  ASSUME TaskInv, TaskInv', CounterInv, NEW w \in Workers, Finish(w)
  PROVE  CounterInv'
  <1> USE WorkerGroupAssumption DEF Finish, Return, mgrVars, stopVars
  <1> DEFINE t == wk[w].t
  <1>1. /\ UNCHANGED <<sub, logQueue, logged, handled, strategy>> /\ Logged' = Logged
        /\ Sending' = Sending /\ SubmitterHolds' = SubmitterHolds /\ InQueue' = InQueue
    BY DEF Logged, Sending, SubmitterHolds, InQueue
  <1>2. /\ wk[w].at \in {"processed", "errors"} /\ wk'[w].at = "batch"
        /\ \A v \in Workers \ {w} : wk'[v] = wk[v]
    BY DEF TaskInv, TypeOK
  <1>3. Uncounted' = Uncounted \ {w} /\ w \in Uncounted
    BY <1>2 DEF Uncounted
  <1>4. Processing' = Processing /\ w \notin Processing
    BY <1>2 DEF Processing
  <1>5. InFlight' = InFlight
    <2>1. \A v \in Processing : wk'[v].t = wk[v].t
      BY <1>2, <1>4, ProcessingHolds
    <2>3. InFlight = InQueue \cup {sub[s].t : s \in SubmitterHolds} \cup {wk[v].t : v \in Processing}
      BY ProcessingHolds DEF InFlight
    <2>4. InFlight' = InQueue' \cup {sub'[s].t : s \in SubmitterHolds'} \cup {wk'[v].t : v \in Processing'}
      BY ProcessingHoldsNext DEF InFlight
    <2> QED BY <1>1, <1>4, <2>1, <2>3, <2>4
  <1>6. \A u \in InFlight' : content'[u] = content[u]
    <2>1. w \in WorkerHolds
      BY <1>2 DEF TaskInv, TypeOK, TasksHeld, WorkerHolds
    <2>2. t \notin InFlight
      BY <1>4, <2>1, ProcessingHolds DEF InFlight, TaskInv, OneOwner
    <2> QED BY <1>5, <2>2, Finite DEF TaskInv, TypeOK
  <1>7. Pending' = Pending
    BY <1>5, <1>6, PendingStays
  <1>8. Cardinality(Uncounted') = Cardinality(Uncounted) - 1
    BY <1>3, Finite, FS_RemoveElement
  <1>9. /\ stats'.queued = stats.queued /\ stats'.dropped = stats.dropped
        /\ \/ stats'.processed = stats.processed + 1 /\ stats'.errors = stats.errors
           \/ stats'.processed = stats.processed /\ stats'.errors = stats.errors + 1
    BY CountFacts DEF TaskInv, Fields
  <1>10. CallsCounted'
    <2>1. /\ Cardinality(Uncounted) \in Nat /\ Len(handled) \in Nat
          /\ stats.processed \in Nat /\ stats.errors \in Nat
      BY Finite
    <2> HIDE WorkerGroupAssumption DEF Finish
    <2> QED BY <1>1, <1>8, <1>9, <2>1, SMTT(30) DEF CounterInv, CallsCounted
  <1> QED BY <1>1, <1>4, <1>7, <1>9, <1>10 DEF CounterInv, RecordsCounted, SendsCounted, EvictsOld

\* The other steps change nothing that is counted.
LEMMA RestCounts ==
  ASSUME TaskInv, TaskInv', CounterInv, Lifecycle,
         \/ GetWorkerGroup \/ ReleaseShared \/ ReleaseLast \/ StopStep
         \/ \E w \in Workers : BatchEnds(w) \/ Quit(w) \/ Exit(w)
         \/ UNCHANGED vars
  PROVE  CounterInv'
  <1> USE WorkerGroupAssumption DEF mgrVars, stopVars
  <1>1. UNCHANGED <<strategy, content, logQueue, sub, stats, logged, handled>>
    BY DEF GetWorkerGroup, ReleaseShared, ReleaseLast, StopStep, StopCounts, StopReturns,
           StopTimesOut, BatchEnds, Quit, Exit, vars
  <1>2. \A w \in Workers :
          /\ wk'[w].t = wk[w].t
          /\ wk'[w].at = "process" <=> wk[w].at = "process"
          /\ wk'[w].at \in {"processed", "errors"} <=> wk[w].at \in {"processed", "errors"}
    <2>1. CASE GetWorkerGroup
      BY <2>1 DEF GetWorkerGroup, Start, Lifecycle, Idle
    <2>2. CASE ReleaseShared \/ ReleaseLast \/ StopStep \/ UNCHANGED vars
      BY <2>2 DEF ReleaseShared, ReleaseLast, StopStep, StopCounts, StopReturns, StopTimesOut, vars
    <2>3. ASSUME NEW w \in Workers, BatchEnds(w) \/ Quit(w) \/ Exit(w)
          PROVE  /\ \A v \in Workers \ {w} : wk'[v] = wk[v]
                 /\ wk'[w].t = wk[w].t
                 /\ wk[w].at \in {"batch", "select", "quit"}
                 /\ wk'[w].at \in {"select", "quit", "exited"}
      <3>1. CASE BatchEnds(w) BY <3>1 DEF BatchEnds, TaskInv, TypeOK
      <3>2. CASE Quit(w) BY <3>2 DEF Quit, TaskInv, TypeOK
      <3>3. CASE Exit(w) BY <3>3 DEF Exit, TaskInv, TypeOK
      <3> QED BY <2>3, <3>1, <3>2, <3>3
    <2>4. CASE \E w \in Workers : BatchEnds(w) \/ Quit(w) \/ Exit(w)
      BY <2>3, <2>4
    <2> QED BY <2>1, <2>2, <2>4
  <1>3. /\ Logged' = Logged /\ Sending' = Sending /\ SubmitterHolds' = SubmitterHolds
        /\ InQueue' = InQueue
    BY <1>1 DEF Logged, Sending, SubmitterHolds, InQueue
  <1>4. Uncounted' = Uncounted /\ Processing' = Processing /\ WorkerHolds' = WorkerHolds
    BY <1>2 DEF Uncounted, Processing, WorkerHolds
  <1>5. InFlight' = InFlight
    BY <1>1, <1>2, <1>3, <1>4 DEF InFlight, WorkerHolds
  <1>6. Pending' = Pending
    BY <1>1, <1>5, PendingStays
  <1> QED BY <1>1, <1>3, <1>4, <1>6
       DEF CounterInv, RecordsCounted, CallsCounted, SendsCounted, EvictsOld

\* No step leaves the invariant of the counters.
LEMMA NextCounts ==
  ASSUME TaskInv, Lifecycle, CounterInv, [Next]_vars
  PROVE  CounterInv'
  <1>0. TaskInv'
    BY NextTasks
  <1>1. CASE \/ GetWorkerGroup \/ ReleaseShared \/ ReleaseLast \/ StopStep
             \/ \E w \in Workers : BatchEnds(w) \/ Quit(w) \/ Exit(w)
             \/ UNCHANGED vars
    BY <1>0, <1>1, RestCounts
  <1>2. ASSUME NEW s \in Submitters, Handle(s) \/ SubmitStep(s)
        PROVE  CounterInv'
    BY <1>2, HandleCounts, SendCounts, StaysCounts, CountSentCounts, EvictCounts, GivesBackCounts
       DEF SubmitStep
  <1>3. ASSUME NEW w \in Workers, Take(w) \/ Finish(w) \/ Process(w)
        PROVE  CounterInv'
    BY <1>0, <1>3, TakeCounts, FinishCounts, ProcessCounts
  <1> QED BY <1>1, <1>2, <1>3 DEF Next, OneReference, RunStep

\* What is counted says what is checked: the two statements of Accounted.
LEMMA CountsTell ==
  ASSUME TaskInv, CounterInv
  PROVE  Accounted
  <1>1. EveryRecordAccounted
    BY DEF CounterInv, RecordsCounted, CallsCounted, ThreeStrategies, EveryRecordAccounted, Total
  <1>2. CountersReconcile
    <2> SUFFICES ASSUME strategy \in {"drop_new", "block_wait"},
                        \A s \in Submitters : sub[s] = Idle,
                        logQueue = <<>>, WorkerHolds = {}
                 PROVE  /\ stats.queued + stats.dropped = Total
                        /\ stats.processed + stats.errors = stats.queued
      BY DEF CountersReconcile
    <2>1. Sending = {} /\ SubmitterHolds = {}
      BY DEF Sending, SubmitterHolds, Idle
    <2>2. Processing = {} /\ Uncounted = {}
      BY WorkerGroupAssumption DEF WorkerHolds, Processing, Uncounted, TaskInv, TypeOK, TasksHeld
    <2>3. Pending = {}
      BY <2>1, <2>2 DEF Pending, InFlight, InQueue
    <2>4. /\ stats.queued \in Nat /\ stats.dropped \in Nat /\ Len(handled) \in Nat
          /\ stats.processed \in Nat /\ stats.errors \in Nat
      BY Finite
    <2>5. Cardinality({}) = 0 /\ Len(logQueue) = 0
      BY FS_EmptySet
    <2>6. stats.queued = Len(handled)
      BY <2>1, <2>2, <2>4, <2>5 DEF CounterInv, SendsCounted
    <2>7. stats.processed + stats.errors = Len(handled)
      BY <2>2, <2>4, <2>5 DEF CounterInv, CallsCounted
    <2>8. Len(handled) + stats.dropped = Total
      BY <2>3, <2>4, <2>5 DEF CounterInv, RecordsCounted, ThreeStrategies, Total
    <2> QED BY <2>4, <2>6, <2>7, <2>8
  <1> QED BY <1>1, <1>2 DEF Accounted

\* The counters tell the truth about every record at every moment, and about each
\* other in the end, for every strategy (Accounted).
THEOREM GroupCounts == Spec => []Accounted
  <1>1. Init => TaskInv /\ Lifecycle /\ CounterInv
    BY InitTasks, InitCounts
  <1>2. TaskInv /\ Lifecycle /\ CounterInv /\ [Next]_vars => (TaskInv /\ Lifecycle /\ CounterInv)'
    BY NextTasks, NextCounts
  <1>3. TaskInv /\ Lifecycle /\ CounterInv => Accounted
    BY CountsTell
  <1> QED BY <1>1, <1>2, <1>3, PTL DEF Spec

-------------------------------------------------------------------------------
(* The order of the records, with one worker.                              *)

\* The tasks at the places of the queue and with the worker are out of the pool.
LEMMA Routed ==
  ASSUME TaskInv
  PROVE  /\ \A j \in DOMAIN logQueue : logQueue[j] \in Tasks \ pool
         /\ \A w \in Processing : wk[w].t \in Tasks \ pool
         /\ \A s \in SubmitterHolds : sub[s].t \in Tasks \ pool
         /\ SubmitterHolds \subseteq Submitters
         /\ DOMAIN logQueue = 1 .. Len(logQueue) /\ DOMAIN handled = 1 .. Len(handled)
         /\ Len(logQueue) \in Nat /\ Len(handled) \in Nat
  <1>1. DOMAIN logQueue = 1 .. Len(logQueue) /\ DOMAIN handled = 1 .. Len(handled)
        /\ Len(logQueue) \in Nat /\ Len(handled) \in Nat
    BY LenProperties DEF TaskInv, TypeOK
  <1>2. \A j \in DOMAIN logQueue : logQueue[j] \in InFlight
    BY DEF InFlight, InQueue
  <1>3. \A w \in Processing : wk[w].t \in InFlight
    BY ProcessingHolds DEF InFlight
  <1>4. \A s \in SubmitterHolds : sub[s].t \in InFlight
    BY DEF InFlight
  <1> QED BY <1>1, <1>2, <1>3, <1>4, Finite DEF SubmitterHolds

\* A new record is later than all its goroutine has logged, wherever they are.
LEMMA HandleOrders ==
  ASSUME TaskInv, OrderInv, NEW s \in Submitters, Handle(s)
  PROVE  OrderInv'
  <1> USE WorkerGroupAssumption DEF Handle, mgrVars, stopVars
  <1> PICK t \in pool :
        /\ content' = [content EXCEPT ![t] = <<s, logged[s] + 1>>]
        /\ sub' = [sub EXCEPT ![s] = [at |-> "submit", t |-> t]]
    OBVIOUS
  <1>1. /\ UNCHANGED <<logQueue, wk, handled>> /\ Processing' = Processing
        /\ logged'[s] = logged[s] + 1 /\ \A q \in Submitters \ {s} : logged'[q] = logged[q]
        /\ logged[s] \in Nat
    BY DEF Processing, TaskInv, TypeOK
  <1>2. SubmitterHolds' = SubmitterHolds \cup {s} /\ s \notin SubmitterHolds
        /\ sub'[s].t = t /\ \A q \in SubmitterHolds : sub'[q].t = sub[q].t
    BY DEF TaskInv, TypeOK, SubmitterHolds, Idle
  <1>3. content'[t] = <<s, logged[s] + 1>> /\ \A u \in Tasks \ pool : content'[u] = content[u]
    BY DEF TaskInv, TypeOK
  <1>4. /\ \A j \in DOMAIN logQueue : content'[logQueue[j]] = content[logQueue[j]]
        /\ \A w \in Processing : content'[wk[w].t] = content[wk[w].t]
        /\ \A q \in SubmitterHolds : content'[sub[q].t] = content[sub[q].t]
    BY <1>3, Routed
  <1>5. Logged \subseteq Logged'
    BY <1>1, SMTT(30) DEF Logged, Records, TaskInv, TypeOK
  <1>6. \A r \in Logged : Earlier(r, <<s, logged[s] + 1>>)
    BY <1>1 DEF Logged, Earlier, Records, TaskInv, TypeOK
  <1>7. /\ \A j \in DOMAIN logQueue : content[logQueue[j]] \in Logged
        /\ \A w \in Processing : content[wk[w].t] \in Logged
    BY Routed DEF TaskInv, ContentsDiffer
  <1> HIDE DEF Handle
  <1>8. /\ HandledBefore(<<s, logged[s] + 1>>) /\ ProcessingBefore(<<s, logged[s] + 1>>)
        /\ QueuedBefore(<<s, logged[s] + 1>>)
    BY <1>6, <1>7 DEF HandledBefore, ProcessingBefore, QueuedBefore, OrderInv
  <1>9. \A q \in SubmitterHolds' :
          /\ content'[sub'[q].t] = <<q, logged'[q]>>
          /\ HandledBefore(<<q, logged'[q]>>)
          /\ ProcessingBefore(<<q, logged'[q]>>)
          /\ QueuedBefore(<<q, logged'[q]>>)
    <2>1. \A q \in SubmitterHolds : q # s /\ q \in Submitters /\ logged'[q] = logged[q]
      BY <1>1, <1>2, Routed
    <2>2. ASSUME NEW q \in SubmitterHolds
          PROVE  /\ content'[sub'[q].t] = <<q, logged'[q]>>
                 /\ HandledBefore(<<q, logged'[q]>>)
                 /\ ProcessingBefore(<<q, logged'[q]>>)
                 /\ QueuedBefore(<<q, logged'[q]>>)
      <3>1. logged'[q] = logged[q] /\ sub'[q].t = sub[q].t
        BY <1>2, <2>1
      <3> QED BY <3>1, <1>4, SMTT(30) DEF OrderInv
    <2>3. content'[sub'[s].t] = <<s, logged'[s]>> /\ logged'[s] = logged[s] + 1
      BY <1>1, <1>2, <1>3
    <2> QED BY <1>2, <1>8, <2>2, <2>3
  <1>10. /\ \A i \in DOMAIN handled' : handled'[i] \in Logged'
         /\ \A i, j \in DOMAIN handled' : i < j => Earlier(handled'[i], handled'[j])
    BY <1>1, <1>5 DEF OrderInv
  <1>11. /\ \A w \in Processing' : HandledBefore(content[wk[w].t])'
         /\ \A j \in DOMAIN logQueue' :
              HandledBefore(content[logQueue[j]])' /\ ProcessingBefore(content[logQueue[j]])'
         /\ \A i, j \in DOMAIN logQueue' :
              i < j => Earlier(content'[logQueue'[i]], content'[logQueue'[j]])
    BY <1>1, <1>4 DEF OrderInv, HandledBefore, ProcessingBefore
  <1>12. \A q \in SubmitterHolds' :
           /\ content'[sub'[q].t] = <<q, logged'[q]>>
           /\ HandledBefore(<<q, logged[q]>>)'
           /\ ProcessingBefore(<<q, logged[q]>>)'
           /\ QueuedBefore(<<q, logged[q]>>)'
    <2>1. \A q \in SubmitterHolds' : HandledBefore(<<q, logged[q]>>)'
      BY <1>1, <1>9 DEF HandledBefore
    <2>2. \A q \in SubmitterHolds' : ProcessingBefore(<<q, logged[q]>>)'
      <3>1. \A q \in SubmitterHolds' : \A w \in Processing :
              Earlier(content[wk[w].t], <<q, logged'[q]>>)
        BY <1>9 DEF ProcessingBefore
      <3>2. \A q \in SubmitterHolds' : \A w \in Processing' :
              Earlier(content'[wk'[w].t], <<q, logged'[q]>>)
        <4>1. wk' = wk /\ Processing' = Processing
          BY <1>1
        <4> QED BY <1>4, <3>1, <4>1, Zenon
      <3> QED BY <3>2 DEF ProcessingBefore, Earlier
    <2>3. \A q \in SubmitterHolds' : QueuedBefore(<<q, logged[q]>>)'
      <3>1. \A q \in SubmitterHolds' : \A j \in DOMAIN logQueue :
              Earlier(content[logQueue[j]], <<q, logged'[q]>>)
        BY <1>9 DEF QueuedBefore
      <3>2. \A q \in SubmitterHolds' : \A j \in DOMAIN logQueue' :
              Earlier(content'[logQueue'[j]], <<q, logged'[q]>>)
        <4>1. logQueue' = logQueue
          BY <1>1
        <4> QED BY <1>4, <3>1, <4>1, Zenon
      <3> QED BY <3>2 DEF QueuedBefore, Earlier
    <2> QED BY <1>9, <2>1, <2>2, <2>3
  <1> QED BY <1>10, <1>11, <1>12 DEF OrderInv

\* A record that is sent goes behind the queue, and no other goroutine has one of
\* its submitter.
LEMMA SendOrders ==
  ASSUME TaskInv, OrderInv, NEW s \in Submitters, Send(s)
  PROVE  OrderInv'
  <1> USE WorkerGroupAssumption DEF Send, mgrVars, stopVars
  <1>0. sub[s].t \in Tasks /\ logQueue \in Seq(Tasks)
    BY DEF TaskInv, TypeOK, TasksHeld
  <1>1. /\ UNCHANGED <<wk, handled, content, logged>> /\ Processing' = Processing
        /\ Logged' = Logged
    BY DEF Processing, Logged
  <1>2. /\ SubmitterHolds' = SubmitterHolds \ {s} /\ s \in SubmitterHolds
        /\ \A q \in SubmitterHolds' : sub'[q].t = sub[q].t
    BY <1>0 DEF TaskInv, TypeOK, SubmitterHolds
  <1>3. /\ DOMAIN logQueue' = 1 .. Len(logQueue) + 1 /\ Len(logQueue) \in Nat
        /\ DOMAIN logQueue = 1 .. Len(logQueue)
        /\ \A j \in 1 .. Len(logQueue) : logQueue'[j] = logQueue[j]
        /\ logQueue'[Len(logQueue) + 1] = sub[s].t
    BY <1>0, AppendFacts
  <1>4. content[sub[s].t] = <<s, logged[s]>>
    BY <1>2 DEF OrderInv
  <1> HIDE DEF Send
  <1>5. \A j \in DOMAIN logQueue' :
          HandledBefore(content[logQueue'[j]]) /\ ProcessingBefore(content[logQueue'[j]])
    <2>1. HandledBefore(<<s, logged[s]>>) /\ ProcessingBefore(<<s, logged[s]>>)
      BY <1>2 DEF OrderInv
    <2>2. ASSUME NEW j \in DOMAIN logQueue'
          PROVE  HandledBefore(content[logQueue'[j]]) /\ ProcessingBefore(content[logQueue'[j]])
      <3>1. CASE j = Len(logQueue) + 1 BY <1>3, <1>4, <2>1, <3>1
      <3>2. CASE j # Len(logQueue) + 1
        <4>1. j \in DOMAIN logQueue /\ logQueue'[j] = logQueue[j] BY <1>3, <3>2
        <4> QED BY <4>1 DEF OrderInv
      <3> QED BY <3>1, <3>2
    <2> QED BY <2>2
  <1>6. \A i, j \in DOMAIN logQueue' :
          i < j => Earlier(content[logQueue'[i]], content[logQueue'[j]])
    <2> SUFFICES ASSUME NEW i \in DOMAIN logQueue', NEW j \in DOMAIN logQueue', i < j
                 PROVE  Earlier(content[logQueue'[i]], content[logQueue'[j]])
      OBVIOUS
    <2>1. i \in DOMAIN logQueue /\ logQueue'[i] = logQueue[i]
      BY <1>3
    <2>2. CASE j = Len(logQueue) + 1
      BY <1>2, <1>3, <1>4, <2>1, <2>2 DEF OrderInv, QueuedBefore
    <2>3. CASE j # Len(logQueue) + 1
      <3>1. j \in DOMAIN logQueue /\ logQueue'[j] = logQueue[j] BY <1>3, <2>3
      <3> QED BY <2>1, <3>1 DEF OrderInv
    <2> QED BY <2>2, <2>3
  <1>7. \A q \in SubmitterHolds' : \A j \in DOMAIN logQueue' :
          Earlier(content[logQueue'[j]], <<q, logged[q]>>)
    <2>1. \A q \in SubmitterHolds' : Earlier(<<s, logged[s]>>, <<q, logged[q]>>)
      BY <1>2 DEF Earlier
    <2> QED BY <1>2, <1>3, <1>4, <2>1, SMTT(30) DEF OrderInv, QueuedBefore
  <1> QED BY <1>1, <1>2, <1>5, <1>6, <1>7 DEF OrderInv, HandledBefore, ProcessingBefore, QueuedBefore

\* A task that leaves the way of the records disturbs no other.
LEMMA LeavesOrders ==
  ASSUME TaskInv, OrderInv, UNCHANGED <<handled, logged>>, Processing' = Processing,
         \A w \in Processing : wk'[w].t = wk[w].t,
         \A w \in Processing : content'[wk[w].t] = content[wk[w].t],
         NEW n \in Nat, Len(logQueue') \in Nat, DOMAIN logQueue' = 1 .. Len(logQueue'),
         Len(logQueue') = Len(logQueue) - n,
         \A j \in DOMAIN logQueue' :
           logQueue'[j] = logQueue[j + n] /\ content'[logQueue'[j]] = content[logQueue'[j]],
         SubmitterHolds' \subseteq SubmitterHolds,
         \A s \in SubmitterHolds' :
           sub'[s].t = sub[s].t /\ content'[sub[s].t] = content[sub[s].t]
  PROVE  OrderInv'
  <1>1. Logged' = Logged
    BY DEF Logged
  <1>2. \A j \in DOMAIN logQueue' : j + n \in DOMAIN logQueue
    BY Routed
  <1>3. \A j \in DOMAIN logQueue' : content'[logQueue'[j]] = content[logQueue[j + n]]
    OBVIOUS
  <1>4. \A j \in DOMAIN logQueue' :
          HandledBefore(content[logQueue[j + n]]) /\ ProcessingBefore(content[logQueue[j + n]])
    BY <1>2 DEF OrderInv
  <1>5. \A i, j \in DOMAIN logQueue' :
          i < j => Earlier(content[logQueue[i + n]], content[logQueue[j + n]])
    BY <1>2, Routed DEF OrderInv
  <1>6. \A s \in SubmitterHolds' : \A j \in DOMAIN logQueue' :
          Earlier(content[logQueue[j + n]], <<s, logged[s]>>)
    BY <1>2 DEF OrderInv, QueuedBefore
  <1>7. /\ \A i \in DOMAIN handled' : handled'[i] \in Logged'
        /\ \A i, j \in DOMAIN handled' : i < j => Earlier(handled'[i], handled'[j])
        /\ \A w \in Processing' : HandledBefore(content[wk[w].t])'
    BY <1>1 DEF OrderInv, HandledBefore
  <1>8. \A j \in DOMAIN logQueue' :
          HandledBefore(content[logQueue[j]])' /\ ProcessingBefore(content[logQueue[j]])'
    BY <1>3, <1>4, ZenonT(30) DEF HandledBefore, ProcessingBefore
  <1>9. \A i, j \in DOMAIN logQueue' :
          i < j => Earlier(content'[logQueue'[i]], content'[logQueue'[j]])
    BY <1>3, <1>5
  <1>10. \A s \in SubmitterHolds' :
           /\ content'[sub'[s].t] = <<s, logged'[s]>>
           /\ HandledBefore(<<s, logged[s]>>)'
           /\ ProcessingBefore(<<s, logged[s]>>)'
           /\ QueuedBefore(<<s, logged[s]>>)'
    <2>1. \A s \in SubmitterHolds' : HandledBefore(<<s, logged[s]>>)'
      BY DEF OrderInv, HandledBefore
    <2>2. \A s \in SubmitterHolds' : ProcessingBefore(<<s, logged[s]>>)'
      BY SMTT(30) DEF OrderInv, ProcessingBefore
    <2>3. \A s \in SubmitterHolds' : QueuedBefore(<<s, logged[s]>>)'
      BY <1>3, <1>6 DEF QueuedBefore
    <2>4. \A s \in SubmitterHolds' : content'[sub'[s].t] = <<s, logged'[s]>>
      BY DEF OrderInv
    <2> QED BY <2>1, <2>2, <2>3, <2>4
  <1> QED BY <1>7, <1>8, <1>9, <1>10 DEF OrderInv

\* Without its head the queue is in order.
LEMMA EvictOrders ==
  ASSUME TaskInv, OrderInv, NEW s \in Submitters, Evict(s)
  PROVE  OrderInv'
  <1> USE WorkerGroupAssumption DEF Evict, Evicted, Return, At, mgrVars, stopVars
  <1> DEFINE h == Head(logQueue)
  <1>1. UNCHANGED <<wk, handled, logged>> /\ Processing' = Processing
    BY DEF Processing
  <1>2. /\ logQueue' \in Seq(Tasks) /\ Len(logQueue') = Len(logQueue) - 1
        /\ Len(logQueue) \in Nat /\ Len(logQueue) >= 1
        /\ DOMAIN logQueue' = 1 .. Len(logQueue) - 1
        /\ \A j \in DOMAIN logQueue' : logQueue'[j] = logQueue[j + 1]
        /\ h \in Tasks /\ InQueue' = InQueue \ {h}
        /\ \A q \in SubmitterHolds : sub[q].t # h
        /\ \A w \in WorkerHolds : wk[w].t # h
    BY QueueLosesHead
  <1>3. \A u \in Tasks \ {h} : content'[u] = content[u]
    BY DEF TaskInv, TypeOK
  <1>4. \A q \in Submitters : sub'[q].t = sub[q].t
    BY DEF TaskInv, TypeOK
  <1>5. SubmitterHolds' = SubmitterHolds
    BY <1>4 DEF SubmitterHolds
  <1>6. \A j \in DOMAIN logQueue' : logQueue'[j] \in Tasks \ {h}
    <2>1. \A j \in DOMAIN logQueue' : logQueue'[j] \in InQueue'
      BY DEF InQueue
    <2>2. InQueue' \subseteq Tasks
      BY <1>2, Routed DEF InQueue
    <2> QED BY <1>2, <2>1, <2>2
  <1>7. \A w \in Processing : wk[w].t \in Tasks \ {h}
    BY <1>2, Routed, ProcessingHolds
  <1>8. \A q \in SubmitterHolds : sub[q].t \in Tasks \ {h} /\ q \in Submitters
    BY <1>2, Routed, SMTT(30)
  <1> HIDE DEF Evict
  <1> QED BY <1>1, <1>2, <1>3, <1>4, <1>5, <1>6, <1>7, <1>8, LeavesOrders

\* A dropped record leaves the others in order.
LEMMA GivesBackOrders ==
  ASSUME TaskInv, OrderInv, NEW s \in Submitters, Drop(s) \/ Forget(s)
  PROVE  OrderInv'
  <1> USE WorkerGroupAssumption DEF Return, Idle, mgrVars, stopVars
  <1> DEFINE t == sub[s].t
  <1>1. /\ UNCHANGED <<wk, handled, logged, logQueue>> /\ Processing' = Processing
        /\ content' = [content EXCEPT ![t] = None]
        /\ sub' = [sub EXCEPT ![s] = [at |-> "idle", t |-> None]]
        /\ t \in Tasks
    BY DEF Drop, Forget, Processing, TaskInv, TasksHeld
  <1>2. \A u \in Tasks \ {t} : content'[u] = content[u]
    BY <1>1 DEF TaskInv, TypeOK
  <1>3. /\ s \in SubmitterHolds /\ SubmitterHolds' = SubmitterHolds \ {s}
        /\ \A q \in SubmitterHolds' : sub'[q].t = sub[q].t /\ sub[q].t \in Tasks \ {t}
    <2>1. s \in SubmitterHolds /\ SubmitterHolds' = SubmitterHolds \ {s}
          /\ \A q \in SubmitterHolds' : sub'[q].t = sub[q].t
      BY <1>1 DEF SubmitterHolds, TaskInv, TypeOK
    <2> QED BY <2>1, Routed DEF TaskInv, OneOwner
  <1>4. \A w \in Processing : wk[w].t \in Tasks \ {t}
    BY <1>3, Routed, ProcessingHolds DEF TaskInv, OneOwner
  <1>5. \A j \in DOMAIN logQueue : logQueue[j] \in Tasks \ {t}
    BY <1>3, Routed DEF TaskInv, OneOwner, InQueue
  <1>6. /\ 0 \in Nat /\ Len(logQueue') \in Nat /\ DOMAIN logQueue' = 1 .. Len(logQueue')
        /\ Len(logQueue') = Len(logQueue) - 0
        /\ \A j \in DOMAIN logQueue' : logQueue'[j] = logQueue[j + 0]
    BY <1>1, Routed
  <1> HIDE DEF Return
  <1> QED BY <1>1, <1>2, <1>3, <1>4, <1>5, <1>6, LeavesOrders, ZenonT(30)

\* The worker takes the oldest record of the queue, and has no other.
LEMMA TakeOrders ==
  ASSUME TaskInv, OrderInv, Cardinality(Workers) = 1, NEW w \in Workers, Take(w)
  PROVE  OrderInv'
  <1> USE WorkerGroupAssumption DEF mgrVars, stopVars
  <1> DEFINE h == Head(logQueue)
  <1>1. /\ UNCHANGED <<sub, content, logged, handled>> /\ Logged' = Logged
        /\ SubmitterHolds' = SubmitterHolds
    BY DEF Take, Logged, SubmitterHolds
  <1>2. wk'[w].t = h /\ wk'[w].at = "process"
    BY DEF Take, TaskInv, TypeOK
  <1>3. Processing' = {w}
    <2>1. PICK x : Workers = {x}
      BY FS_Singleton
    <2> QED BY <1>2, <2>1 DEF Processing
  <1>4. /\ Len(logQueue) \in Nat /\ Len(logQueue) >= 1 /\ 1 \in DOMAIN logQueue
        /\ DOMAIN logQueue = 1 .. Len(logQueue)
        /\ DOMAIN logQueue' = 1 .. Len(logQueue) - 1
        /\ \A j \in DOMAIN logQueue' : logQueue'[j] = logQueue[j + 1]
        /\ h = logQueue[1]
    BY QueueLosesHead DEF Take
  <1>5. \A j \in DOMAIN logQueue' : j + 1 \in DOMAIN logQueue /\ j + 1 > 1
    BY <1>4
  <1>6. /\ \A i \in DOMAIN handled' : handled'[i] \in Logged'
        /\ \A i, j \in DOMAIN handled' : i < j => Earlier(handled'[i], handled'[j])
    BY <1>1 DEF OrderInv
  <1>7. \A v \in Processing' : HandledBefore(content[wk[v].t])'
    <2>1. HandledBefore(content[h])
      BY <1>4 DEF OrderInv
    <2> QED BY <1>1, <1>2, <1>3, <2>1 DEF HandledBefore
  <1>8. \A j \in DOMAIN logQueue' :
          HandledBefore(content[logQueue[j]])' /\ ProcessingBefore(content[logQueue[j]])'
    <2>1. \A j \in DOMAIN logQueue' :
            HandledBefore(content[logQueue[j + 1]]) /\ Earlier(content[h], content[logQueue[j + 1]])
      BY <1>4, <1>5 DEF OrderInv
    <2> QED BY <1>1, <1>2, <1>3, <1>4, <2>1 DEF HandledBefore, ProcessingBefore
  <1>9. \A i, j \in DOMAIN logQueue' :
          i < j => Earlier(content'[logQueue'[i]], content'[logQueue'[j]])
    BY <1>1, <1>4, <1>5 DEF OrderInv
  <1>10. \A s \in SubmitterHolds' :
           /\ content'[sub'[s].t] = <<s, logged'[s]>>
           /\ HandledBefore(<<s, logged[s]>>)'
           /\ ProcessingBefore(<<s, logged[s]>>)'
           /\ QueuedBefore(<<s, logged[s]>>)'
    <2>1. \A s \in SubmitterHolds : \A j \in DOMAIN logQueue : Earlier(content[logQueue[j]], <<s, logged[s]>>)
      BY DEF OrderInv, QueuedBefore
    <2>2. \A s \in SubmitterHolds' : HandledBefore(<<s, logged[s]>>)'
      BY <1>1 DEF OrderInv, HandledBefore
    <2>3. \A s \in SubmitterHolds' : ProcessingBefore(<<s, logged[s]>>)'
      BY <1>1, <1>2, <1>3, <1>4, <2>1 DEF ProcessingBefore
    <2>4. \A s \in SubmitterHolds' : QueuedBefore(<<s, logged[s]>>)'
      BY <1>1, <1>4, <1>5, <2>1 DEF QueuedBefore
    <2>5. \A s \in SubmitterHolds' : content'[sub'[s].t] = <<s, logged'[s]>>
      BY <1>1 DEF OrderInv
    <2> QED BY <2>2, <2>3, <2>4, <2>5
  <1> QED BY <1>6, <1>7, <1>8, <1>9, <1>10 DEF OrderInv

\* The record the worker has is later than all that were handled and earlier than
\* all others.
LEMMA ProcessOrders ==
  ASSUME TaskInv, OrderInv, Cardinality(Workers) = 1, NEW w \in Workers, Process(w)
  PROVE  OrderInv'
  <1> USE WorkerGroupAssumption DEF mgrVars, stopVars
  <1> DEFINE r == content[wk[w].t]
  <1>1. /\ UNCHANGED <<sub, content, logQueue, logged>> /\ Logged' = Logged
        /\ SubmitterHolds' = SubmitterHolds
    BY DEF Process, Logged, SubmitterHolds
  <1>2. Processing = {w} /\ Processing' = {}
    <2>1. PICK x : Workers = {x}
      BY FS_Singleton
    <2>2. wk[w].at = "process" /\ wk'[w].at # "process"
      BY DEF Process, TaskInv, TypeOK
    <2> QED BY <2>1, <2>2 DEF Processing
  <1>3. r \in Logged
    BY <1>2, Routed DEF TaskInv, ContentsDiffer
  <1>4. /\ Len(handled) \in Nat /\ DOMAIN handled = 1 .. Len(handled)
        /\ DOMAIN handled' = 1 .. Len(handled) + 1
        /\ \A i \in 1 .. Len(handled) : handled'[i] = handled[i]
        /\ handled'[Len(handled) + 1] = r
    <2>1. r \in Records /\ handled \in Seq(Records) /\ handled' = Append(handled, r)
      BY <1>3 DEF Logged, Process, TaskInv, TypeOK
    <2> QED BY <2>1, AppendFacts
  <1>5. \A i \in DOMAIN handled' : handled'[i] \in Logged'
    BY <1>1, <1>3, <1>4 DEF OrderInv
  <1>6. \A i, j \in DOMAIN handled' : i < j => Earlier(handled'[i], handled'[j])
    <2> SUFFICES ASSUME NEW i \in DOMAIN handled', NEW j \in DOMAIN handled', i < j
                 PROVE  Earlier(handled'[i], handled'[j])
      OBVIOUS
    <2>1. i \in DOMAIN handled /\ handled'[i] = handled[i]
      BY <1>4
    <2>2. CASE j = Len(handled) + 1
      BY <1>2, <1>4, <2>1, <2>2 DEF OrderInv, HandledBefore
    <2>3. CASE j # Len(handled) + 1
      <3>1. j \in DOMAIN handled /\ handled'[j] = handled[j] BY <1>4, <2>3
      <3> QED BY <2>1, <3>1 DEF OrderInv
    <2> QED BY <2>2, <2>3
  <1>7. ASSUME NEW q, HandledBefore(q), ProcessingBefore(q)
        PROVE  \A i \in DOMAIN handled' : Earlier(handled'[i], q)
    <2> TAKE i \in DOMAIN handled'
    <2>1. CASE i = Len(handled) + 1
      BY <1>2, <1>4, <1>7, <2>1 DEF ProcessingBefore
    <2>2. CASE i # Len(handled) + 1
      <3>1. i \in DOMAIN handled /\ handled'[i] = handled[i] BY <1>4, <2>2
      <3> QED BY <1>7, <3>1 DEF HandledBefore
    <2> QED BY <2>1, <2>2
  <1>8. \A j \in DOMAIN logQueue' :
          HandledBefore(content[logQueue[j]])' /\ ProcessingBefore(content[logQueue[j]])'
    <2>1. \A j \in DOMAIN logQueue : \A i \in DOMAIN handled' : Earlier(handled'[i], content[logQueue[j]])
      BY <1>7 DEF OrderInv
    <2> QED BY <1>1, <1>2, <2>1 DEF HandledBefore, ProcessingBefore
  <1>9. \A i, j \in DOMAIN logQueue' :
          i < j => Earlier(content'[logQueue'[i]], content'[logQueue'[j]])
    BY <1>1 DEF OrderInv
  <1>10. \A s \in SubmitterHolds' :
           /\ content'[sub'[s].t] = <<s, logged'[s]>>
           /\ HandledBefore(<<s, logged[s]>>)'
           /\ ProcessingBefore(<<s, logged[s]>>)'
           /\ QueuedBefore(<<s, logged[s]>>)'
    <2>1. \A s \in SubmitterHolds : \A i \in DOMAIN handled' : Earlier(handled'[i], <<s, logged[s]>>)
      BY <1>7 DEF OrderInv
    <2>2. \A s \in SubmitterHolds' : HandledBefore(<<s, logged[s]>>)'
      BY <1>1, <2>1 DEF HandledBefore
    <2>3. \A s \in SubmitterHolds' : ProcessingBefore(<<s, logged[s]>>)'
      BY <1>2 DEF ProcessingBefore
    <2>4. \A s \in SubmitterHolds' : QueuedBefore(<<s, logged[s]>>)'
      BY <1>1 DEF OrderInv, QueuedBefore
    <2>5. \A s \in SubmitterHolds' : content'[sub'[s].t] = <<s, logged'[s]>>
      BY <1>1, ZenonT(30) DEF OrderInv
    <2> QED BY <2>2, <2>3, <2>4, <2>5
  <1> QED BY <1>2, <1>5, <1>6, <1>8, <1>9, <1>10 DEF OrderInv

\* A handled record's task leaves the others in order.
LEMMA FinishOrders ==
  ASSUME TaskInv, OrderInv, NEW w \in Workers, Finish(w)
  PROVE  OrderInv'
  <1> USE WorkerGroupAssumption DEF Return, mgrVars, stopVars
  <1> DEFINE t == wk[w].t
  <1>1. /\ UNCHANGED <<sub, handled, logged, logQueue>>
        /\ content' = [content EXCEPT ![t] = None]
        /\ t \in Tasks /\ w \in WorkerHolds /\ SubmitterHolds' = SubmitterHolds
    BY DEF Finish, TaskInv, TypeOK, TasksHeld, WorkerHolds, SubmitterHolds
  <1>2. \A u \in Tasks \ {t} : content'[u] = content[u]
    BY <1>1 DEF TaskInv, TypeOK
  <1>3. /\ \A v \in Workers \ {w} : wk'[v] = wk[v]
        /\ wk[w].at # "process" /\ wk'[w].at # "process"
    BY DEF Finish, TaskInv, TypeOK
  <1>4. Processing' = Processing /\ w \notin Processing
    BY <1>3 DEF Processing
  <1>5. \A v \in Processing : wk'[v].t = wk[v].t /\ wk[v].t \in Tasks \ {t}
    <2>1. \A v \in Processing : v \in WorkerHolds /\ v # w /\ v \in Workers
      BY <1>4, ProcessingHolds
    <2> QED BY <1>1, <1>3, <2>1, Routed DEF TaskInv, OneOwner
  <1>6. \A s \in SubmitterHolds : sub[s].t \in Tasks \ {t}
    BY <1>1, Routed DEF TaskInv, OneOwner
  <1>7. \A j \in DOMAIN logQueue : logQueue[j] \in Tasks \ {t}
    BY <1>1, Routed DEF TaskInv, OneOwner, InQueue
  <1>8. /\ 0 \in Nat /\ Len(logQueue') \in Nat /\ DOMAIN logQueue' = 1 .. Len(logQueue')
        /\ Len(logQueue') = Len(logQueue) - 0
        /\ \A j \in DOMAIN logQueue' : logQueue'[j] = logQueue[j + 0]
    BY <1>1, Routed, SMTT(30)
  <1> HIDE DEF Return
  <1> QED BY <1>1, <1>2, <1>4, <1>5, <1>6, <1>7, <1>8, LeavesOrders, ZenonT(30)

\* The other steps move no record.
LEMMA RestOrders ==
  ASSUME TaskInv, OrderInv, Lifecycle,
         \/ GetWorkerGroup \/ ReleaseShared \/ ReleaseLast \/ StopStep
         \/ \E w \in Workers : BatchEnds(w) \/ Quit(w) \/ Exit(w)
         \/ \E s \in Submitters : SendFails(s) \/ EvictFails(s) \/ CountSent(s)
         \/ UNCHANGED vars
  PROVE  OrderInv'
  <1> USE WorkerGroupAssumption DEF mgrVars, stopVars
  <1>1. UNCHANGED <<content, logQueue, logged, handled>>
    BY DEF GetWorkerGroup, ReleaseShared, ReleaseLast, StopStep, StopCounts, StopReturns,
           StopTimesOut, BatchEnds, Quit, Exit, SendFails, EvictFails, CountSent, vars
  <1>2. \A w \in Workers :
          wk'[w].t = wk[w].t /\ (wk'[w].at = "process" <=> wk[w].at = "process")
    <2>1. CASE GetWorkerGroup
      BY <2>1 DEF GetWorkerGroup, Start, Lifecycle, Idle
    <2>2. CASE \/ ReleaseShared \/ ReleaseLast \/ StopStep \/ UNCHANGED vars
               \/ \E s \in Submitters : SendFails(s) \/ EvictFails(s) \/ CountSent(s)
      BY <2>2 DEF ReleaseShared, ReleaseLast, StopStep, StopCounts, StopReturns, StopTimesOut,
                  SendFails, EvictFails, CountSent, vars
    <2>3. ASSUME NEW w \in Workers, BatchEnds(w) \/ Quit(w) \/ Exit(w)
          PROVE  /\ \A v \in Workers \ {w} : wk'[v] = wk[v]
                 /\ wk'[w].t = wk[w].t
                 /\ wk[w].at # "process" /\ wk'[w].at # "process"
      <3>1. CASE BatchEnds(w) BY <3>1 DEF BatchEnds, TaskInv, TypeOK
      <3>2. CASE Quit(w) BY <3>2 DEF Quit, TaskInv, TypeOK
      <3>3. CASE Exit(w) BY <3>3 DEF Exit, TaskInv, TypeOK
      <3> QED BY <2>3, <3>1, <3>2, <3>3
    <2>4. CASE \E w \in Workers : BatchEnds(w) \/ Quit(w) \/ Exit(w)
      BY <2>3, <2>4
    <2> QED BY <2>1, <2>2, <2>4
  <1>3. \A s \in Submitters : sub'[s].t = sub[s].t
    <2>1. CASE \/ GetWorkerGroup \/ ReleaseShared \/ ReleaseLast \/ StopStep \/ UNCHANGED vars
               \/ \E w \in Workers : BatchEnds(w) \/ Quit(w) \/ Exit(w)
      BY <2>1 DEF GetWorkerGroup, ReleaseShared, ReleaseLast, StopStep, StopCounts, StopReturns,
                  StopTimesOut, BatchEnds, Quit, Exit, vars
    <2>2. ASSUME NEW s \in Submitters, SendFails(s) \/ EvictFails(s)
          PROVE  \A q \in Submitters : sub'[q].t = sub[q].t
      <3>1. PICK at \in {"drop", "evict"} : sub' = [sub EXCEPT ![s].at = at]
        BY <2>2 DEF SendFails, EvictFails, At
      <3> QED BY <3>1 DEF TaskInv, TypeOK
    <2>3. ASSUME NEW s \in Submitters, CountSent(s)
          PROVE  \A q \in Submitters : sub'[q].t = sub[q].t
      BY <2>3, ZenonT(30) DEF CountSent, Idle, TaskInv, TypeOK, TasksHeld
    <2> QED BY <2>1, <2>2, <2>3
  <1>4. Processing' = Processing /\ SubmitterHolds' = SubmitterHolds
    BY <1>2, <1>3 DEF Processing, SubmitterHolds
  <1>5. Processing \subseteq Workers /\ SubmitterHolds \subseteq Submitters
    BY DEF Processing, SubmitterHolds
  <1>6. /\ 0 \in Nat /\ Len(logQueue') \in Nat /\ DOMAIN logQueue' = 1 .. Len(logQueue')
        /\ Len(logQueue') = Len(logQueue) - 0
        /\ \A j \in DOMAIN logQueue' : logQueue'[j] = logQueue[j + 0]
    BY <1>1, Routed
  <1> QED BY <1>1, <1>2, <1>3, <1>4, <1>5, <1>6, LeavesOrders, ZenonT(30)

\* There is no record yet.
LEMMA InitOrders == Init => OrderInv
  <1> SUFFICES ASSUME Init PROVE OrderInv
    OBVIOUS
  <1>1. Processing = {} /\ SubmitterHolds = {} /\ DOMAIN handled = {} /\ DOMAIN logQueue = {}
    BY DEF Init, Idle, Processing, SubmitterHolds
  <1> QED BY <1>1 DEF OrderInv

\* No step of a group with one worker leaves the invariant of the order.
LEMMA NextOrders ==
  ASSUME TaskInv, Lifecycle, OrderInv, Cardinality(Workers) = 1, [Next]_vars
  PROVE  OrderInv'
  <1>1. CASE \/ GetWorkerGroup \/ ReleaseShared \/ ReleaseLast \/ StopStep
             \/ \E w \in Workers : BatchEnds(w) \/ Quit(w) \/ Exit(w)
             \/ \E s \in Submitters : SendFails(s) \/ EvictFails(s) \/ CountSent(s)
             \/ UNCHANGED vars
    BY <1>1, RestOrders
  <1>2. ASSUME NEW s \in Submitters, Handle(s) \/ Send(s) \/ Evict(s) \/ Drop(s) \/ Forget(s)
        PROVE  OrderInv'
    BY <1>2, HandleOrders, SendOrders, EvictOrders, GivesBackOrders
  <1>3. ASSUME NEW w \in Workers, Take(w) \/ Finish(w) \/ Process(w)
        PROVE  OrderInv'
    BY <1>3, TakeOrders, FinishOrders, ProcessOrders
  <1> QED BY <1>1, <1>2, <1>3 DEF Next, OneReference, RunStep, SubmitStep

\* With one worker the records of one goroutine reach the handler in the order in
\* which it logged them, each is counted, and a pooled task is in one place
\* (RecordsKept).
THEOREM GroupKeepsRecords == Spec => []RecordsKept
  <1> DEFINE Ordered == Cardinality(Workers) = 1 => OrderInv
  <1>1. Init => TaskInv /\ Lifecycle /\ Ordered
    BY InitTasks, InitOrders
  <1>2. TaskInv /\ Lifecycle /\ Ordered /\ [Next]_vars => (TaskInv /\ Lifecycle /\ Ordered)'
    BY NextTasks, NextOrders
  <1>3. TaskInv /\ Lifecycle /\ Ordered => OrderKept
    BY DEF OrderInv, OrderKept, Earlier
  <1>4. Spec => []OrderKept
    BY <1>1, <1>2, <1>3, PTL DEF Spec
  <1>5. OrderKept /\ Accounted /\ TasksOwned => RecordsKept
    BY DEF RecordsKept
  <1> QED BY <1>4, <1>5, GroupCounts, GroupOwns, PTL
=============================================================================
