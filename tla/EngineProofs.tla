---------------------------- MODULE EngineProofs ----------------------------
(***************************************************************************)
(* What TLAPS proves about the agonet engine, for every set of loops and   *)
(* connections, every queue capacity and every limit on connections:       *)
(*   - TypeOK is an invariant (EngineType);                                *)
(*   - ConnInv is inductive relative to it (EngineConn), hence             *)
(*     CallbacksPaired (EnginePairs) and DialTruthful (EngineDials);       *)
(*   - the quota is exact and holds (EngineQuota);                         *)
(*   - the engine implements ConnTable (EngineImplementsTable);            *)
(*   - no callback runs after Stop (EngineQuiet), and a client leaves no   *)
(*     socket open (EngineClosesSockets), both by StopInv: a loop that has *)
(*     exited has no connection left and will get none.                    *)
(* A step lemma has one case per action that can disturb its goal; the     *)
(* actions that leave alone all it speaks of share a case.                 *)
(***************************************************************************)
EXTENDS Engine, FiniteSetTheorems, TLAPS

\* Taking an event off a queue leaves well-formed queues, none over its capacity.
LEMMA PopType ==
  ASSUME QueueTypeOK, NEW l \in Loops, ch[l] # <<>>, ch' = [ch EXCEPT ![l] = Tail(@)]
  PROVE  QueueTypeOK'
<1>1. Tail(ch[l]) \in Seq(Events) /\ Len(Tail(ch[l])) = Len(ch[l]) - 1
  BY DEF QueueTypeOK
<1>2. QED
  BY <1>1, EngineAssumption DEF QueueTypeOK, EngineAssumption

\* Appending an event to a queue that is not full keeps it within its capacity.
LEMMA PutType ==
  ASSUME QueueTypeOK, NEW l \in Loops, NEW e \in Events, ~Full(l), Enqueue(l, e)
  PROVE  QueueTypeOK'
<1>1. Append(ch[l], e) \in Seq(Events) /\ Len(Append(ch[l], e)) = Len(ch[l]) + 1
  BY DEF QueueTypeOK
<1>2. Len(ch[l]) \in Nat
  BY DEF QueueTypeOK
<1>3. Len(ch[l]) + 1 <= QueueCap
  BY <1>2, EngineAssumption DEF Full, EngineAssumption
<1>4. QED
  BY <1>1, <1>3 DEF QueueTypeOK, Enqueue

\* What the goroutines post are events.
LEMMA EventType ==
  ASSUME NEW kind \in Kinds, NEW c \in Conns \cup {None}
  PROVE  Event(kind, c) \in Events
BY DEF Event, Events

\* eventloop.close keeps the types of what it assigns.
LEMMA CloseType ==
  ASSUME ConnTypeOK, totalConn \in Int, NEW c \in Conns, Close(c)
  PROVE  /\ reg' \in SUBSET Conns
         /\ raw' \in [Conns -> {"none", "open", "closed"}]
         /\ ons' \in [Conns -> Nat] /\ offs' \in [Conns -> Nat]
         /\ totalConn' \in Int
<1> USE DEF ConnTypeOK, Close
<1>1. reg' \in SUBSET Conns /\ totalConn' \in Int
  OBVIOUS
<1>2. raw' \in [Conns -> {"none", "open", "closed"}]
  OBVIOUS
<1>3. ons' \in [Conns -> Nat] /\ offs' \in [Conns -> Nat]
  OBVIOUS
<1>4. QED
  BY <1>1, <1>2, <1>3

\* The first half of eventloop.open keeps the types of what it assigns.
LEMMA RegisterType ==
  ASSUME ConnTypeOK, totalConn \in Int, NEW c \in Conns, Register(c)
  PROVE  /\ reg' \in SUBSET Conns
         /\ ons' \in [Conns -> Nat] /\ offs' \in [Conns -> Nat]
         /\ totalConn' \in Int
<1> USE DEF ConnTypeOK, Register
<1>1. reg' \in SUBSET Conns /\ totalConn' \in Int
  OBVIOUS
<1>2. ons' \in [Conns -> Nat] /\ offs' \in [Conns -> Nat]
  OBVIOUS
<1>3. QED
  BY <1>1, <1>2

\* After a handler the loop is at one of the places run can be.
LEMMA ReturnsType ==
  ASSUME LoopTypeOK, NEW l \in Loops, NEW result, Returns(l, result)
  PROVE  loop' \in [Loops -> {"run", "drain", "reject", "leave", "cleanup", "exited"}]
BY DEF LoopTypeOK, Returns

\* A new engine has the types it should.
LEMMA InitType == Init => TypeOK
<1> USE EngineAssumption DEF EngineAssumption, Init
<1>1. Init => EngineTypeOK
  <2> SUFFICES ASSUME Init PROVE EngineTypeOK
    OBVIOUS
  <2>1. acceptor \in [at : {"accept", "check", "put", "exited"}, c : Conns \cup {None}]
    OBVIOUS
  <2>2. acceptor.at \notin {"check", "put"}
    OBVIOUS
  <2>3. ctxDone \in BOOLEAN /\ inShutdown \in BOOLEAN /\ listening \in BOOLEAN
    OBVIOUS
  <2>4. QED
    BY <2>1, <2>2, <2>3 DEF EngineTypeOK
<1>2. Init => QueueTypeOK
  BY DEF QueueTypeOK
<1>3. Init => LoopTypeOK
  BY DEF LoopTypeOK, Idle
<1>4. Init => ConnTypeOK
  BY DEF ConnTypeOK
<1>5. QED
  BY <1>1, <1>2, <1>3, <1>4 DEF TypeOK

\* Every step keeps the types of the engine and of its stopping goroutine.
LEMMA EngineTypeStep == TypeOK /\ [Next]_vars => EngineTypeOK'
<1> SUFFICES ASSUME EngineTypeOK, QueueTypeOK, LoopTypeOK, ConnTypeOK, [Next]_vars PROVE EngineTypeOK'
  BY DEF TypeOK
<1> USE EngineAssumption DEF EngineAssumption
<1>1. ASSUME NEW l \in Loops, HandleError(l) \/ HandleOpenOver(l) \/ FinishRollback(l)
      PROVE EngineTypeOK'
    BY <1>1 DEF HandleError, Handles, Returns, EngineTypeOK, stopVars, connVars,
      HandleOpenOver, OverLimit, FinishRollback
<1>2. ASSUME NEW l \in Loops, HandleOpen(l) \/ HandleOpenClose(l) PROVE EngineTypeOK'
    BY <1>2, RegisterType DEF HandleOpen, EngineTypeOK, stopVars, HandleOpenClose
<1>3. ASSUME NEW l \in Loops, FinishOpen(l) \/ HandleClose(l) \/ HandleTraffic(l)
      PROVE EngineTypeOK'
    BY <1>3, CloseType DEF FinishOpen, EngineTypeOK, LoopTypeOK, stopVars, HandleClose,
      connVars, HandleTraffic
<1>4. ASSUME NEW l \in Loops, BeginDrain(l) \/ RejectOne(l) \/ EndDrain(l) PROVE EngineTypeOK'
    BY <1>4 DEF BeginDrain, EngineTypeOK, stopVars, connVars, RejectOne, EndDrain
<1>5. ASSUME NEW l \in Loops, TurnOff(l) \/ Exit(l) \/ StopNotify(l) PROVE EngineTypeOK'
    BY <1>5 DEF TurnOff, EngineTypeOK, stopVars, connVars, Exit, StopNotify, Enqueue, Full
<1>6. ASSUME NEW l \in Loops, CleanupOne(l) PROVE EngineTypeOK'
    BY <1>6, CloseType DEF CleanupOne, EngineTypeOK, ConnTypeOK, stopVars
<1>7. ASSUME NEW c \in Conns, Accept(c) PROVE EngineTypeOK'
    BY <1>7 DEF Accept, EngineTypeOK, stopVars, connVars
<1>8. ASSUME NEW c \in Conns, DialStart(c) PROVE EngineTypeOK'
    BY <1>8 DEF DialStart, EngineTypeOK, stopVars, connVars
<1>9. ASSUME NEW c \in Conns, DialFails(c) PROVE EngineTypeOK'
    BY <1>9 DEF DialFails, EngineTypeOK, stopVars, connVars
<1>10. ASSUME NEW c \in Conns, DialCheck(c) PROVE EngineTypeOK'
    BY <1>10 DEF DialCheck, EngineTypeOK, stopVars, connVars
<1>11. ASSUME NEW c \in Conns, DialPut(c) PROVE EngineTypeOK'
    BY <1>11 DEF DialPut, Enqueue, Full, EngineTypeOK, stopVars, connVars
<1>12. ASSUME NEW c \in Conns, DialOpened(c) PROVE EngineTypeOK'
    BY <1>12 DEF DialOpened, EngineTypeOK, stopVars, connVars
<1>13. ASSUME NEW c \in Conns, DialCancelled(c) PROVE EngineTypeOK'
    BY <1>13 DEF DialCancelled, EngineTypeOK, stopVars, connVars
<1>14. ASSUME NEW c \in Conns, ReadData(c) \/ ReadError(c) \/ ReaderPut(c) PROVE EngineTypeOK'
    BY <1>14 DEF ReadData, EngineTypeOK, stopVars, connVars, ReadError, ReaderPut, Enqueue, Full
<1>15. ASSUME NEW c \in Conns, ReaderGivesUp(c) \/ Post(c, "close") \/ Post(c, "wake")
      PROVE EngineTypeOK'
    BY <1>15 DEF ReaderGivesUp, EngineTypeOK, stopVars, connVars, Post, Enqueue, Full
<1>16. ASSUME NEW c \in Conns, WorkerPut(c) \/ WorkerGivesUp(c) PROVE EngineTypeOK'
    BY <1>16 DEF WorkerPut, Enqueue, Full, EngineTypeOK, stopVars, connVars, WorkerGivesUp
<1>17. ASSUME AcceptCheck PROVE EngineTypeOK'
    <2>1. CASE ctxDone
      BY <1>17, <2>1 DEF AcceptCheck, EngineTypeOK, stopVars, connVars
    <2>2. CASE ~ctxDone
      BY <1>17, <2>2 DEF AcceptCheck, EngineTypeOK, stopVars, connVars
    <2>3. QED
      BY <2>1, <2>2
<1>18. ASSUME AcceptPut PROVE EngineTypeOK'
    BY <1>18 DEF AcceptPut, Enqueue, Full, EngineTypeOK, stopVars, connVars
<1>19. ASSUME AcceptError PROVE EngineTypeOK'
    BY <1>19 DEF AcceptError, EngineTypeOK, stopVars, connVars
<1>20. ASSUME Stop \/ StopSeen \/ StopListeners PROVE EngineTypeOK'
    BY <1>20 DEF Stop, EngineTypeOK, stopVars, connVars, StopSeen, StopListeners
<1>21. ASSUME StopJoin PROVE EngineTypeOK'
    BY <1>21 DEF StopJoin, EngineTypeOK, stopVars, connVars
<1>22. CASE UNCHANGED vars
    BY <1>22 DEF vars, EngineTypeOK, stopVars, connVars
<1>23. QED
    BY <1>1, <1>2, <1>3, <1>4, <1>5, <1>6, <1>7, <1>8, <1>9, <1>10, <1>11, <1>12, <1>13, <1>14,
      <1>15, <1>16, <1>17, <1>18, <1>19, <1>20, <1>21, <1>22 DEF Next, LoopStep, DialStep, StopStep

\* Every step keeps the queues well formed and within their capacity.
LEMMA QueueTypeStep == TypeOK /\ [Next]_vars => QueueTypeOK'
<1> SUFFICES ASSUME EngineTypeOK, QueueTypeOK, LoopTypeOK, ConnTypeOK, [Next]_vars PROVE QueueTypeOK'
  BY DEF TypeOK
<1> USE EngineAssumption DEF EngineAssumption
<1>1. ASSUME NEW l \in Loops, HandleError(l) \/ HandleOpenOver(l) \/ HandleOpen(l) \/
             HandleOpenClose(l) \/ HandleClose(l) \/ HandleTraffic(l) \/ RejectOne(l)
      PROVE QueueTypeOK'
    BY <1>1, PopType DEF HandleError, Handles, HandleOpenOver, HandleOpen, HandleOpenClose,
      HandleClose, HandleTraffic, RejectOne
<1>2. ASSUME NEW l \in Loops, FinishRollback(l) \/ FinishOpen(l) \/ BeginDrain(l) \/
             EndDrain(l) \/ TurnOff(l) \/ CleanupOne(l) \/ Exit(l)
      PROVE QueueTypeOK'
    BY <1>2 DEF FinishRollback, Returns, QueueTypeOK, FinishOpen, Close, BeginDrain, EndDrain,
      TurnOff, CleanupOne, Exit
<1>3. ASSUME NEW c \in Conns, Accept(c) \/ DialStart(c) \/ DialFails(c) \/ DialCheck(c) \/
             DialOpened(c) \/ DialCancelled(c) \/ ReadData(c)
      PROVE QueueTypeOK'
    BY <1>3 DEF Accept, QueueTypeOK, DialStart, DialFails, DialCheck, DialOpened,
      DialCancelled, ReadData
<1>4. ASSUME NEW c \in Conns, DialPut(c) \/ ReaderPut(c) \/ WorkerPut(c) PROVE QueueTypeOK'
    BY <1>4, PutType, EventType DEF DialPut, Kinds, ConnTypeOK, EngineTypeOK, ReaderPut,
      WorkerPut
<1>5. ASSUME NEW c \in Conns, ReadError(c) \/ ReaderGivesUp(c) \/ WorkerGivesUp(c)
      PROVE QueueTypeOK'
    BY <1>5 DEF ReadError, QueueTypeOK, ReaderGivesUp, WorkerGivesUp
<1>6. ASSUME NEW c \in Conns, Post(c, "close") PROVE QueueTypeOK'
    <2>1. CASE UNCHANGED ch
      BY <2>1 DEF QueueTypeOK
    <2>2. CASE ch' # ch
      <3>1. Event("close", c) \in Events
        BY <1>6, EventType DEF Kinds, EngineTypeOK, Post
      <3>2. owner[c] \in Loops /\ ~Full(owner[c]) /\ Enqueue(owner[c], Event("close", c))
        BY <1>6, <2>2 DEF Post, ConnTypeOK, EngineTypeOK
      <3>3. QED
        BY <3>1, <3>2, PutType
    <2>3. QED
      BY <2>1, <2>2
<1>7. ASSUME NEW c \in Conns, Post(c, "wake") PROVE QueueTypeOK'
    <2>1. CASE UNCHANGED ch
      BY <2>1 DEF QueueTypeOK
    <2>2. CASE ch' # ch
      <3>1. Event("wake", c) \in Events
        BY <1>7, EventType DEF Kinds, EngineTypeOK, Post
      <3>2. owner[c] \in Loops /\ ~Full(owner[c]) /\ Enqueue(owner[c], Event("wake", c))
        BY <1>7, <2>2 DEF Post, ConnTypeOK, EngineTypeOK
      <3>3. QED
        BY <3>1, <3>2, PutType
    <2>3. QED
      BY <2>1, <2>2
<1>8. ASSUME AcceptCheck \/ AcceptError \/ Stop \/ StopSeen \/ StopListeners \/ StopJoin
      PROVE QueueTypeOK'
    BY <1>8 DEF AcceptCheck, QueueTypeOK, AcceptError, Stop, StopSeen, StopListeners, StopJoin
<1>9. ASSUME AcceptPut PROVE QueueTypeOK'
    <2>1. CASE UNCHANGED ch
      BY <2>1 DEF QueueTypeOK
    <2>2. CASE ch' # ch
      <3>1. Event("open", acceptor.c) \in Events
        BY <1>9, EventType DEF Kinds, EngineTypeOK, AcceptPut
      <3>2. owner[acceptor.c] \in Loops /\ ~Full(owner[acceptor.c]) /\ Enqueue(owner[acceptor.c], Event("open", acceptor.c))
        BY <1>9, <2>2 DEF AcceptPut, ConnTypeOK, EngineTypeOK
      <3>3. QED
        BY <3>1, <3>2, PutType
    <2>3. QED
      BY <2>1, <2>2
<1>10. ASSUME NEW l \in Loops, StopNotify(l) PROVE QueueTypeOK'
    <2>1. CASE UNCHANGED ch
      BY <2>1 DEF QueueTypeOK
    <2>2. CASE ch' # ch
      <3>1. Event("error", None) \in Events
        BY <1>10, EventType DEF Kinds, EngineTypeOK, StopNotify
      <3>2. l \in Loops /\ ~Full(l) /\ Enqueue(l, Event("error", None))
        BY <1>10, <2>2 DEF StopNotify, ConnTypeOK, EngineTypeOK
      <3>3. QED
        BY <3>1, <3>2, PutType
    <2>3. QED
      BY <2>1, <2>2
<1>11. CASE UNCHANGED vars
    BY <1>11 DEF vars, QueueTypeOK
<1>12. QED
    BY <1>1, <1>2, <1>3, <1>4, <1>5, <1>6, <1>7, <1>8, <1>9, <1>10, <1>11 DEF Next, LoopStep, DialStep, StopStep

\* Every step keeps the types of the loops.
LEMMA LoopTypeStep == TypeOK /\ [Next]_vars => LoopTypeOK'
<1> SUFFICES ASSUME EngineTypeOK, QueueTypeOK, LoopTypeOK, ConnTypeOK, [Next]_vars PROVE LoopTypeOK'
  BY DEF TypeOK
<1> USE EngineAssumption DEF EngineAssumption
<1>1. ASSUME NEW l \in Loops, HandleError(l) \/ HandleOpen(l) \/ FinishRollback(l) \/
             FinishOpen(l) \/ HandleClose(l) \/ HandleTraffic(l)
      PROVE LoopTypeOK'
    BY <1>1, ReturnsType DEF HandleError, LoopTypeOK, Idle, HandleOpen, FinishRollback,
      FinishOpen, HandleClose, HandleTraffic
<1>2. ASSUME NEW l \in Loops, HandleOpenOver(l) \/ HandleOpenClose(l) \/ BeginDrain(l) \/
             RejectOne(l) \/ EndDrain(l) \/ TurnOff(l) \/ CleanupOne(l)
      PROVE LoopTypeOK'
    <2>1. CASE HandleOpenOver(l)
      BY <2>1 DEF HandleOpenOver, LoopTypeOK
    <2>2. CASE HandleOpenClose(l)
      BY <2>2 DEF HandleOpenClose, LoopTypeOK
    <2>3. CASE BeginDrain(l) \/ EndDrain(l) \/ TurnOff(l)
      BY <2>3 DEF BeginDrain, EndDrain, TurnOff, LoopTypeOK
    <2>4. CASE RejectOne(l) \/ CleanupOne(l)
      BY <2>4 DEF RejectOne, CleanupOne, LoopTypeOK
    <2>5. QED
      BY <1>2, <2>1, <2>2, <2>3, <2>4
<1>3. ASSUME NEW l \in Loops, Exit(l) \/ StopNotify(l) PROVE LoopTypeOK'
    BY <1>3 DEF Exit, LoopTypeOK, Idle, StopNotify, Enqueue, Full
<1>4. ASSUME NEW c \in Conns, Accept(c) \/ DialStart(c) \/ DialFails(c) \/ DialCheck(c) \/
             DialPut(c) \/ DialOpened(c) \/ DialCancelled(c)
      PROVE LoopTypeOK'
    BY <1>4 DEF Accept, LoopTypeOK, Idle, DialStart, DialFails, DialCheck, DialPut, Enqueue,
      Full, DialOpened, DialCancelled
<1>5. ASSUME NEW c \in Conns, ReadData(c) \/ ReadError(c) \/ ReaderPut(c) \/
             ReaderGivesUp(c) \/ Post(c, "close") \/ Post(c, "wake") \/ WorkerPut(c)
      PROVE LoopTypeOK'
    BY <1>5 DEF ReadData, LoopTypeOK, Idle, ReadError, ReaderPut, Enqueue, Full, ReaderGivesUp,
      Post, WorkerPut
<1>6. ASSUME NEW c \in Conns, WorkerGivesUp(c) PROVE LoopTypeOK'
    BY <1>6 DEF WorkerGivesUp, LoopTypeOK, Idle
<1>7. ASSUME AcceptCheck \/ AcceptPut \/ AcceptError \/ Stop \/ StopSeen \/ StopListeners \/
             StopJoin
      PROVE LoopTypeOK'
    BY <1>7 DEF AcceptCheck, LoopTypeOK, Idle, AcceptPut, Enqueue, Full, AcceptError, Stop,
      StopSeen, StopListeners, StopJoin
<1>8. CASE UNCHANGED vars
    BY <1>8 DEF vars, LoopTypeOK, Idle
<1>9. QED
    BY <1>1, <1>2, <1>3, <1>4, <1>5, <1>6, <1>7, <1>8 DEF Next, LoopStep, DialStep, StopStep

\* Every step keeps the types of what is kept for each connection.
LEMMA ConnTypeStep == TypeOK /\ [Next]_vars => ConnTypeOK'
<1> SUFFICES ASSUME EngineTypeOK, QueueTypeOK, LoopTypeOK, ConnTypeOK, [Next]_vars PROVE ConnTypeOK'
  BY DEF TypeOK
<1> USE EngineAssumption DEF EngineAssumption
<1>1. ASSUME NEW l \in Loops, HandleError(l) \/ HandleOpenOver(l) \/ FinishRollback(l) \/
             BeginDrain(l)
      PROVE ConnTypeOK'
    BY <1>1 DEF HandleError, Handles, Returns, ConnTypeOK, connVars, HandleOpenOver, OverLimit,
      FinishRollback, BeginDrain
<1>2. ASSUME NEW l \in Loops, HandleOpen(l) \/ HandleOpenClose(l) PROVE ConnTypeOK'
    BY <1>2, RegisterType DEF HandleOpen, ConnTypeOK, EngineTypeOK, HandleOpenClose
<1>3. ASSUME NEW l \in Loops, FinishOpen(l) PROVE ConnTypeOK'
    <2>1. PICK c \in Conns : Close(c) /\ (verdict' = [verdict EXCEPT ![c] = "error"] \/ verdict' = [verdict EXCEPT ![c] = "ok"])
      BY <1>3 DEF FinishOpen, LoopTypeOK
    <2>2. QED
      BY <1>3, <2>1, CloseType DEF FinishOpen, ConnTypeOK, EngineTypeOK
<1>4. ASSUME NEW l \in Loops, HandleClose(l) PROVE ConnTypeOK'
    <2>1. CASE UNCHANGED <<connVars, raw>>
      BY <1>4, <2>1 DEF HandleClose, ConnTypeOK, connVars
    <2>2. CASE \E c \in Conns : Close(c)
      BY <1>4, <2>2, CloseType DEF HandleClose, ConnTypeOK, EngineTypeOK
    <2>3. QED
      BY <1>4, <2>1, <2>2 DEF HandleClose
<1>5. ASSUME NEW l \in Loops, HandleTraffic(l) PROVE ConnTypeOK'
    <2>1. CASE UNCHANGED <<connVars, raw>>
      BY <1>5, <2>1 DEF HandleTraffic, ConnTypeOK, connVars
    <2>2. CASE \E c \in Conns : Close(c)
      BY <1>5, <2>2, CloseType DEF HandleTraffic, ConnTypeOK, EngineTypeOK
    <2>3. QED
      BY <1>5, <2>1, <2>2 DEF HandleTraffic
<1>6. ASSUME NEW l \in Loops, RejectOne(l) \/ EndDrain(l) \/ TurnOff(l) \/ Exit(l)
      PROVE ConnTypeOK'
    <2>1. CASE RejectOne(l)
      BY <2>1 DEF RejectOne, ConnTypeOK, connVars
    <2>2. CASE EndDrain(l) \/ TurnOff(l) \/ Exit(l)
      BY <2>2 DEF ConnTypeOK, connVars, EndDrain, TurnOff, Exit
    <2>3. QED
      BY <1>6, <2>1, <2>2
<1>7. ASSUME NEW l \in Loops, CleanupOne(l) PROVE ConnTypeOK'
    BY <1>7, CloseType DEF CleanupOne, ConnTypeOK, EngineTypeOK
<1>8. ASSUME NEW c \in Conns, Accept(c) \/ DialStart(c) \/ DialFails(c) \/ DialCheck(c)
      PROVE ConnTypeOK'
    BY <1>8 DEF Accept, ConnTypeOK, connVars, DialStart, DialFails, DialCheck
<1>9. ASSUME NEW c \in Conns, DialPut(c) \/ DialOpened(c) \/ DialCancelled(c) \/ ReadData(c)
      PROVE ConnTypeOK'
    BY <1>9 DEF DialPut, Enqueue, Full, ConnTypeOK, connVars, DialOpened, DialCancelled,
      ReadData
<1>10. ASSUME NEW c \in Conns, ReadError(c) \/ ReaderPut(c) \/ ReaderGivesUp(c) \/
             WorkerPut(c)
      PROVE ConnTypeOK'
    BY <1>10 DEF ReadError, ConnTypeOK, connVars, ReaderPut, Enqueue, Full, ReaderGivesUp,
      WorkerPut
<1>11. ASSUME NEW c \in Conns, Post(c, "close") PROVE ConnTypeOK'
    <2>1. worker' \in [Conns -> {"none", "close", "wake"}]
      BY <1>11 DEF Post, ConnTypeOK
    <2>2. QED
      BY <1>11, <2>1 DEF Post, ConnTypeOK, connVars
<1>12. ASSUME NEW c \in Conns, Post(c, "wake") PROVE ConnTypeOK'
    <2>1. worker' \in [Conns -> {"none", "close", "wake"}]
      BY <1>12 DEF Post, ConnTypeOK
    <2>2. QED
      BY <1>12, <2>1 DEF Post, ConnTypeOK, connVars
<1>13. ASSUME NEW c \in Conns, WorkerGivesUp(c) PROVE ConnTypeOK'
    BY <1>13 DEF WorkerGivesUp, ConnTypeOK, connVars
<1>14. ASSUME AcceptCheck \/ AcceptPut \/ AcceptError \/ Stop PROVE ConnTypeOK'
    BY <1>14 DEF AcceptCheck, ConnTypeOK, connVars, AcceptPut, Enqueue, Full, AcceptError, Stop
<1>15. ASSUME StopSeen \/ StopListeners \/ StopJoin PROVE ConnTypeOK'
    BY <1>15 DEF StopSeen, ConnTypeOK, connVars, StopListeners, StopJoin
<1>16. ASSUME NEW l \in Loops, StopNotify(l) PROVE ConnTypeOK'
    BY <1>16 DEF StopNotify, Enqueue, Full, ConnTypeOK, connVars
<1>17. CASE UNCHANGED vars
    BY <1>17 DEF vars, ConnTypeOK, connVars
<1>18. QED
    BY <1>1, <1>2, <1>3, <1>4, <1>5, <1>6, <1>7, <1>8, <1>9, <1>10, <1>11, <1>12, <1>13, <1>14,
      <1>15, <1>16, <1>17 DEF Next, LoopStep, DialStep, StopStep

\* Every reachable state has the types of TypeOK; no queue exceeds its capacity.
THEOREM EngineType == Spec => []TypeOK
<1>1. TypeOK /\ [Next]_vars => TypeOK'
  BY EngineTypeStep, QueueTypeStep, LoopTypeStep, ConnTypeStep DEF TypeOK
<1>2. QED
  BY InitType, <1>1, PTL DEF Spec

\* The step takes the first event off the queue of l.
Popped(l) == ch[l] # <<>> /\ ch' = [ch EXCEPT ![l] = Tail(@)]

\* The step adds the event e to the queue of l, as its owner allows.
Placed(l, e) ==
    /\ ch' = [ch EXCEPT ![l] = Append(@, e)]
    /\ e.kind # "error" => e.c \in Conns /\ owner[e.c] = l
    /\ e.kind = "open" => Unposted(e.c) /\ ~Unposted(e.c)'

\* What a step may do to the queues.
QueueMoves ==
    \/ UNCHANGED ch
    \/ \E l \in Loops : Popped(l)
    \/ \E l \in Loops, e \in Events : Placed(l, e)

\* A connection never changes its loop.
LEMMA OwnerFixed == [Next]_vars => UNCHANGED owner
<1> SUFFICES ASSUME [Next]_vars PROVE UNCHANGED owner
  OBVIOUS
<1>1. ASSUME NEW l \in Loops, HandleError(l) \/ HandleOpenOver(l) \/ HandleOpen(l) \/
             HandleOpenClose(l) \/ FinishRollback(l) \/ FinishOpen(l) \/ HandleClose(l)
      PROVE UNCHANGED owner
    BY <1>1 DEF HandleError, Handles, Returns, HandleOpenOver, OverLimit, HandleOpen, Register,
      HandleOpenClose, FinishRollback, FinishOpen, Close, HandleClose
<1>2. ASSUME NEW l \in Loops, HandleTraffic(l) \/ BeginDrain(l) \/ RejectOne(l) \/
             EndDrain(l) \/ TurnOff(l) \/ CleanupOne(l) \/ Exit(l)
      PROVE UNCHANGED owner
    BY <1>2 DEF HandleTraffic, Handles, Returns, Close, BeginDrain, RejectOne, EndDrain,
      TurnOff, CleanupOne, Exit
<1>3. ASSUME NEW c \in Conns, Accept(c) \/ DialStart(c) \/ DialFails(c) \/ DialCheck(c) \/
             DialPut(c) \/ DialOpened(c) \/ DialCancelled(c)
      PROVE UNCHANGED owner
    BY <1>3 DEF Accept, DialStart, DialFails, DialCheck, DialPut, Enqueue, Full, DialOpened,
      DialCancelled
<1>4. ASSUME NEW c \in Conns, ReadData(c) \/ ReadError(c) \/ ReaderPut(c) \/
             ReaderGivesUp(c) \/ Post(c, "close") \/ Post(c, "wake") \/ WorkerPut(c)
      PROVE UNCHANGED owner
    BY <1>4 DEF ReadData, ReadError, ReaderPut, Enqueue, Full, ReaderGivesUp, Post, WorkerPut
<1>5. ASSUME NEW c \in Conns, WorkerGivesUp(c) PROVE UNCHANGED owner
    BY <1>5 DEF WorkerGivesUp
<1>6. ASSUME AcceptCheck \/ AcceptPut \/ AcceptError \/ Stop \/ StopSeen \/ StopListeners \/
             StopJoin
      PROVE UNCHANGED owner
    BY <1>6 DEF AcceptCheck, AcceptPut, Enqueue, Full, AcceptError, Stop, StopSeen,
      StopListeners, StopJoin
<1>7. ASSUME NEW l \in Loops, StopNotify(l) PROVE UNCHANGED owner
    BY <1>7 DEF StopNotify, Enqueue, Full
<1>8. CASE UNCHANGED vars
    BY <1>8 DEF vars
<1>9. QED
    BY <1>1, <1>2, <1>3, <1>4, <1>5, <1>6, <1>7, <1>8 DEF Next, LoopStep, DialStep, StopStep

\* Every step leaves the queues alone, takes one event from one, or adds one to one;
\* an event that is added goes to the owner of its connection, and an open event is
\* only ever added for a connection that had none.
LEMMA QueueStep == TypeOK /\ ModeOK /\ [Next]_vars => QueueMoves
<1> SUFFICES ASSUME EngineTypeOK, QueueTypeOK, LoopTypeOK, ConnTypeOK, ModeOK, [Next]_vars
             PROVE QueueMoves
  BY DEF TypeOK
<1> USE EngineAssumption DEF EngineAssumption, QueueMoves
<1>1. ASSUME NEW l \in Loops, HandleError(l) \/ HandleOpenOver(l) \/ HandleOpen(l) \/
             HandleOpenClose(l) \/ FinishRollback(l) \/ FinishOpen(l) \/ HandleClose(l)
      PROVE QueueMoves
    BY <1>1 DEF HandleError, Handles, Popped, HandleOpenOver, HandleOpen, HandleOpenClose,
      FinishRollback, Returns, FinishOpen, Close, HandleClose
<1>2. ASSUME NEW l \in Loops, HandleTraffic(l) \/ BeginDrain(l) \/ RejectOne(l) \/
             EndDrain(l) \/ TurnOff(l) \/ CleanupOne(l) \/ Exit(l)
      PROVE QueueMoves
    BY <1>2 DEF HandleTraffic, Handles, Popped, BeginDrain, RejectOne, EndDrain, TurnOff,
      CleanupOne, Close, Exit
<1>3. ASSUME NEW c \in Conns, Accept(c) \/ DialStart(c) \/ DialFails(c) \/ DialCheck(c) \/
             DialOpened(c) \/ DialCancelled(c) \/ ReadData(c)
      PROVE QueueMoves
    BY <1>3 DEF Accept, DialStart, DialFails, DialCheck, DialOpened, DialCancelled, ReadData
<1>4. ASSUME NEW c \in Conns, DialPut(c) PROVE QueueMoves
    <2>1. CASE UNCHANGED ch
      BY <2>1
    <2>2. CASE ch' # ch
      <3>1. Event("open", c) \in Events /\ owner[c] \in Loops
        BY <1>4, EventType DEF Kinds, EngineTypeOK, ConnTypeOK, DialPut
      <3>2. Placed(owner[c], Event("open", c))
        BY <1>4, <2>2 DEF DialPut, Placed, Enqueue, Event, Unposted, ModeOK, ConnTypeOK, EngineTypeOK
      <3>3. QED
        BY <3>1, <3>2
    <2>3. QED
      BY <2>1, <2>2
<1>5. ASSUME NEW c \in Conns, ReadError(c) \/ ReaderGivesUp(c) \/ WorkerGivesUp(c)
      PROVE QueueMoves
    BY <1>5 DEF ReadError, ReaderGivesUp, WorkerGivesUp
<1>6. ASSUME NEW c \in Conns, ReaderPut(c) PROVE QueueMoves
    <2>1. CASE UNCHANGED ch
      BY <2>1
    <2>2. CASE ch' # ch
      <3>1. Event(reader[c], c) \in Events /\ owner[c] \in Loops
        BY <1>6, EventType DEF Kinds, EngineTypeOK, ConnTypeOK, ReaderPut
      <3>2. Placed(owner[c], Event(reader[c], c))
        BY <1>6, <2>2 DEF ReaderPut, Placed, Enqueue, Event, Unposted, ModeOK, ConnTypeOK, EngineTypeOK
      <3>3. QED
        BY <3>1, <3>2
    <2>3. QED
      BY <2>1, <2>2
<1>7. ASSUME NEW c \in Conns, Post(c, "close") PROVE QueueMoves
    <2>1. CASE UNCHANGED ch
      BY <2>1
    <2>2. CASE ch' # ch
      <3>1. Event("close", c) \in Events /\ owner[c] \in Loops
        BY <1>7, EventType DEF Kinds, EngineTypeOK, ConnTypeOK, Post
      <3>2. Placed(owner[c], Event("close", c))
        BY <1>7, <2>2 DEF Post, Placed, Enqueue, Event, Unposted, ModeOK, ConnTypeOK, EngineTypeOK
      <3>3. QED
        BY <3>1, <3>2
    <2>3. QED
      BY <2>1, <2>2
<1>8. ASSUME NEW c \in Conns, Post(c, "wake") PROVE QueueMoves
    <2>1. CASE UNCHANGED ch
      BY <2>1
    <2>2. CASE ch' # ch
      <3>1. Event("wake", c) \in Events /\ owner[c] \in Loops
        BY <1>8, EventType DEF Kinds, EngineTypeOK, ConnTypeOK, Post
      <3>2. Placed(owner[c], Event("wake", c))
        BY <1>8, <2>2 DEF Post, Placed, Enqueue, Event, Unposted, ModeOK, ConnTypeOK, EngineTypeOK
      <3>3. QED
        BY <3>1, <3>2
    <2>3. QED
      BY <2>1, <2>2
<1>9. ASSUME NEW c \in Conns, WorkerPut(c) PROVE QueueMoves
    <2>1. CASE UNCHANGED ch
      BY <2>1
    <2>2. CASE ch' # ch
      <3>1. Event(worker[c], c) \in Events /\ owner[c] \in Loops
        BY <1>9, EventType DEF Kinds, EngineTypeOK, ConnTypeOK, WorkerPut
      <3>2. Placed(owner[c], Event(worker[c], c))
        BY <1>9, <2>2 DEF WorkerPut, Placed, Enqueue, Event, Unposted, ModeOK, ConnTypeOK, EngineTypeOK
      <3>3. QED
        BY <3>1, <3>2
    <2>3. QED
      BY <2>1, <2>2
<1>10. ASSUME AcceptCheck \/ AcceptError \/ Stop \/ StopSeen \/ StopListeners \/ StopJoin
      PROVE QueueMoves
    BY <1>10 DEF AcceptCheck, AcceptError, Stop, StopSeen, StopListeners, StopJoin
<1>11. ASSUME AcceptPut PROVE QueueMoves
    <2>1. CASE UNCHANGED ch
      BY <2>1
    <2>2. CASE ch' # ch
      <3>0. PICK c \in Conns : c = acceptor.c
        BY <1>11 DEF EngineTypeOK, AcceptPut
      <3>1. owner[c] \in Loops /\ Event("open", c) \in Events
        BY EventType DEF Kinds, ConnTypeOK
      <3>2. ch' = [ch EXCEPT ![owner[c]] = Append(ch[owner[c]], Event("open", c))] /\ raw' = raw
        BY <1>11, <2>2, <3>0 DEF AcceptPut, Enqueue
      <3>3. ~IsClient /\ dial'[c] = "none" /\ raw'[c] # "none" /\ acceptor'.at = "accept"
        BY <1>11, <3>0, <3>1, <3>2 DEF AcceptPut, ModeOK
      <3>4. Unposted(c) /\ ~Unposted(c)'
        BY <1>11, <3>0, <3>3 DEF AcceptPut, Unposted
      <3>5. Placed(owner[c], Event("open", c))
        BY <3>1, <3>2, <3>4 DEF Placed, Event
      <3>6. QED
        BY <3>1, <3>5
    <2>3. QED
      BY <2>1, <2>2
<1>12. ASSUME NEW l \in Loops, StopNotify(l) PROVE QueueMoves
    <2>1. CASE UNCHANGED ch
      BY <2>1
    <2>2. CASE ch' # ch
      <3>1. Event("error", None) \in Events /\ l \in Loops
        BY <1>12, EventType DEF Kinds, EngineTypeOK, ConnTypeOK, StopNotify
      <3>2. Placed(l, Event("error", None))
        BY <1>12, <2>2 DEF StopNotify, Placed, Enqueue, Event, Unposted, ModeOK, ConnTypeOK, EngineTypeOK
      <3>3. QED
        BY <3>1, <3>2
    <2>3. QED
      BY <2>1, <2>2
<1>13. CASE UNCHANGED vars
    BY <1>13 DEF vars
<1>14. QED
    BY <1>1, <1>2, <1>3, <1>4, <1>5, <1>6, <1>7, <1>8, <1>9, <1>10, <1>11, <1>12, <1>13 DEF Next, LoopStep, DialStep, StopStep

\* Once the open event of a connection is posted, no other will be.
LEMMA PostedForGood ==
  TypeOK /\ ModeOK /\ [Next]_vars => \A x \in Conns : Unposted(x)' => Unposted(x)
<1> SUFFICES ASSUME EngineTypeOK, LoopTypeOK, ConnTypeOK, ModeOK, [Next]_vars, NEW x \in Conns, Unposted(x)'
             PROVE Unposted(x)
  BY DEF TypeOK
<1> USE DEF Unposted
<1>1. ASSUME NEW l \in Loops, HandleError(l) \/ HandleOpenOver(l) \/ HandleOpen(l) \/
             HandleOpenClose(l) \/ FinishRollback(l) \/ FinishOpen(l) \/ HandleClose(l)
      PROVE Unposted(x)
    <2>1. CASE HandleError(l) \/ HandleOpenOver(l) \/ HandleOpen(l) \/ HandleOpenClose(l)
      BY <2>1 DEF HandleError, HandleOpenOver, HandleOpen, HandleOpenClose
    <2>2. CASE FinishRollback(l) \/ FinishOpen(l)
      BY <2>2 DEF FinishRollback, FinishOpen, Close, ConnTypeOK
    <2>3. CASE HandleClose(l)
      BY <2>3 DEF HandleClose, Close, ConnTypeOK
    <2>4. QED
      BY <1>1, <2>1, <2>2, <2>3
<1>2. ASSUME NEW l \in Loops, HandleTraffic(l) \/ BeginDrain(l) \/ RejectOne(l) \/
             EndDrain(l) \/ TurnOff(l) \/ CleanupOne(l) \/ Exit(l)
      PROVE Unposted(x)
    BY <1>2 DEF HandleTraffic, Handles, Returns, Close, ConnTypeOK, EngineTypeOK, ModeOK,
      BeginDrain, RejectOne, EndDrain, TurnOff, CleanupOne, Exit
<1>3. ASSUME NEW c \in Conns, Accept(c) \/ DialStart(c) \/ DialFails(c) \/ DialCheck(c) \/
             DialPut(c) \/ DialOpened(c) \/ DialCancelled(c)
      PROVE Unposted(x)
    BY <1>3 DEF Accept, ConnTypeOK, EngineTypeOK, ModeOK, DialStart, DialFails, DialCheck,
      DialPut, Enqueue, Full, DialOpened, DialCancelled
<1>4. ASSUME NEW c \in Conns, ReadData(c) \/ ReadError(c) \/ ReaderPut(c) \/
             ReaderGivesUp(c) \/ Post(c, "close") \/ Post(c, "wake") \/ WorkerPut(c)
      PROVE Unposted(x)
    BY <1>4 DEF ReadData, ConnTypeOK, EngineTypeOK, ModeOK, ReadError, ReaderPut, Enqueue,
      Full, ReaderGivesUp, Post, WorkerPut
<1>5. ASSUME NEW c \in Conns, WorkerGivesUp(c) PROVE Unposted(x)
    BY <1>5 DEF WorkerGivesUp, ConnTypeOK, EngineTypeOK, ModeOK
<1>6. ASSUME AcceptCheck PROVE Unposted(x)
    <2>1. CASE ctxDone
      BY <1>6, <2>1 DEF AcceptCheck, EngineTypeOK, ConnTypeOK
    <2>2. CASE ~ctxDone
      BY <1>6, <2>2 DEF AcceptCheck, EngineTypeOK, ConnTypeOK
    <2>3. QED
      BY <2>1, <2>2
<1>7. ASSUME AcceptPut \/ AcceptError \/ Stop \/ StopSeen \/ StopListeners \/ StopJoin
      PROVE Unposted(x)
    BY <1>7 DEF AcceptPut, Enqueue, Full, ConnTypeOK, EngineTypeOK, ModeOK, AcceptError, Stop,
      StopSeen, StopListeners, StopJoin
<1>8. ASSUME NEW l \in Loops, StopNotify(l) PROVE Unposted(x)
    BY <1>8 DEF StopNotify, Enqueue, Full, ConnTypeOK, EngineTypeOK, ModeOK
<1>9. CASE UNCHANGED vars
    BY <1>9 DEF vars, ConnTypeOK, EngineTypeOK, ModeOK
<1>10. QED
    BY <1>1, <1>2, <1>3, <1>4, <1>5, <1>6, <1>7, <1>8, <1>9 DEF Next, LoopStep, DialStep, StopStep

\* Clients go on dialling and servers accepting.
LEMMA ModeStep == TypeOK /\ ModeOK /\ [Next]_vars => ModeOK'
<1> SUFFICES ASSUME EngineTypeOK, LoopTypeOK, ConnTypeOK, ModeOK, [Next]_vars PROVE ModeOK'
  BY DEF TypeOK
<1> USE DEF ModeOK
<1>1. ASSUME NEW l \in Loops, HandleError(l) \/ HandleOpenOver(l) \/ HandleOpen(l) PROVE ModeOK'
    BY <1>1 DEF HandleError, Handles, Returns, ConnTypeOK, EngineTypeOK, HandleOpenOver,
      OverLimit, HandleOpen, Register
<1>2. ASSUME NEW l \in Loops, HandleOpenClose(l) \/ FinishRollback(l) \/ FinishOpen(l)
      PROVE ModeOK'
    BY <1>2 DEF HandleOpenClose, Handles, Register, OverLimit, ConnTypeOK, EngineTypeOK,
      FinishRollback, Returns, FinishOpen, Close
<1>3. ASSUME NEW l \in Loops, HandleClose(l) \/ HandleTraffic(l) \/ BeginDrain(l) PROVE ModeOK'
    BY <1>3 DEF HandleClose, Handles, Returns, Close, ConnTypeOK, EngineTypeOK, HandleTraffic,
      BeginDrain
<1>4. ASSUME NEW l \in Loops, RejectOne(l) \/ EndDrain(l) \/ TurnOff(l) PROVE ModeOK'
    BY <1>4 DEF RejectOne, ConnTypeOK, EngineTypeOK, EndDrain, TurnOff
<1>5. ASSUME NEW l \in Loops, CleanupOne(l) \/ Exit(l) \/ StopNotify(l) PROVE ModeOK'
    BY <1>5 DEF CleanupOne, Close, ConnTypeOK, EngineTypeOK, Exit, StopNotify, Enqueue, Full
<1>6. ASSUME NEW c \in Conns, Accept(c) PROVE ModeOK'
    BY <1>6 DEF Accept, ConnTypeOK, EngineTypeOK
<1>7. ASSUME NEW c \in Conns, DialStart(c) PROVE ModeOK'
    BY <1>7 DEF DialStart, ConnTypeOK, EngineTypeOK
<1>8. ASSUME NEW c \in Conns, DialFails(c) PROVE ModeOK'
    BY <1>8 DEF DialFails, ConnTypeOK, EngineTypeOK
<1>9. ASSUME NEW c \in Conns, DialCheck(c) PROVE ModeOK'
    BY <1>9 DEF DialCheck, ConnTypeOK, EngineTypeOK
<1>10. ASSUME NEW c \in Conns, DialPut(c) PROVE ModeOK'
    BY <1>10 DEF DialPut, Enqueue, Full, ConnTypeOK, EngineTypeOK
<1>11. ASSUME NEW c \in Conns, DialOpened(c) PROVE ModeOK'
    BY <1>11 DEF DialOpened, ConnTypeOK, EngineTypeOK
<1>12. ASSUME NEW c \in Conns, DialCancelled(c) PROVE ModeOK'
    BY <1>12 DEF DialCancelled, ConnTypeOK, EngineTypeOK
<1>13. ASSUME NEW c \in Conns, ReadData(c) \/ ReadError(c) \/ ReaderPut(c) PROVE ModeOK'
    BY <1>13 DEF ReadData, ConnTypeOK, EngineTypeOK, ReadError, ReaderPut, Enqueue, Full
<1>14. ASSUME NEW c \in Conns, ReaderGivesUp(c) \/ Post(c, "close") \/ Post(c, "wake")
      PROVE ModeOK'
    BY <1>14 DEF ReaderGivesUp, ConnTypeOK, EngineTypeOK, Post, Enqueue, Full
<1>15. ASSUME NEW c \in Conns, WorkerPut(c) \/ WorkerGivesUp(c) PROVE ModeOK'
    BY <1>15 DEF WorkerPut, Enqueue, Full, ConnTypeOK, EngineTypeOK, WorkerGivesUp
<1>16. ASSUME AcceptCheck PROVE ModeOK'
    BY <1>16 DEF AcceptCheck, ConnTypeOK, EngineTypeOK
<1>17. ASSUME AcceptPut PROVE ModeOK'
    BY <1>17 DEF AcceptPut, Enqueue, Full, ConnTypeOK, EngineTypeOK
<1>18. ASSUME AcceptError PROVE ModeOK'
    BY <1>18 DEF AcceptError, ConnTypeOK, EngineTypeOK
<1>19. ASSUME Stop \/ StopSeen \/ StopListeners PROVE ModeOK'
    BY <1>19 DEF Stop, ConnTypeOK, EngineTypeOK, StopSeen, StopListeners
<1>20. ASSUME StopJoin PROVE ModeOK'
    BY <1>20 DEF StopJoin, ConnTypeOK, EngineTypeOK
<1>21. CASE UNCHANGED vars
    BY <1>21 DEF vars, ConnTypeOK, EngineTypeOK
<1>22. QED
    BY <1>1, <1>2, <1>3, <1>4, <1>5, <1>6, <1>7, <1>8, <1>9, <1>10, <1>11, <1>12, <1>13, <1>14,
      <1>15, <1>16, <1>17, <1>18, <1>19, <1>20, <1>21 DEF Next, LoopStep, DialStep, StopStep

\* What is in the queues after an event was taken off one.
LEMMA PopElements ==
  ASSUME QueueTypeOK, NEW l \in Loops, Popped(l)
  PROVE  /\ \A k \in Loops : k # l => ch'[k] = ch[k]
         /\ 1 \in 1..Len(ch[l]) /\ Head(ch[l]) = ch[l][1]
         /\ \A i \in 1..Len(ch'[l]) : i + 1 \in 1..Len(ch[l]) /\ ch'[l][i] = ch[l][i + 1]
<1>1. ch'[l] = Tail(ch[l]) /\ ch[l] \in Seq(Events) /\ ch[l] # <<>>
  BY DEF Popped, QueueTypeOK
<1>2. \A k \in Loops : k # l => ch'[k] = ch[k]
  BY DEF Popped, QueueTypeOK
<1>3. QED
  BY <1>1, <1>2

\* What is in the queues after an event was added to one.
LEMMA PlaceElements ==
  ASSUME QueueTypeOK, NEW l \in Loops, NEW e \in Events, Placed(l, e)
  PROVE  /\ \A k \in Loops : k # l => ch'[k] = ch[k]
         /\ Len(ch'[l]) = Len(ch[l]) + 1
         /\ ch'[l][Len(ch[l]) + 1] = e
         /\ \A i \in 1..Len(ch[l]) : ch'[l][i] = ch[l][i]
<1>1. ch'[l] = Append(ch[l], e) /\ ch[l] \in Seq(Events)
  BY DEF Placed, QueueTypeOK
<1>2. \A k \in Loops : k # l => ch'[k] = ch[k]
  BY DEF Placed, QueueTypeOK
<1>3. QED
  BY <1>1, <1>2

\* Events stay with the owner of their connection.
LEMMA RoutedStep == TypeOK /\ ModeOK /\ Routed /\ [Next]_vars => Routed'
<1> SUFFICES ASSUME TypeOK, ModeOK, Routed, [Next]_vars PROVE Routed'
  OBVIOUS
<1>1. owner' = owner /\ QueueTypeOK /\ \A k \in Loops : ch[k] \in Seq(Events)
  BY OwnerFixed DEF TypeOK, QueueTypeOK
<1>2. CASE UNCHANGED ch
  BY <1>1, <1>2 DEF Routed
<1>3. ASSUME NEW l \in Loops, Popped(l) PROVE Routed'
  <2>1. SUFFICES ASSUME NEW k \in Loops, NEW i \in 1..Len(ch'[k]), ch'[k][i].kind # "error"
                 PROVE ch'[k][i].c \in Conns /\ owner[ch'[k][i].c] = k
    BY <1>1 DEF Routed
  <2>2. CASE k # l
    BY <2>1, <2>2, <1>1, <1>3, PopElements DEF Routed
  <2>3. CASE k = l
    <3>1. i + 1 \in 1..Len(ch[l]) /\ ch'[l][i] = ch[l][i + 1]
      BY <2>1, <2>3, <1>1, <1>3, PopElements
    <3>2. QED
      BY <2>1, <2>3, <3>1 DEF Routed
  <2>4. QED
    BY <2>2, <2>3
<1>4. ASSUME NEW l \in Loops, NEW e \in Events, Placed(l, e) PROVE Routed'
  <2>1. SUFFICES ASSUME NEW k \in Loops, NEW i \in 1..Len(ch'[k]), ch'[k][i].kind # "error"
                 PROVE ch'[k][i].c \in Conns /\ owner[ch'[k][i].c] = k
    BY <1>1 DEF Routed
  <2>2. CASE k # l
    BY <2>1, <2>2, <1>1, <1>4, PlaceElements DEF Routed
  <2>3. CASE k = l /\ i \in 1..Len(ch[l])
    BY <2>1, <2>3, <1>1, <1>4, PlaceElements DEF Routed
  <2>4. CASE k = l /\ i = Len(ch[l]) + 1
    BY <2>1, <2>4, <1>1, <1>4, PlaceElements DEF Placed
  <2>5. QED
    BY <2>2, <2>3, <2>4, <1>1, <1>4, PlaceElements
<1>5. QED
  BY <1>2, <1>3, <1>4, QueueStep DEF QueueMoves

\* A second open event of a connection is never queued.
LEMMA OpenOnceStep ==
  TypeOK /\ ModeOK /\ Routed /\ OpenIsNew /\ OpenOnce /\ [Next]_vars => OpenOnce'
<1> SUFFICES ASSUME TypeOK, ModeOK, Routed, OpenIsNew, OpenOnce, [Next]_vars PROVE OpenOnce'
  OBVIOUS
<1>1. QueueTypeOK /\ \A k \in Loops : ch[k] \in Seq(Events) /\ Len(ch[k]) \in Nat
  BY DEF TypeOK, QueueTypeOK
<1>2. CASE UNCHANGED ch
  BY <1>2 DEF OpenOnce
<1>3. ASSUME NEW l \in Loops, Popped(l) PROVE OpenOnce'
  <2>1. SUFFICES ASSUME NEW k \in Loops, NEW i \in 1..Len(ch'[k]), NEW j \in 1..Len(ch'[k]),
                        ch'[k][i].kind = "open", ch'[k][j].kind = "open",
                        ch'[k][i].c = ch'[k][j].c
                 PROVE  i = j
    BY DEF OpenOnce
  <2>2. CASE k # l
    BY <2>1, <2>2, <1>1, <1>3, PopElements DEF OpenOnce
  <2>3. CASE k = l
    <3>1. /\ i + 1 \in 1..Len(ch[l]) /\ ch'[l][i] = ch[l][i + 1]
          /\ j + 1 \in 1..Len(ch[l]) /\ ch'[l][j] = ch[l][j + 1]
      BY <2>1, <2>3, <1>1, <1>3, PopElements
    <3>2. i + 1 = j + 1
      BY <2>1, <2>3, <3>1 DEF OpenOnce
    <3>3. QED
      BY <3>2
  <2>4. QED
    BY <2>2, <2>3
<1>4. ASSUME NEW l \in Loops, NEW e \in Events, Placed(l, e) PROVE OpenOnce'
  <2>1. SUFFICES ASSUME NEW k \in Loops, NEW i \in 1..Len(ch'[k]), NEW j \in 1..Len(ch'[k]),
                        ch'[k][i].kind = "open", ch'[k][j].kind = "open",
                        ch'[k][i].c = ch'[k][j].c
                 PROVE  i = j
    BY DEF OpenOnce
  <2> DEFINE n == Len(ch[l])
  <2>2. CASE k # l
    BY <2>1, <2>2, <1>1, <1>4, PlaceElements DEF OpenOnce
  <2>3. ASSUME k = l, NEW m \in 1..n, ch[l][m].kind = "open", ch[l][m].c = e.c, e.kind = "open"
        PROVE FALSE
    BY <2>3, <1>4 DEF Placed, OpenIsNew
  <2>4. k = l => (i \in 1..n \/ i = n + 1) /\ (j \in 1..n \/ j = n + 1)
    BY <1>1, <1>4, PlaceElements
  <2>5. CASE k = l /\ i \in 1..n /\ j \in 1..n
    BY <2>1, <2>5, <1>1, <1>4, PlaceElements DEF OpenOnce
  <2>6. CASE k = l /\ i \in 1..n /\ j = n + 1
    BY <2>1, <2>3, <2>6, <1>1, <1>4, PlaceElements
  <2>7. CASE k = l /\ i = n + 1 /\ j \in 1..n
    BY <2>1, <2>3, <2>7, <1>1, <1>4, PlaceElements
  <2>8. QED
    BY <2>2, <2>4, <2>5, <2>6, <2>7
<1>5. QED
  BY <1>2, <1>3, <1>4, QueueStep DEF QueueMoves

\* What a step may do to the count of OnOpen calls.
OnsMoves ==
    \/ UNCHANGED ons
    \/ \E l \in Loops, c \in Conns :
         /\ Popped(l)
         /\ ch[l][1] = Event("open", c)
         /\ ons' = [ons EXCEPT ![c] = @ + 1]

\* OnOpen is called only by handling the open event at the head of a queue.
LEMMA OnsStep == TypeOK /\ [Next]_vars => OnsMoves
<1> SUFFICES ASSUME QueueTypeOK, [Next]_vars PROVE OnsMoves
  BY DEF TypeOK
<1> USE DEF OnsMoves
<1>1. ASSUME NEW l \in Loops, HandleError(l) \/ HandleOpenOver(l) \/ FinishRollback(l) \/
             FinishOpen(l) \/ HandleClose(l) \/ HandleTraffic(l) \/ BeginDrain(l)
      PROVE OnsMoves
    BY <1>1 DEF HandleError, Handles, Returns, connVars, Close, HandleOpenOver, OverLimit,
      FinishRollback, FinishOpen, HandleClose, HandleTraffic, BeginDrain
<1>2. ASSUME NEW l \in Loops, HandleOpen(l) PROVE OnsMoves
    <2>1. PICK c \in Conns : Handles(l, Event("open", c)) /\ Register(c)
      BY <1>2 DEF HandleOpen
    <2>2. Popped(l) /\ ch[l][1] = Event("open", c)
      BY <2>1, PopElements DEF Handles, Popped
    <2>3. QED
      BY <2>1, <2>2 DEF Register
<1>3. ASSUME NEW l \in Loops, HandleOpenClose(l) PROVE OnsMoves
    <2>1. PICK c \in Conns : Handles(l, Event("open", c)) /\ Register(c)
      BY <1>3 DEF HandleOpenClose
    <2>2. Popped(l) /\ ch[l][1] = Event("open", c)
      BY <2>1, PopElements DEF Handles, Popped
    <2>3. QED
      BY <2>1, <2>2 DEF Register
<1>4. ASSUME NEW l \in Loops, RejectOne(l) \/ EndDrain(l) \/ TurnOff(l) \/ CleanupOne(l) \/
             Exit(l) \/ StopNotify(l)
      PROVE OnsMoves
    BY <1>4 DEF RejectOne, connVars, Close, EndDrain, TurnOff, CleanupOne, Exit, StopNotify,
      Enqueue, Full
<1>5. ASSUME NEW c \in Conns, Accept(c) \/ DialStart(c) \/ DialFails(c) \/ DialCheck(c) \/
             DialPut(c) \/ DialOpened(c) \/ DialCancelled(c)
      PROVE OnsMoves
    BY <1>5 DEF Accept, connVars, Close, DialStart, DialFails, DialCheck, DialPut, Enqueue,
      Full, DialOpened, DialCancelled
<1>6. ASSUME NEW c \in Conns, ReadData(c) \/ ReadError(c) \/ ReaderPut(c) \/
             ReaderGivesUp(c) \/ Post(c, "close") \/ Post(c, "wake") \/ WorkerPut(c)
      PROVE OnsMoves
    BY <1>6 DEF ReadData, connVars, Close, ReadError, ReaderPut, Enqueue, Full, ReaderGivesUp,
      Post, WorkerPut
<1>7. ASSUME NEW c \in Conns, WorkerGivesUp(c) PROVE OnsMoves
    BY <1>7 DEF WorkerGivesUp, connVars, Close
<1>8. ASSUME AcceptCheck \/ AcceptPut \/ AcceptError \/ Stop \/ StopSeen \/ StopListeners \/
             StopJoin
      PROVE OnsMoves
    BY <1>8 DEF AcceptCheck, connVars, Close, AcceptPut, Enqueue, Full, AcceptError, Stop,
      StopSeen, StopListeners, StopJoin
<1>9. CASE UNCHANGED vars
    BY <1>9 DEF vars, connVars, Close
<1>10. QED
    BY <1>1, <1>2, <1>3, <1>4, <1>5, <1>6, <1>7, <1>8, <1>9 DEF Next, LoopStep, DialStep, StopStep

\* A connection whose open event is queued, or still to be posted, is unopened.
LEMMA OpenIsNewStep ==
  TypeOK /\ ModeOK /\ Routed /\ OpenIsNew /\ OpenOnce /\ [Next]_vars => OpenIsNew'
<1> SUFFICES ASSUME TypeOK, ModeOK, Routed, OpenIsNew, OpenOnce, [Next]_vars PROVE OpenIsNew'
  OBVIOUS
<1>1. /\ QueueTypeOK /\ ConnTypeOK
      /\ \A k \in Loops : ch[k] \in Seq(Events) /\ Len(ch[k]) \in Nat
  BY DEF TypeOK, QueueTypeOK
<1>2. \A x \in Conns : Unposted(x)' => Unposted(x)
  BY PostedForGood
<1>3. ASSUME NEW k \in Loops, NEW i \in 1..Len(ch[k]), ch[k][i].kind = "open"
      PROVE  /\ ch[k][i].c \in Conns /\ owner[ch[k][i].c] = k
             /\ ons[ch[k][i].c] = 0 /\ ~Unposted(ch[k][i].c)
             /\ \A x \in Conns : x = ch[k][i].c => ~Unposted(x)'
  BY <1>2, <1>3 DEF Routed, OpenIsNew
<1>4. CASE UNCHANGED ons
  <2>1. \A c \in Conns : Unposted(c)' => ons'[c] = 0
    BY <1>2, <1>4 DEF OpenIsNew
  <2>2. SUFFICES ASSUME NEW k \in Loops, NEW i \in 1..Len(ch'[k]), ch'[k][i].kind = "open",
                        NEW x, x = ch'[k][i].c
                 PROVE  x \in Conns /\ ons'[x] = 0 /\ ~Unposted(x)'
    BY <2>1 DEF OpenIsNew, Unposted
  <2>3. CASE UNCHANGED ch
    BY <1>3, <1>4, <2>2, <2>3
  <2>4. ASSUME NEW l \in Loops, Popped(l)
        PROVE x \in Conns /\ ons'[x] = 0 /\ ~Unposted(x)'
    <3>1. \E j \in 1..Len(ch[k]) : ch'[k][i] = ch[k][j]
      BY <1>1, <2>2, <2>4, PopElements
    <3>2. QED
      BY <3>1, <1>3, <1>4, <2>2
  <2>5. ASSUME NEW l \in Loops, NEW e \in Events, Placed(l, e)
        PROVE x \in Conns /\ ons'[x] = 0 /\ ~Unposted(x)'
    <3>1. (\E j \in 1..Len(ch[k]) : ch'[k][i] = ch[k][j]) \/ ch'[k][i] = e
      BY <1>1, <2>2, <2>5, PlaceElements
    <3>2. CASE \E j \in 1..Len(ch[k]) : ch'[k][i] = ch[k][j]
      BY <3>2, <1>3, <1>4, <2>2
    <3>3. CASE ch'[k][i] = e
      BY <3>3, <1>4, <2>2, <2>5 DEF Placed, OpenIsNew
    <3>4. QED
      BY <3>1, <3>2, <3>3
  <2>6. QED
    BY <2>3, <2>4, <2>5, QueueStep DEF QueueMoves
<1>5. ASSUME NEW l \in Loops, NEW c \in Conns, Popped(l), ch[l][1] = Event("open", c),
             ons' = [ons EXCEPT ![c] = @ + 1]
      PROVE  OpenIsNew'
  <2>1. 1 \in 1..Len(ch[l]) /\ ch[l][1].kind = "open" /\ ch[l][1].c = c
    BY <1>5, <1>1, PopElements DEF Event
  <2>2. \A x \in Conns : Unposted(x)' => ons'[x] = 0
    BY <1>1, <1>2, <1>3, <1>5, <2>1 DEF OpenIsNew, ConnTypeOK
  <2>3. SUFFICES ASSUME NEW k \in Loops, NEW i \in 1..Len(ch'[k]), ch'[k][i].kind = "open",
                        NEW x, x = ch'[k][i].c
                 PROVE  x \in Conns /\ ons'[x] = 0 /\ ~Unposted(x)'
    BY <2>2 DEF OpenIsNew, Unposted
  <2>4. PICK j \in 1..Len(ch[k]) : ch'[k][i] = ch[k][j] /\ (k = l => j = i + 1)
    BY <1>1, <1>5, <2>3, PopElements
  <2>5. ch[k][j].c # c
    <3>1. CASE k # l
      BY <3>1, <1>3, <2>1, <2>3, <2>4
    <3>2. CASE k = l
      BY <3>2, <1>1, <2>1, <2>3, <2>4 DEF OpenOnce
    <3>3. QED
      BY <3>1, <3>2
  <2>6. x \in Conns /\ x # c /\ ons[x] = 0 /\ ~Unposted(x)'
    BY <1>3, <2>3, <2>4, <2>5
  <2>7. QED
    BY <1>1, <1>5, <2>6 DEF ConnTypeOK
<1>6. QED
  BY <1>4, <1>5, OnsStep DEF OnsMoves

\* The connection of an open event a loop handles has not been opened.
LEMMA OpenedIsNew ==
  ASSUME TypeOK, Routed, OpenIsNew, NEW l \in Loops, NEW c \in Conns, Handles(l, Event("open", c))
  PROVE  /\ Popped(l) /\ ch[l][1] = Event("open", c) /\ 1 \in 1..Len(ch[l])
         /\ ons[c] = 0 /\ owner[c] = l /\ ~Unposted(c)
<1>1. Popped(l) /\ ch[l][1] = Event("open", c) /\ 1 \in 1..Len(ch[l])
  BY PopElements DEF Handles, Popped, TypeOK
<1>2. QED
  BY <1>1 DEF Routed, OpenIsNew, Event

\* Every step keeps OnOpen and OnClose paired with the map: only a connection that
\* is in it is closed.
LEMMA PairedStep == TypeOK /\ ConnInv /\ [Next]_vars => CallbacksPaired'
<1> SUFFICES ASSUME TypeOK, ConnInv, [Next]_vars PROVE CallbacksPaired'
  OBVIOUS
<1> USE DEF CallbacksPaired
<1>a. ASSUME NEW c \in Conns, c \in reg, Close(c) PROVE CallbacksPaired'
  BY <1>a DEF Close, ConnInv, TypeOK, ConnTypeOK
<1>b. ASSUME NEW l \in Loops, NEW c \in Conns, Handles(l, Event("open", c)), Register(c)
      PROVE CallbacksPaired'
  <2>1. ons[c] = 0
    BY <1>b, OpenedIsNew DEF ConnInv
  <2>2. c \notin reg /\ offs[c] = 0
    BY <2>1 DEF ConnInv, TypeOK, ConnTypeOK
  <2>3. QED
    BY <1>b, <2>1, <2>2 DEF Register, ConnInv, TypeOK, ConnTypeOK
<1>c. ASSUME UNCHANGED <<reg, ons, offs>> PROVE CallbacksPaired'
  BY <1>c DEF ConnInv
<1>1. ASSUME NEW l \in Loops, HandleError(l) \/ HandleOpenOver(l) \/ FinishRollback(l) \/
             BeginDrain(l) \/ RejectOne(l) \/ EndDrain(l) \/ TurnOff(l)
      PROVE CallbacksPaired'
    BY <1>1, <1>c DEF HandleError, connVars, HandleOpenOver, FinishRollback, BeginDrain,
      RejectOne, EndDrain, TurnOff
<1>2. ASSUME NEW l \in Loops, HandleOpen(l) \/ HandleOpenClose(l) PROVE CallbacksPaired'
    BY <1>2, <1>b DEF HandleOpen, HandleOpenClose
<1>3. ASSUME NEW l \in Loops, FinishOpen(l) \/ CleanupOne(l) PROVE CallbacksPaired'
    BY <1>3, <1>a DEF FinishOpen, ConnInv, BusyOwns, TypeOK, LoopTypeOK, CleanupOne, ConnTypeOK
<1>4. ASSUME NEW l \in Loops, HandleClose(l) \/ HandleTraffic(l) PROVE CallbacksPaired'
    BY <1>4, <1>a, <1>c DEF HandleClose, connVars, HandleTraffic
<1>5. ASSUME NEW l \in Loops, Exit(l) \/ StopNotify(l) PROVE CallbacksPaired'
    BY <1>5, <1>c DEF Exit, connVars, StopNotify
<1>6. ASSUME NEW c \in Conns, Accept(c) \/ DialStart(c) \/ DialFails(c) \/ DialCheck(c) \/
             DialPut(c) \/ DialOpened(c) \/ DialCancelled(c)
      PROVE CallbacksPaired'
    BY <1>6, <1>c DEF Accept, connVars, DialStart, DialFails, DialCheck, DialPut, DialOpened,
      DialCancelled
<1>7. ASSUME NEW c \in Conns, ReadData(c) \/ ReadError(c) \/ ReaderPut(c) \/
             ReaderGivesUp(c) \/ Post(c, "close") \/ Post(c, "wake") \/ WorkerPut(c)
      PROVE CallbacksPaired'
    BY <1>7, <1>c DEF ReadData, connVars, ReadError, ReaderPut, ReaderGivesUp, Post, WorkerPut
<1>8. ASSUME NEW c \in Conns, WorkerGivesUp(c) PROVE CallbacksPaired'
    BY <1>8, <1>c DEF WorkerGivesUp, connVars
<1>9. ASSUME AcceptCheck \/ AcceptPut \/ AcceptError \/ Stop \/ StopSeen \/ StopListeners \/
             StopJoin
      PROVE CallbacksPaired'
    BY <1>9, <1>c DEF AcceptCheck, connVars, AcceptPut, AcceptError, Stop, StopSeen,
      StopListeners, StopJoin
<1>10. CASE UNCHANGED vars
    BY <1>10, <1>c DEF vars, connVars
<1>11. QED
    BY <1>1, <1>2, <1>3, <1>4, <1>5, <1>6, <1>7, <1>8, <1>9, <1>10 DEF Next, LoopStep, DialStep, StopStep

\* A closed network connection stays closed.
LEMMA ClosedForGood ==
  TypeOK /\ [Next]_vars => \A x \in Conns : raw[x] = "closed" => raw'[x] = "closed"
<1> SUFFICES ASSUME EngineTypeOK, LoopTypeOK, ConnTypeOK, [Next]_vars, NEW x \in Conns, raw[x] = "closed"
             PROVE raw'[x] = "closed"
  BY DEF TypeOK
<1> USE DEF ConnTypeOK, connVars, Close
<1>1. ASSUME NEW l \in Loops, HandleError(l) \/ HandleOpenOver(l) \/ HandleOpen(l) \/
             HandleOpenClose(l) \/ FinishRollback(l) \/ FinishOpen(l) \/ HandleClose(l)
      PROVE raw'[x] = "closed"
    BY <1>1 DEF HandleError, Handles, Returns, HandleOpenOver, OverLimit, HandleOpen, Register,
      HandleOpenClose, FinishRollback, FinishOpen, Close, HandleClose
<1>2. ASSUME NEW l \in Loops, HandleTraffic(l) \/ BeginDrain(l) \/ RejectOne(l) \/
             EndDrain(l) \/ TurnOff(l) \/ CleanupOne(l) \/ Exit(l)
      PROVE raw'[x] = "closed"
    BY <1>2 DEF HandleTraffic, Handles, Returns, Close, BeginDrain, RejectOne, EndDrain,
      TurnOff, CleanupOne, Exit
<1>3. ASSUME NEW c \in Conns, Accept(c) \/ DialStart(c) \/ DialFails(c) \/ DialCheck(c) \/
             DialPut(c) \/ DialOpened(c) \/ DialCancelled(c)
      PROVE raw'[x] = "closed"
    BY <1>3 DEF Accept, DialStart, DialFails, DialCheck, DialPut, Enqueue, Full, DialOpened,
      DialCancelled
<1>4. ASSUME NEW c \in Conns, ReadData(c) \/ ReadError(c) \/ ReaderPut(c) \/
             ReaderGivesUp(c) \/ Post(c, "close") \/ Post(c, "wake") \/ WorkerPut(c)
      PROVE raw'[x] = "closed"
    BY <1>4 DEF ReadData, ReadError, ReaderPut, Enqueue, Full, ReaderGivesUp, Post, WorkerPut
<1>5. ASSUME NEW c \in Conns, WorkerGivesUp(c) PROVE raw'[x] = "closed"
    BY <1>5 DEF WorkerGivesUp
<1>6. ASSUME AcceptCheck \/ AcceptPut \/ AcceptError \/ Stop \/ StopSeen \/ StopListeners \/
             StopJoin
      PROVE raw'[x] = "closed"
    BY <1>6 DEF AcceptCheck, AcceptPut, Enqueue, Full, AcceptError, Stop, StopSeen,
      StopListeners, StopJoin
<1>7. ASSUME NEW l \in Loops, StopNotify(l) PROVE raw'[x] = "closed"
    BY <1>7 DEF StopNotify, Enqueue, Full
<1>8. CASE UNCHANGED vars
    BY <1>8 DEF vars
<1>9. QED
    BY <1>1, <1>2, <1>3, <1>4, <1>5, <1>6, <1>7, <1>8 DEF Next, LoopStep, DialStep, StopStep

\* OnOpen is not called a second time.
LEMMA OpenedForGood ==
  TypeOK /\ ConnInv /\ [Next]_vars => \A x \in Conns : ons[x] = 1 => ons'[x] = 1
<1> SUFFICES ASSUME TypeOK, ConnInv, [Next]_vars, NEW x \in Conns, ons[x] = 1 PROVE ons'[x] = 1
  OBVIOUS
<1>1. ASSUME NEW l \in Loops, NEW c \in Conns, Popped(l), ch[l][1] = Event("open", c),
             ons' = [ons EXCEPT ![c] = @ + 1]
      PROVE  ons'[x] = 1
  <2>1. ons[c] = 0
    BY <1>1, PopElements DEF ConnInv, OpenIsNew, Event, TypeOK
  <2>2. QED
    BY <1>1, <2>1 DEF TypeOK, ConnTypeOK
<1>2. QED
  BY <1>1, OnsStep DEF OnsMoves

\* What a loop tells a dial is what it did.
LEMMA VerdictStep == TypeOK /\ ConnInv /\ [Next]_vars => VerdictTrue'
<1> SUFFICES ASSUME TypeOK, ConnInv, [Next]_vars PROVE VerdictTrue'
  OBVIOUS
<1>a. ASSUME UNCHANGED verdict PROVE VerdictTrue'
  BY <1>a, OpenedForGood, ClosedForGood DEF VerdictTrue, ConnInv
<1>b. ASSUME NEW c \in Conns, verdict' = [verdict EXCEPT ![c] = "ok"], ons'[c] = 1 PROVE VerdictTrue'
  BY <1>b, OpenedForGood, ClosedForGood DEF VerdictTrue, ConnInv, TypeOK, ConnTypeOK
<1>c. ASSUME NEW c \in Conns, verdict' = [verdict EXCEPT ![c] = "error"], raw'[c] = "closed"
      PROVE VerdictTrue'
  BY <1>c, OpenedForGood, ClosedForGood DEF VerdictTrue, ConnInv, TypeOK, ConnTypeOK
<1>1. ASSUME NEW l \in Loops, HandleError(l) \/ HandleOpenOver(l) \/ HandleOpenClose(l) \/
             HandleClose(l) \/ HandleTraffic(l) \/ BeginDrain(l) \/ EndDrain(l)
      PROVE VerdictTrue'
    BY <1>1, <1>a DEF HandleError, HandleOpenOver, HandleOpenClose, HandleClose, HandleTraffic,
      BeginDrain, EndDrain
<1>2. ASSUME NEW l \in Loops, HandleOpen(l) PROVE VerdictTrue'
    <2>1. PICK c \in Conns : /\ Handles(l, Event("open", c)) /\ Register(c)
                              /\ verdict' = [verdict EXCEPT ![c] = "ok"]
      BY <1>2 DEF HandleOpen
    <2>2. ons'[c] = 1
      BY <2>1, OpenedIsNew DEF Register, ConnInv, TypeOK, ConnTypeOK
    <2>3. QED
      BY <2>1, <2>2, <1>b
<1>3. ASSUME NEW l \in Loops, FinishRollback(l) PROVE VerdictTrue'
    <2>1. PICK c \in Conns : c = busy[l].c
      BY <1>3 DEF FinishRollback, TypeOK, LoopTypeOK
    <2>2. QED
      BY <1>3, <2>1, <1>c DEF FinishRollback, TypeOK, ConnTypeOK
<1>4. ASSUME NEW l \in Loops, FinishOpen(l) PROVE VerdictTrue'
    <2>1. PICK c \in Conns : c = busy[l].c
      BY <1>4 DEF FinishOpen, TypeOK, LoopTypeOK
    <2>2. Close(c) /\ c \in reg
      BY <1>4, <2>1 DEF FinishOpen, ConnInv, BusyOwns
    <2>3. ons'[c] = 1 /\ raw'[c] = "closed"
      BY <2>2 DEF Close, ConnInv, CallbacksPaired, TypeOK, ConnTypeOK
    <2>4. QED
      BY <1>4, <2>1, <2>3, <1>b, <1>c DEF FinishOpen
<1>5. ASSUME NEW l \in Loops, RejectOne(l) PROVE VerdictTrue'
    <2>1. CASE UNCHANGED verdict
      BY <2>1, <1>a
    <2>2. CASE verdict' # verdict
      <3>1. Popped(l) /\ Head(ch[l]).kind = "open"
        BY <1>5, <2>2 DEF RejectOne, Popped
      <3>2. PICK c \in Conns : c = Head(ch[l]).c
        BY <3>1, PopElements DEF ConnInv, Routed, TypeOK
      <3>3. verdict' = [verdict EXCEPT ![c] = "error"] /\ raw'[c] = "closed"
        BY <1>5, <3>1, <3>2 DEF RejectOne, TypeOK, ConnTypeOK
      <3>4. QED
        BY <3>3, <1>c
    <2>3. QED
      BY <2>1, <2>2
<1>6. ASSUME NEW l \in Loops, TurnOff(l) \/ CleanupOne(l) \/ Exit(l) \/ StopNotify(l)
      PROVE VerdictTrue'
    BY <1>6, <1>a DEF TurnOff, CleanupOne, Exit, StopNotify
<1>7. ASSUME NEW c \in Conns, Accept(c) \/ DialStart(c) \/ DialFails(c) \/ DialCheck(c) \/
             DialPut(c) \/ DialOpened(c) \/ DialCancelled(c)
      PROVE VerdictTrue'
    BY <1>7, <1>a DEF Accept, DialStart, DialFails, DialCheck, DialPut, DialOpened,
      DialCancelled
<1>8. ASSUME NEW c \in Conns, ReadData(c) \/ ReadError(c) \/ ReaderPut(c) \/
             ReaderGivesUp(c) \/ Post(c, "close") \/ Post(c, "wake") \/ WorkerPut(c)
      PROVE VerdictTrue'
    BY <1>8, <1>a DEF ReadData, ReadError, ReaderPut, ReaderGivesUp, Post, WorkerPut
<1>9. ASSUME NEW c \in Conns, WorkerGivesUp(c) PROVE VerdictTrue'
    BY <1>9, <1>a DEF WorkerGivesUp
<1>10. ASSUME AcceptCheck \/ AcceptPut \/ AcceptError \/ Stop \/ StopSeen \/ StopListeners \/
             StopJoin
      PROVE VerdictTrue'
    BY <1>10, <1>a DEF AcceptCheck, AcceptPut, AcceptError, Stop, StopSeen, StopListeners,
      StopJoin
<1>11. CASE UNCHANGED vars
    BY <1>11, <1>a DEF vars
<1>12. QED
    BY <1>1, <1>2, <1>3, <1>4, <1>5, <1>6, <1>7, <1>8, <1>9, <1>10, <1>11 DEF Next, LoopStep, DialStep, StopStep

\* A dial that returns reports what the loop told it, or a socket it closed.
LEMMA DialTruthStep == TypeOK /\ ConnInv /\ [Next]_vars => DialTruthful'
<1> SUFFICES ASSUME TypeOK, ConnInv, [Next]_vars PROVE DialTruthful'
  OBVIOUS
<1>a. ASSUME NEW c \in Conns, NEW d, dial' = [dial EXCEPT ![c] = d],
             d = "ok" => ons'[c] = 1, d = "failed" => raw'[c] = "closed"
      PROVE DialTruthful'
  BY <1>a, OpenedForGood, ClosedForGood DEF DialTruthful, ConnInv, TypeOK, ConnTypeOK
<1>b. ASSUME UNCHANGED dial PROVE DialTruthful'
  BY <1>b, OpenedForGood, ClosedForGood DEF DialTruthful, ConnInv
<1>1. ASSUME NEW l \in Loops, HandleError(l) \/ HandleOpenOver(l) \/ HandleOpen(l) \/
             HandleOpenClose(l) \/ FinishRollback(l) \/ FinishOpen(l) \/ HandleClose(l)
      PROVE DialTruthful'
    BY <1>1, <1>b DEF HandleError, HandleOpenOver, HandleOpen, HandleOpenClose, FinishRollback,
      FinishOpen, HandleClose
<1>2. ASSUME NEW l \in Loops, HandleTraffic(l) \/ BeginDrain(l) \/ RejectOne(l) \/
             EndDrain(l) \/ TurnOff(l) \/ CleanupOne(l) \/ Exit(l)
      PROVE DialTruthful'
    BY <1>2, <1>b DEF HandleTraffic, BeginDrain, RejectOne, EndDrain, TurnOff, CleanupOne, Exit
<1>3. ASSUME NEW c \in Conns, Accept(c) \/ ReadData(c) \/ ReadError(c) \/ ReaderPut(c) \/
             ReaderGivesUp(c) \/ Post(c, "close") \/ Post(c, "wake")
      PROVE DialTruthful'
    BY <1>3, <1>b DEF Accept, ReadData, ReadError, ReaderPut, ReaderGivesUp, Post
<1>4. ASSUME NEW c \in Conns, DialStart(c) \/ DialFails(c) \/ DialCheck(c) \/ DialPut(c) \/
             DialCancelled(c)
      PROVE DialTruthful'
    BY <1>4, <1>a DEF DialStart, TypeOK, ConnTypeOK, DialFails, DialCheck, DialPut,
      DialCancelled
<1>5. ASSUME NEW c \in Conns, DialOpened(c) PROVE DialTruthful'
    <2>1. verdict[c] = "ok" => ons'[c] = 1
      BY <1>5, OpenedForGood DEF ConnInv, VerdictTrue
    <2>2. verdict[c] # "ok" => raw'[c] = "closed"
      BY <1>5, ClosedForGood DEF DialOpened, ConnInv, VerdictTrue, TypeOK, ConnTypeOK
    <2>3. QED
      BY <1>5, <2>1, <2>2, <1>a DEF DialOpened
<1>6. ASSUME NEW c \in Conns, WorkerPut(c) \/ WorkerGivesUp(c) PROVE DialTruthful'
    BY <1>6, <1>b DEF WorkerPut, WorkerGivesUp
<1>7. ASSUME AcceptCheck \/ AcceptPut \/ AcceptError \/ Stop \/ StopSeen \/ StopListeners \/
             StopJoin
      PROVE DialTruthful'
    BY <1>7, <1>b DEF AcceptCheck, AcceptPut, AcceptError, Stop, StopSeen, StopListeners,
      StopJoin
<1>8. ASSUME NEW l \in Loops, StopNotify(l) PROVE DialTruthful'
    BY <1>8, <1>b DEF StopNotify
<1>9. CASE UNCHANGED vars
    BY <1>9, <1>b DEF vars
<1>10. QED
    BY <1>1, <1>2, <1>3, <1>4, <1>5, <1>6, <1>7, <1>8, <1>9 DEF Next, LoopStep, DialStep, StopStep

\* What a step may do to the loops that are in the middle of open: nothing, finish
\* one, or start one with the open event at the head of its queue.
BusyMoves(k) ==
    \/ busy'[k] = Idle
    \/ /\ busy'[k] = busy[k]
       /\ busy[k].do # "nothing" =>
            loop'[k] = loop[k] /\ (busy[k].c \in reg => busy[k].c \in reg')
    \/ \E c \in Conns :
         /\ loop[k] \in {"run", "drain"} /\ loop'[k] = loop[k]
         /\ Popped(k) /\ ch[k][1] = Event("open", c)
         /\ busy'[k].c = c
         /\ \/ busy'[k].do = "rollback" /\ UNCHANGED ons
            \/ busy'[k].do \in {"close", "panic"} /\ c \in reg'

\* Every step of the engine moves every loop that way: another loop's close cannot take
\* the connection of a loop in the middle of open out of the map.
LEMMA BusyStep == TypeOK /\ ConnInv /\ [Next]_vars => \A k \in Loops : BusyMoves(k)
<1> SUFFICES ASSUME TypeOK, ConnInv, [Next]_vars, NEW k \in Loops PROVE BusyMoves(k)
  OBVIOUS
<1>a. ASSUME UNCHANGED <<busy, loop, reg>> PROVE BusyMoves(k)
  BY <1>a DEF BusyMoves
<1>b. ASSUME NEW l \in Loops, busy' = busy, busy[l].do = "nothing", k # l => loop'[k] = loop[k],
             NEW S \in SUBSET reg, reg \ S \subseteq reg', \A c \in S : owner[c] = l
      PROVE  BusyMoves(k)
  <2>1. CASE k = l
    BY <1>b, <2>1 DEF BusyMoves
  <2>2. CASE k # l
    <3>1. busy[k].do # "nothing" => busy[k].c \notin S
      BY <1>b, <2>2 DEF ConnInv, BusyOwns
    <3>2. QED
      BY <1>b, <2>2, <3>1 DEF BusyMoves
  <2>3. QED
    BY <2>1, <2>2
<1>c. ASSUME NEW l \in Loops, NEW c \in Conns, NEW kind \in Kinds \ {"error"},
             Handles(l, Event(kind, c))
      PROVE  owner[c] = l /\ busy[l].do = "nothing" /\ Popped(l) /\ ch[l][1] = Event(kind, c)
  <2>1. Popped(l)
    BY <1>c DEF Handles, Popped
  <2>2. ch[l][1] = Event(kind, c) /\ 1 \in 1..Len(ch[l])
    BY <1>c, <2>1, PopElements DEF Handles, TypeOK
  <2>3. QED
    BY <1>c, <2>1, <2>2 DEF Handles, ConnInv, Routed, Event, Idle
<1>d. ASSUME NEW l \in Loops, NEW x, Returns(l, x) PROVE k # l => loop'[k] = loop[k]
  BY <1>d DEF Returns, TypeOK, LoopTypeOK
<1>1. ASSUME NEW l \in Loops, HandleError(l) PROVE BusyMoves(k)
    <2>1. busy' = busy /\ reg' = reg /\ busy[l].do = "nothing"
      BY <1>1 DEF HandleError, Handles, Idle, connVars
    <2>2. k # l => loop'[k] = loop[k]
      BY <1>1, <1>d DEF HandleError
    <2>3. QED
      BY <2>1, <2>2, <1>b, {} \in SUBSET reg
<1>2. ASSUME NEW l \in Loops, HandleOpenOver(l) PROVE BusyMoves(k)
    <2>1. PICK c \in Conns : /\ Handles(l, Event("open", c))
                             /\ busy' = [busy EXCEPT ![l] = [do |-> "rollback", c |-> c]]
      BY <1>2 DEF HandleOpenOver
    <2>2. UNCHANGED <<loop, reg, ons>>
      BY <1>2 DEF HandleOpenOver
    <2>3. CASE k # l
      BY <2>1, <2>2, <2>3 DEF BusyMoves, TypeOK, LoopTypeOK
    <2>4. CASE k = l
      <3>1. busy'[k].c = c /\ busy'[k].do = "rollback"
        BY <2>1, <2>4 DEF TypeOK, LoopTypeOK
      <3>2. Popped(l) /\ ch[l][1] = Event("open", c) /\ loop[l] \in {"run", "drain"}
        <4>1. "open" \in Kinds \ {"error"}
          BY DEF Kinds
        <4>2. Popped(l) /\ ch[l][1] = Event("open", c)
          BY <2>1, <4>1, <1>c
        <4>3. loop[l] \in {"run", "drain"}
          BY <2>1 DEF Handles
        <4>4. QED
          BY <4>2, <4>3
      <3>3. QED
        BY <2>2, <2>4, <3>1, <3>2 DEF BusyMoves, Popped
    <2>5. QED
      BY <2>3, <2>4
<1>3. ASSUME NEW l \in Loops, HandleOpen(l) PROVE BusyMoves(k)
    <2>1. PICK c \in Conns, action \in {"none", "shutdown"} :
            Handles(l, Event("open", c)) /\ Register(c) /\ Returns(l, action) /\ busy' = busy
      BY <1>3 DEF HandleOpen
    <2>2. busy[l].do = "nothing" /\ (k # l => loop'[k] = loop[k]) /\ reg \subseteq reg'
      BY <2>1, <1>c, <1>d DEF Kinds, Register
    <2>3. QED
      BY <2>1, <2>2, <1>b, {} \in SUBSET reg
<1>4. ASSUME NEW l \in Loops, HandleOpenClose(l) PROVE BusyMoves(k)
    <2>1. PICK c \in Conns, why \in {"close", "panic"} :
            /\ Handles(l, Event("open", c)) /\ Register(c)
            /\ busy' = [busy EXCEPT ![l] = [do |-> why, c |-> c]]
            /\ UNCHANGED loop
      BY <1>4 DEF HandleOpenClose
    <2>2. reg \subseteq reg' /\ c \in reg'
      BY <2>1 DEF Register
    <2>3. CASE k # l
      BY <2>1, <2>2, <2>3 DEF BusyMoves, TypeOK, LoopTypeOK
    <2>4. CASE k = l
      <3>1. busy'[k].c = c /\ busy'[k].do \in {"close", "panic"}
        BY <2>1, <2>4 DEF TypeOK, LoopTypeOK
      <3>2. Popped(l) /\ ch[l][1] = Event("open", c) /\ loop[l] \in {"run", "drain"}
        <4>1. "open" \in Kinds \ {"error"}
          BY DEF Kinds
        <4>2. Popped(l) /\ ch[l][1] = Event("open", c)
          BY <2>1, <4>1, <1>c
        <4>3. loop[l] \in {"run", "drain"}
          BY <2>1 DEF Handles
        <4>4. QED
          BY <4>2, <4>3
      <3>3. QED
        BY <2>1, <2>2, <2>4, <3>1, <3>2 DEF BusyMoves, Popped
    <2>5. QED
      BY <2>3, <2>4
<1>5. ASSUME NEW l \in Loops, FinishRollback(l) PROVE BusyMoves(k)
    <2>1. CASE k = l
      BY <1>5, <2>1 DEF FinishRollback, BusyMoves, TypeOK, LoopTypeOK
    <2>2. CASE k # l
      <3>1. loop'[k] = loop[k] /\ busy'[k] = busy[k]
        BY <1>5, <2>2, <1>d DEF FinishRollback, TypeOK, LoopTypeOK
      <3>2. reg \ {busy[l].c} \subseteq reg' /\ busy[l].do # "nothing"
        BY <1>5 DEF FinishRollback, Close
      <3>3. busy[k].do # "nothing" => busy[k].c # busy[l].c
        BY <2>2, <3>2 DEF ConnInv, BusyOwns
      <3>4. QED
        BY <3>1, <3>2, <3>3 DEF BusyMoves
    <2>3. QED
      BY <2>1, <2>2
<1>6. ASSUME NEW l \in Loops, FinishOpen(l) PROVE BusyMoves(k)
    <2>1. CASE k = l
      BY <1>6, <2>1 DEF FinishOpen, BusyMoves, TypeOK, LoopTypeOK
    <2>2. CASE k # l
      <3>1. loop'[k] = loop[k] /\ busy'[k] = busy[k]
        BY <1>6, <2>2, <1>d DEF FinishOpen, TypeOK, LoopTypeOK
      <3>2. reg \ {busy[l].c} \subseteq reg' /\ busy[l].do # "nothing"
        BY <1>6 DEF FinishOpen, Close
      <3>3. busy[k].do # "nothing" => busy[k].c # busy[l].c
        BY <2>2, <3>2 DEF ConnInv, BusyOwns
      <3>4. QED
        BY <3>1, <3>2, <3>3 DEF BusyMoves
    <2>3. QED
      BY <2>1, <2>2
<1>7. ASSUME NEW l \in Loops, HandleClose(l) PROVE BusyMoves(k)
    <2>1. PICK c \in Conns, kind \in {"netErr", "close"}, x \in {"none", "shutdown"} :
            Handles(l, Event(kind, c)) /\ Returns(l, x) /\ busy' = busy /\ reg \ {c} \subseteq reg'
      BY <1>7 DEF HandleClose, Close, connVars
    <2>2. owner[c] = l /\ busy[l].do = "nothing"
      BY <2>1, <1>c DEF Kinds
    <2>3. k # l => loop'[k] = loop[k]
      BY <2>1, <1>d
    <2>4. QED
      BY <2>1, <2>2, <2>3, <1>b, {c} \cap reg \in SUBSET reg
<1>8. ASSUME NEW l \in Loops, HandleTraffic(l) PROVE BusyMoves(k)
    <2>1. PICK c \in Conns, kind \in {"data", "wake"}, x \in {"none", "shutdown"} :
            Handles(l, Event(kind, c)) /\ Returns(l, x) /\ busy' = busy /\ reg \ {c} \subseteq reg'
      BY <1>8 DEF HandleTraffic, Close, connVars
    <2>2. owner[c] = l /\ busy[l].do = "nothing"
      BY <2>1, <1>c DEF Kinds
    <2>3. k # l => loop'[k] = loop[k]
      BY <2>1, <1>d
    <2>4. QED
      BY <2>1, <2>2, <2>3, <1>b, {c} \cap reg \in SUBSET reg
<1>9. ASSUME NEW l \in Loops, BeginDrain(l) PROVE BusyMoves(k)
    <2>1. busy' = busy /\ reg' = reg /\ busy[l].do = "nothing"
      BY <1>9 DEF BeginDrain, Idle, connVars
    <2>2. k # l => loop'[k] = loop[k]
      BY <1>9 DEF BeginDrain, TypeOK, LoopTypeOK
    <2>3. QED
      BY <2>1, <2>2, <1>b, {} \in SUBSET reg
<1>10. ASSUME NEW l \in Loops, RejectOne(l) \/ StopNotify(l) PROVE BusyMoves(k)
    BY <1>10, <1>a DEF RejectOne, connVars, StopNotify
<1>11. ASSUME NEW l \in Loops, EndDrain(l) PROVE BusyMoves(k)
    <2>1. busy' = busy /\ reg' = reg /\ busy[l].do = "nothing"
      BY <1>11 DEF EndDrain, Idle, connVars
    <2>2. k # l => loop'[k] = loop[k]
      BY <1>11 DEF EndDrain, TypeOK, LoopTypeOK
    <2>3. QED
      BY <2>1, <2>2, <1>b, {} \in SUBSET reg
<1>12. ASSUME NEW l \in Loops, TurnOff(l) PROVE BusyMoves(k)
    <2>1. busy' = busy /\ reg' = reg /\ busy[l].do = "nothing"
      BY <1>12 DEF TurnOff, connVars, ConnInv, BusyOwns
    <2>2. k # l => loop'[k] = loop[k]
      BY <1>12 DEF TurnOff, TypeOK, LoopTypeOK
    <2>3. QED
      BY <2>1, <2>2, <1>b, {} \in SUBSET reg
<1>13. ASSUME NEW l \in Loops, CleanupOne(l) PROVE BusyMoves(k)
    <2>1. PICK c \in reg : owner[c] = l /\ reg' = reg \ {c}
      BY <1>13 DEF CleanupOne, Close
    <2>2. busy' = busy /\ UNCHANGED loop /\ busy[l].do = "nothing"
      BY <1>13 DEF CleanupOne, ConnInv, BusyOwns
    <2>3. QED
      BY <2>1, <2>2, <1>b, {c} \in SUBSET reg
<1>14. ASSUME NEW l \in Loops, Exit(l) PROVE BusyMoves(k)
    <2>1. busy' = busy /\ reg' = reg /\ busy[l].do = "nothing"
      BY <1>14 DEF Exit, connVars, ConnInv, BusyOwns
    <2>2. k # l => loop'[k] = loop[k]
      BY <1>14 DEF Exit, TypeOK, LoopTypeOK
    <2>3. QED
      BY <2>1, <2>2, <1>b, {} \in SUBSET reg
<1>15. ASSUME NEW c \in Conns, Accept(c) \/ DialStart(c) \/ DialFails(c) \/ DialCheck(c) \/
             DialPut(c) \/ DialOpened(c) \/ DialCancelled(c)
      PROVE BusyMoves(k)
    BY <1>15, <1>a DEF Accept, connVars, DialStart, DialFails, DialCheck, DialPut, DialOpened,
      DialCancelled
<1>16. ASSUME NEW c \in Conns, ReadData(c) \/ ReadError(c) \/ ReaderPut(c) \/
             ReaderGivesUp(c) \/ Post(c, "close") \/ Post(c, "wake") \/ WorkerPut(c)
      PROVE BusyMoves(k)
    BY <1>16, <1>a DEF ReadData, connVars, ReadError, ReaderPut, ReaderGivesUp, Post, WorkerPut
<1>17. ASSUME NEW c \in Conns, WorkerGivesUp(c) PROVE BusyMoves(k)
    BY <1>17, <1>a DEF WorkerGivesUp, connVars
<1>18. ASSUME AcceptCheck \/ AcceptPut \/ AcceptError \/ Stop \/ StopSeen \/ StopListeners \/
             StopJoin
      PROVE BusyMoves(k)
    BY <1>18, <1>a DEF AcceptCheck, connVars, AcceptPut, AcceptError, Stop, StopSeen,
      StopListeners, StopJoin
<1>19. CASE UNCHANGED vars
    BY <1>19, <1>a DEF vars, connVars
<1>20. QED
    BY <1>1, <1>2, <1>3, <1>4, <1>5, <1>6, <1>7, <1>8, <1>9, <1>10, <1>11, <1>12, <1>13, <1>14,
      <1>15, <1>16, <1>17, <1>18, <1>19 DEF Next, LoopStep, DialStep, StopStep

\* A loop in the middle of open keeps its claim on the connection.
LEMMA BusyOwnsStep == TypeOK /\ TypeOK' /\ ConnInv /\ [Next]_vars => BusyOwns'
<1> SUFFICES ASSUME TypeOK, TypeOK', ConnInv, [Next]_vars, NEW k \in Loops
             PROVE  /\ busy'[k].do = "nothing" => busy'[k] = Idle
                    /\ busy'[k].do # "nothing" =>
                         /\ loop'[k] \in {"run", "drain"}
                         /\ owner'[busy'[k].c] = k
                         /\ ~Unposted(busy[k].c)'
                         /\ \A i \in 1..Len(ch'[k]) :
                              ch'[k][i].kind = "open" => ch'[k][i].c # busy'[k].c
                    /\ busy'[k].do = "rollback" => ons'[busy'[k].c] = 0
                    /\ busy'[k].do \in {"close", "panic"} => busy'[k].c \in reg'
  BY DEF BusyOwns
<1>1. owner' = owner
  BY OwnerFixed
<1>2. CASE busy'[k].do = "nothing"
  <2>1. BusyMoves(k)
    BY BusyStep
  <2>2. busy'[k] = Idle
    BY <1>2, <2>1 DEF BusyMoves, ConnInv, BusyOwns
  <2>3. QED
    BY <1>2, <2>2
<1>3. ASSUME busy'[k].do # "nothing" PROVE busy'[k].c \in Conns
  BY <1>3 DEF TypeOK, LoopTypeOK
<1>4. CASE busy'[k].do # "nothing" /\ busy'[k] = busy[k]
  <2>1. PICK c \in Conns : c = busy[k].c /\ c = busy'[k].c
    BY <1>3, <1>4
  <2>2. /\ loop[k] \in {"run", "drain"} /\ owner[c] = k /\ ~Unposted(c)
        /\ \A i \in 1..Len(ch[k]) : ch[k][i].kind = "open" => ch[k][i].c # c
        /\ busy[k].do = "rollback" => ons[c] = 0
        /\ busy[k].do \in {"close", "panic"} => c \in reg
    BY <1>4, <2>1 DEF ConnInv, BusyOwns
  <2>3. loop'[k] = loop[k] /\ (c \in reg => c \in reg')
    <3>1. BusyMoves(k)
      BY BusyStep
    <3>2. Popped(k) => ch[k][1].kind # "open" \/ ch[k][1].c # c
      BY <2>2, PopElements DEF TypeOK
    <3>3. busy'[k] # Idle
      BY <1>4 DEF Idle
    <3>4. ASSUME NEW d \in Conns, Popped(k), ch[k][1] = Event("open", d), busy'[k].c = d PROVE FALSE
      BY <2>1, <3>2, <3>4 DEF Event
    <3>5. QED
      BY <1>4, <2>1, <3>1, <3>3, <3>4 DEF BusyMoves
  <2>4. ~Unposted(c)'
    BY <2>2, PostedForGood DEF ConnInv
  <2>5. \A i \in 1..Len(ch'[k]) : ch'[k][i].kind = "open" => ch'[k][i].c # c
    <3>1. QueueTypeOK /\ Len(ch[k]) \in Nat /\ ch[k] \in Seq(Events)
      BY DEF TypeOK, QueueTypeOK
    <3>2. CASE UNCHANGED ch
      BY <2>2, <3>2
    <3>3. ASSUME NEW l \in Loops, Popped(l)
          PROVE \A i \in 1..Len(ch'[k]) : ch'[k][i].kind = "open" => ch'[k][i].c # c
      BY <2>2, <3>1, <3>3, PopElements
    <3>4. ASSUME NEW l \in Loops, NEW e \in Events, Placed(l, e)
          PROVE \A i \in 1..Len(ch'[k]) : ch'[k][i].kind = "open" => ch'[k][i].c # c
      <4>1. e.kind = "open" => e.c # c
        BY <2>2, <3>4 DEF Placed
      <4>2. CASE k # l
        BY <2>2, <3>4, <4>2, <3>1, PlaceElements
      <4>3. CASE k = l
        <5>1. /\ Len(ch'[k]) = Len(ch[k]) + 1 /\ ch'[k][Len(ch[k]) + 1] = e
              /\ \A i \in 1..Len(ch[k]) : ch'[k][i] = ch[k][i]
          BY <3>1, <3>4, <4>3, PlaceElements
        <5>2. \A i \in 1..Len(ch'[k]) : i \in 1..Len(ch[k]) \/ i = Len(ch[k]) + 1
          BY <3>1, <5>1
        <5>3. QED
          BY <2>2, <4>1, <5>1, <5>2
      <4>4. QED
        BY <4>2, <4>3
    <3>5. QED
      BY <3>2, <3>3, <3>4, QueueStep DEF QueueMoves, ConnInv
  <2>6. ons[c] = 0 /\ busy[k].do = "rollback" => ons'[c] = 0
    <3>1. ASSUME NEW l \in Loops, NEW d \in Conns, Popped(l), ch[l][1] = Event("open", d), d = c
          PROVE FALSE
      <4>1. 1 \in 1..Len(ch[l]) /\ ch[l][1].kind = "open" /\ ch[l][1].c = c
        BY <3>1, PopElements DEF Event, TypeOK
      <4>2. owner[c] = l
        BY <4>1 DEF ConnInv, Routed
      <4>3. QED
        BY <2>2, <4>1, <4>2
    <3>2. QED
      BY <3>1, OnsStep DEF OnsMoves, TypeOK, ConnTypeOK
  <2>7. QED
    BY <1>1, <1>4, <2>1, <2>2, <2>3, <2>4, <2>5, <2>6
<1>5. ASSUME busy'[k].do # "nothing", NEW c \in Conns,
             loop[k] \in {"run", "drain"}, loop'[k] = loop[k],
             Popped(k), ch[k][1] = Event("open", c), busy'[k].c = c,
             \/ busy'[k].do = "rollback" /\ UNCHANGED ons
             \/ busy'[k].do \in {"close", "panic"} /\ c \in reg'
      PROVE  /\ owner[c] = k
             /\ ~Unposted(c)'
             /\ \A i \in 1..Len(ch'[k]) : ch'[k][i].kind = "open" => ch'[k][i].c # c
             /\ busy'[k].do = "rollback" => ons'[c] = 0
  <2>1. 1 \in 1..Len(ch[k]) /\ ch[k][1].kind = "open" /\ ch[k][1].c = c /\ Len(ch[k]) \in Nat
    BY <1>5, PopElements DEF Event, TypeOK, QueueTypeOK
  <2>2. owner[c] = k /\ ons[c] = 0 /\ ~Unposted(c)
    BY <2>1 DEF ConnInv, Routed, OpenIsNew
  <2>3. ~Unposted(c)'
    BY <2>2, PostedForGood DEF ConnInv
  <2>4. ASSUME NEW i \in 1..Len(ch'[k]), ch'[k][i].kind = "open", ch'[k][i].c = c PROVE FALSE
    <3>1. i + 1 \in 1..Len(ch[k]) /\ ch[k][i + 1].kind = "open" /\ ch[k][i + 1].c = c
      BY <1>5, <2>4, PopElements DEF TypeOK
    <3>2. i + 1 = 1
      BY <2>1, <3>1 DEF ConnInv, OpenOnce
    <3>3. i \in Nat \ {0}
      BY DEF TypeOK, QueueTypeOK
    <3>4. QED
      BY <3>2, <3>3
  <2>5. busy'[k].do = "rollback" => ons'[c] = 0
    BY <1>5, <2>2
  <2>6. QED
    BY <2>2, <2>3, <2>4, <2>5
<1>6. QED
  BY <1>1, <1>2, <1>4, <1>5, BusyStep DEF BusyMoves, Idle

\* Nothing is queued, busy or dialled at first.
LEMMA InitConn == Init => ConnInv
<1> SUFFICES ASSUME Init PROVE ConnInv
  OBVIOUS
<1>1. Routed /\ OpenOnce /\ BusyOwns
  BY DEF Init, Routed, OpenOnce, BusyOwns, Idle
<1>2. OpenIsNew
  BY DEF Init, OpenIsNew
<1>3. ModeOK
  BY EngineAssumption DEF Init, ModeOK, EngineAssumption
<1>4. VerdictTrue /\ CallbacksPaired /\ DialTruthful
  BY DEF Init, VerdictTrue, CallbacksPaired, DialTruthful
<1>5. QED
  BY <1>1, <1>2, <1>3, <1>4 DEF ConnInv

\* The invariant behind the callbacks and the dials holds in every reachable state: events
\* are queued with the owner of their connection, its open event once and before OnOpen,
\* and a loop in the middle of open is alone with its connection.
THEOREM EngineConn == Spec => []ConnInv
<1>1. TypeOK /\ TypeOK' /\ ConnInv /\ [Next]_vars => ConnInv'
  <2> SUFFICES ASSUME TypeOK, TypeOK', ConnInv, [Next]_vars PROVE ConnInv'
    OBVIOUS
  <2>1. Routed' /\ OpenOnce' /\ OpenIsNew' /\ ModeOK'
    BY RoutedStep, OpenOnceStep, OpenIsNewStep, ModeStep DEF ConnInv
  <2>2. BusyOwns' /\ CallbacksPaired' /\ VerdictTrue' /\ DialTruthful'
    BY BusyOwnsStep, PairedStep, VerdictStep, DialTruthStep
  <2>3. QED
    BY <2>1, <2>2 DEF ConnInv
<1>2. QED
  BY InitConn, EngineType, <1>1, PTL DEF Spec

\* OnOpen and OnClose come in pairs, for any number of loops, connections and events.
THEOREM EnginePairs == Spec => []CallbacksPaired
<1>1. ConnInv => CallbacksPaired
  BY DEF ConnInv
<1>2. QED
  BY EngineConn, <1>1, PTL

\* A Dial tells the truth, for any number of loops, connections and events.
THEOREM EngineDials == Spec => []DialTruthful
<1>1. ConnInv => DialTruthful
  BY DEF ConnInv
<1>2. QED
  BY EngineConn, <1>1, PTL

\* What a step may do to the connection table and the quota: nothing; take a place for a
\* connection that is over the limit; give such a place back; register; close.
TableMoves ==
    \/ UNCHANGED <<reg, offs, totalConn>> /\ Over' = Over
    \/ /\ UNCHANGED <<reg, offs>>
       /\ \E c \in Conns \ Over : totalConn' = totalConn + 1 /\ Over' = Over \cup {c}
    \/ /\ UNCHANGED <<reg, offs>>
       /\ \E c \in Over : totalConn' = totalConn - 1 /\ Over' = Over \ {c}
    \/ \E c \in Conns : ons[c] = 0 /\ Register(c) /\ Over' = Over
    \/ \E c \in reg : Close(c) /\ Over' = Over

\* Every step of the engine changes the table and the quota in one of these ways.
LEMMA TableStep == TypeOK /\ ConnInv /\ [Next]_vars => TableMoves
<1> SUFFICES ASSUME TypeOK, ConnInv, [Next]_vars PROVE TableMoves
  OBVIOUS
<1>a. ASSUME UNCHANGED <<reg, offs, totalConn, busy>> PROVE TableMoves
  BY <1>a DEF TableMoves, Over
<1>b. ASSUME NEW c \in Conns, c \in reg, Close(c), UNCHANGED busy PROVE TableMoves
  BY <1>b DEF TableMoves, Over
<1>c. ASSUME NEW l \in Loops, NEW c \in Conns, Handles(l, Event("open", c))
      PROVE  ons[c] = 0 /\ busy[l] = Idle /\ \A k \in Loops : busy[k].do # "nothing" => busy[k].c # c
  <2>1. ons[c] = 0 /\ owner[c] = l
    <3>1. Popped(l)
      BY <1>c DEF Handles, Popped
    <3>2. ch[l][1] = Event("open", c) /\ 1 \in 1..Len(ch[l])
      BY <1>c, <3>1, PopElements DEF Handles, TypeOK
    <3>3. QED
      BY <3>2 DEF ConnInv, Routed, OpenIsNew, Event
  <2>2. QED
    BY <1>c, <2>1 DEF Handles, ConnInv, BusyOwns, Idle
<1>d. ASSUME NEW l \in Loops, NEW b, busy' = [busy EXCEPT ![l] = b], b.do # "rollback",
             busy[l].do # "rollback"
      PROVE  Over' = Over
  BY <1>d DEF Over, TypeOK, LoopTypeOK
<1>1. ASSUME NEW l \in Loops, HandleError(l) \/ BeginDrain(l) \/ RejectOne(l) \/
             EndDrain(l) \/ TurnOff(l) \/ Exit(l) \/ StopNotify(l)
      PROVE TableMoves
    BY <1>1, <1>a DEF HandleError, connVars, BeginDrain, RejectOne, EndDrain, TurnOff, Exit,
      StopNotify
<1>2. ASSUME NEW l \in Loops, HandleOpenOver(l) PROVE TableMoves
    <2>1. PICK c \in Conns : /\ Handles(l, Event("open", c))
                             /\ busy' = [busy EXCEPT ![l] = [do |-> "rollback", c |-> c]]
      BY <1>2 DEF HandleOpenOver
    <2>2. c \notin Over /\ busy[l].do # "rollback"
      BY <2>1, <1>c DEF Over, Idle
    <2>3. Over' = Over \cup {c}
      BY <2>1, <2>2 DEF Over, TypeOK, LoopTypeOK
    <2>4. UNCHANGED <<reg, offs>> /\ totalConn' = totalConn + 1
      BY <1>2 DEF HandleOpenOver
    <2>5. QED
      BY <2>2, <2>3, <2>4 DEF TableMoves
<1>3. ASSUME NEW l \in Loops, HandleOpen(l) PROVE TableMoves
    <2>1. PICK c \in Conns : Handles(l, Event("open", c)) /\ Register(c) /\ busy' = busy
      BY <1>3 DEF HandleOpen
    <2>2. Over' = Over
      BY <2>1 DEF Over
    <2>3. QED
      BY <2>1, <2>2, <1>c DEF TableMoves
<1>4. ASSUME NEW l \in Loops, HandleOpenClose(l) PROVE TableMoves
    <2>1. PICK c \in Conns, why \in {"close", "panic"} :
            /\ Handles(l, Event("open", c)) /\ Register(c)
            /\ busy' = [busy EXCEPT ![l] = [do |-> why, c |-> c]]
      BY <1>4 DEF HandleOpenClose
    <2>2. busy[l].do # "rollback"
      BY <2>1, <1>c DEF Idle
    <2>3. Over' = Over
      <3>1. [do |-> why, c |-> c].do # "rollback"
        OBVIOUS
      <3>2. QED
        BY <2>1, <2>2, <3>1, <1>d
    <2>4. QED
      BY <2>1, <2>3, <1>c DEF TableMoves
<1>5. ASSUME NEW l \in Loops, FinishRollback(l) PROVE TableMoves
    <2>1. PICK c \in Conns : c = busy[l].c
      BY <1>5 DEF FinishRollback, TypeOK, LoopTypeOK
    <2>2. busy[l] = [do |-> "rollback", c |-> c] /\ busy' = [busy EXCEPT ![l] = Idle]
      BY <1>5, <2>1 DEF FinishRollback, TypeOK, LoopTypeOK
    <2>3. \A k \in Loops : k # l => busy[k] # [do |-> "rollback", c |-> c]
      BY <2>2 DEF ConnInv, BusyOwns
    <2>4. c \in Over /\ Over' = Over \ {c}
      BY <2>2, <2>3 DEF Over, Idle, TypeOK, LoopTypeOK
    <2>5. UNCHANGED <<reg, offs>> /\ totalConn' = totalConn - 1
      BY <1>5 DEF FinishRollback
    <2>6. QED
      BY <2>4, <2>5 DEF TableMoves
<1>6. ASSUME NEW l \in Loops, FinishOpen(l) PROVE TableMoves
    <2>1. PICK c \in Conns : c = busy[l].c
      BY <1>6 DEF FinishOpen, TypeOK, LoopTypeOK
    <2>2. Close(c) /\ c \in reg
      BY <1>6, <2>1 DEF FinishOpen, ConnInv, BusyOwns
    <2>3. Over' = Over
      <3>1. busy' = [busy EXCEPT ![l] = Idle] /\ busy[l].do # "rollback"
        BY <1>6 DEF FinishOpen
      <3>2. Idle.do # "rollback"
        BY DEF Idle
      <3>3. QED
        BY <3>1, <3>2, <1>d
    <2>4. QED
      BY <2>2, <2>3 DEF TableMoves
<1>7. ASSUME NEW l \in Loops, HandleClose(l) \/ HandleTraffic(l) PROVE TableMoves
    BY <1>7, <1>a, <1>b DEF HandleClose, connVars, HandleTraffic
<1>8. ASSUME NEW l \in Loops, CleanupOne(l) PROVE TableMoves
    BY <1>8, <1>b DEF CleanupOne, TypeOK, ConnTypeOK
<1>9. ASSUME NEW c \in Conns, Accept(c) \/ DialStart(c) \/ DialFails(c) \/ DialCheck(c) \/
             DialPut(c) \/ DialOpened(c) \/ DialCancelled(c)
      PROVE TableMoves
    BY <1>9, <1>a DEF Accept, connVars, DialStart, DialFails, DialCheck, DialPut, DialOpened,
      DialCancelled
<1>10. ASSUME NEW c \in Conns, ReadData(c) \/ ReadError(c) \/ ReaderPut(c) \/
             ReaderGivesUp(c) \/ Post(c, "close") \/ Post(c, "wake") \/ WorkerPut(c)
      PROVE TableMoves
    BY <1>10, <1>a DEF ReadData, connVars, ReadError, ReaderPut, ReaderGivesUp, Post, WorkerPut
<1>11. ASSUME NEW c \in Conns, WorkerGivesUp(c) PROVE TableMoves
    BY <1>11, <1>a DEF WorkerGivesUp, connVars
<1>12. ASSUME AcceptCheck \/ AcceptPut \/ AcceptError \/ Stop \/ StopSeen \/ StopListeners \/
             StopJoin
      PROVE TableMoves
    BY <1>12, <1>a DEF AcceptCheck, connVars, AcceptPut, AcceptError, Stop, StopSeen,
      StopListeners, StopJoin
<1>13. CASE UNCHANGED vars
    BY <1>13, <1>a DEF vars, connVars
<1>14. QED
    BY <1>1, <1>2, <1>3, <1>4, <1>5, <1>6, <1>7, <1>8, <1>9, <1>10, <1>11, <1>12, <1>13 DEF Next, LoopStep, DialStep, StopStep

\* The quota as an invariant: the counter is exact, and the limit holds.
QuotaInv == QuotaAccounted /\ QuotaHeld

\* The quota survives every step: the increment that open makes is also its test.
LEMMA QuotaStep == TypeOK /\ ConnInv /\ QuotaInv /\ [Next]_vars => QuotaInv'
<1> SUFFICES ASSUME TypeOK, ConnInv, QuotaInv, [Next]_vars, MaxConn > 0
             PROVE  /\ totalConn' = Cardinality(reg') + Cardinality(Over')
                    /\ Cardinality(reg') <= MaxConn
  BY DEF QuotaInv, QuotaAccounted, QuotaHeld
<1>1. IsFiniteSet(reg) /\ IsFiniteSet(Over)
  <2>1. reg \in SUBSET Conns /\ Over \in SUBSET Conns /\ IsFiniteSet(Conns)
    BY EngineAssumption DEF EngineAssumption, TypeOK, ConnTypeOK, Over
  <2>2. QED
    BY <2>1, FS_Subset
<1>2. Cardinality(reg) \in Nat /\ Cardinality(Over) \in Nat /\ MaxConn \in Nat /\ totalConn \in Int
  BY <1>1, FS_CardinalityType, EngineAssumption DEF EngineAssumption, TypeOK, EngineTypeOK
<1>3. totalConn = Cardinality(reg) + Cardinality(Over) /\ Cardinality(reg) <= MaxConn
  BY DEF QuotaInv, QuotaAccounted, QuotaHeld
<1>4. CASE UNCHANGED <<reg, totalConn>> /\ Over' = Over
  BY <1>3, <1>4
<1>5. ASSUME NEW c \in Conns \ Over, reg' = reg, totalConn' = totalConn + 1, Over' = Over \cup {c}
      PROVE  totalConn' = Cardinality(reg') + Cardinality(Over') /\ Cardinality(reg') <= MaxConn
  <2>1. Cardinality(Over') = Cardinality(Over) + 1
    BY <1>1, <1>5, FS_AddElement
  <2>2. QED
    BY <1>2, <1>3, <1>5, <2>1
<1>6. ASSUME NEW c \in Over, reg' = reg, totalConn' = totalConn - 1, Over' = Over \ {c}
      PROVE  totalConn' = Cardinality(reg') + Cardinality(Over') /\ Cardinality(reg') <= MaxConn
  <2>1. Cardinality(Over') = Cardinality(Over) - 1
    BY <1>1, <1>6, FS_RemoveElement
  <2>2. QED
    BY <1>2, <1>3, <1>6, <2>1
<1>7. ASSUME NEW c \in Conns, ons[c] = 0, Register(c), Over' = Over
      PROVE  totalConn' = Cardinality(reg') + Cardinality(Over') /\ Cardinality(reg') <= MaxConn
  <2>1. c \notin reg
    BY <1>7 DEF ConnInv, CallbacksPaired, TypeOK, ConnTypeOK
  <2>2. Cardinality(reg') = Cardinality(reg) + 1
    BY <1>1, <1>7, <2>1, FS_AddElement DEF Register
  <2>3. totalConn + 1 <= MaxConn /\ totalConn' = totalConn + 1
    BY <1>2, <1>7 DEF Register, OverLimit
  <2>4. QED
    BY <1>2, <1>3, <1>7, <2>2, <2>3
<1>8. ASSUME NEW c \in reg, Close(c), Over' = Over
      PROVE  totalConn' = Cardinality(reg') + Cardinality(Over') /\ Cardinality(reg') <= MaxConn
  <2>1. Cardinality(reg') = Cardinality(reg) - 1
    BY <1>1, <1>8, FS_RemoveElement DEF Close
  <2>2. totalConn' = totalConn - 1
    BY <1>8 DEF Close
  <2>3. QED
    BY <1>2, <1>3, <1>8, <2>1, <2>2
<1>9. QED
  BY <1>4, <1>5, <1>6, <1>7, <1>8, TableStep DEF TableMoves

\* The limit on connections holds and its counter never drifts, for any number of loops
\* opening and closing any number of connections.
THEOREM EngineQuota == Spec => [](QuotaAccounted /\ QuotaHeld)
<1>1. Init => QuotaInv
  <2> SUFFICES ASSUME Init PROVE QuotaInv
    OBVIOUS
  <2>1. reg = {} /\ Over = {} /\ totalConn = 0
    BY DEF Init, Over, Idle
  <2>2. QED
    BY <2>1, FS_EmptySet, EngineAssumption
    DEF QuotaInv, QuotaAccounted, QuotaHeld, EngineAssumption
<1>2. QuotaInv => QuotaAccounted /\ QuotaHeld
  BY DEF QuotaInv
<1>3. QED
  BY <1>1, <1>2, EngineType, EngineConn, QuotaStep, PTL DEF Spec

\* The engine implements the connection table it promises its users.
THEOREM EngineImplementsTable == Spec => ImplementsTable
<1>1. Init => Table!Init
  BY DEF Init, Table!Init
<1>2. ASSUME TypeOK, ConnInv, QuotaInv, [Next]_vars PROVE [Table!Next]_(Table!vars)
  <2> DEFINE gone == {x \in Conns : offs[x] > 0}
  <2>1. CASE UNCHANGED <<reg, offs>>
    BY <2>1 DEF Table!vars
  <2>2. ASSUME NEW c \in Conns, ons[c] = 0, Register(c) PROVE Table!Open(c)
    <3>1. c \notin reg /\ offs[c] = 0
      BY <2>2, <1>2 DEF ConnInv, CallbacksPaired, TypeOK, ConnTypeOK
    <3>2. MaxConn > 0 => Cardinality(reg) < MaxConn
      <4>1. SUFFICES ASSUME MaxConn > 0 PROVE Cardinality(reg) < MaxConn
        OBVIOUS
      <4>2. IsFiniteSet(reg) /\ IsFiniteSet(Over)
        <5>1. reg \in SUBSET Conns /\ Over \in SUBSET Conns /\ IsFiniteSet(Conns)
          BY <1>2, EngineAssumption DEF EngineAssumption, TypeOK, ConnTypeOK, Over
        <5>2. QED
          BY <5>1, FS_Subset
      <4>3. Cardinality(reg) \in Nat /\ Cardinality(Over) \in Nat /\ MaxConn \in Nat
        BY <4>2, FS_CardinalityType, EngineAssumption DEF EngineAssumption
      <4>4. totalConn = Cardinality(reg) + Cardinality(Over) /\ ~(totalConn + 1 > MaxConn)
        BY <1>2, <2>2, <4>1 DEF QuotaInv, QuotaAccounted, Register, OverLimit
      <4>5. QED
        BY <4>3, <4>4
    <3>3. reg' = reg \cup {c} /\ UNCHANGED offs
      BY <2>2 DEF Register
    <3>4. c \notin reg \cup gone
      BY <3>1
    <3>5. gone' = gone
      BY <3>3
    <3>6. Table!Cardinality(reg) = Cardinality(reg)
      BY DEF Table!Cardinality, Table!IsFiniteSet, Cardinality, IsFiniteSet
    <3>7. QED
      BY <3>2, <3>3, <3>4, <3>5, <3>6 DEF Table!Open
  <2>3. ASSUME NEW c \in reg, Close(c) PROVE c \in Conns /\ Table!Close(c)
    <3>1. c \in Conns /\ offs[c] \in Nat
      BY <1>2 DEF TypeOK, ConnTypeOK
    <3>2. gone' = gone \cup {c}
      BY <1>2, <2>3, <3>1 DEF Close, TypeOK, ConnTypeOK
    <3>3. reg' = reg \ {c}
      BY <2>3 DEF Close
    <3>4. QED
      BY <3>1, <3>2, <3>3 DEF Table!Close
  <2>4. QED
    BY <1>2, <2>1, <2>2, <2>3, TableStep DEF TableMoves, Table!Next
<1>3. Spec => []QuotaInv
  BY EngineQuota, PTL DEF QuotaInv
<1>4. QED
  BY <1>1, <1>2, <1>3, EngineType, EngineConn, PTL DEF Spec, ImplementsTable, Table!Spec

-------------------------------------------------------------------------------
(* How the engine ends *)


\* Stop has waited for every loop; an exited loop has closed what it owned; what
\* got its OnClose is closed; a client has sockets only for its dials.
StopInv ==
    /\ inShutdown => \A l \in Loops : loop[l] = "exited"
    /\ \A l \in Loops : loop[l] = "exited" => \A c \in reg : owner[c] # l
    /\ \A c \in Conns : offs[c] > 0 => raw[c] = "closed"
    /\ IsClient => \A c \in Conns : dial[c] = "none" => raw[c] = "none"

\* Who calls the user's handler: a loop that has not exited, for a connection it owns.
CallbackMoves ==
    \/ UNCHANGED <<reg, ons, offs>>
    \/ \E l \in Loops, c \in Conns :
         /\ loop[l] # "exited" /\ owner[c] = l
         /\ Register(c) \/ (c \in reg /\ Close(c))

\* Nobody else does.
LEMMA CallbackStep == TypeOK /\ ConnInv /\ [Next]_vars => CallbackMoves
<1> SUFFICES ASSUME TypeOK, ConnInv, [Next]_vars PROVE CallbackMoves
  OBVIOUS
<1>a. ASSUME UNCHANGED <<reg, ons, offs>> PROVE CallbackMoves
  BY <1>a DEF CallbackMoves
<1>b. ASSUME NEW l \in Loops, NEW c \in Conns, NEW kind \in Kinds \ {"error"},
             Handles(l, Event(kind, c))
      PROVE  loop[l] # "exited" /\ owner[c] = l
  <2>1. Popped(l)
    BY <1>b DEF Handles, Popped
  <2>2. ch[l][1] = Event(kind, c) /\ 1 \in 1..Len(ch[l])
    BY <1>b, <2>1, PopElements DEF Handles, TypeOK
  <2>3. owner[c] = l
    BY <2>2 DEF ConnInv, Routed, Event
  <2> QED BY <1>b, <2>3 DEF Handles
<1>1. ASSUME NEW l \in Loops, HandleError(l) \/ HandleOpenOver(l) \/ FinishRollback(l) \/
             BeginDrain(l) \/ RejectOne(l) \/ EndDrain(l) \/ TurnOff(l)
      PROVE CallbackMoves
    BY <1>1, <1>a DEF HandleError, connVars, HandleOpenOver, FinishRollback, BeginDrain,
      RejectOne, EndDrain, TurnOff
<1>2. ASSUME NEW l \in Loops, HandleOpen(l) \/ HandleOpenClose(l) PROVE CallbackMoves
    <2>1. PICK c \in Conns : Handles(l, Event("open", c)) /\ Register(c)
      BY <1>2 DEF HandleOpen, HandleOpenClose
    <2>2. loop[l] # "exited" /\ owner[c] = l
      BY <2>1, <1>b DEF Kinds
    <2> QED BY <2>1, <2>2 DEF CallbackMoves
<1>3. ASSUME NEW l \in Loops, FinishOpen(l) PROVE CallbackMoves
    <2>1. PICK c \in Conns : c = busy[l].c
      BY <1>3 DEF FinishOpen, TypeOK, LoopTypeOK
    <2>2. Close(c) /\ c \in reg /\ owner[c] = l /\ loop[l] # "exited"
      BY <1>3, <2>1 DEF FinishOpen, ConnInv, BusyOwns
    <2> QED BY <2>2 DEF CallbackMoves
<1>4. ASSUME NEW l \in Loops, CleanupOne(l) PROVE CallbackMoves
    BY <1>4 DEF CleanupOne, CallbackMoves, TypeOK, ConnTypeOK
<1>5. ASSUME NEW l \in Loops, HandleClose(l) \/ HandleTraffic(l) PROVE CallbackMoves
    <2>1. CASE UNCHANGED <<connVars, raw>>
      BY <2>1, <1>a DEF connVars
    <2>2. CASE ~UNCHANGED <<connVars, raw>>
      <3>1. PICK c \in Conns, kind \in {"netErr", "close", "data", "wake"} :
              Handles(l, Event(kind, c)) /\ c \in reg /\ Close(c)
        BY <1>5, <2>2 DEF HandleClose, HandleTraffic
      <3>2. loop[l] # "exited" /\ owner[c] = l
        BY <3>1, <1>b DEF Kinds
      <3> QED BY <3>1, <3>2 DEF CallbackMoves
    <2> QED BY <2>1, <2>2
<1>6. ASSUME NEW l \in Loops, Exit(l) \/ StopNotify(l) PROVE CallbackMoves
    BY <1>6, <1>a DEF Exit, connVars, StopNotify
<1>7. ASSUME NEW c \in Conns, Accept(c) \/ DialStart(c) \/ DialFails(c) \/ DialCheck(c) \/
             DialPut(c) \/ DialOpened(c) \/ DialCancelled(c)
      PROVE CallbackMoves
    BY <1>7, <1>a DEF Accept, connVars, DialStart, DialFails, DialCheck, DialPut, DialOpened,
      DialCancelled
<1>8. ASSUME NEW c \in Conns, ReadData(c) \/ ReadError(c) \/ ReaderPut(c) \/
             ReaderGivesUp(c) \/ Post(c, "close") \/ Post(c, "wake") \/ WorkerPut(c)
      PROVE CallbackMoves
    BY <1>8, <1>a DEF ReadData, connVars, ReadError, ReaderPut, ReaderGivesUp, Post, WorkerPut
<1>9. ASSUME NEW c \in Conns, WorkerGivesUp(c) PROVE CallbackMoves
    BY <1>9, <1>a DEF WorkerGivesUp, connVars
<1>10. ASSUME AcceptCheck \/ AcceptPut \/ AcceptError \/ Stop \/ StopSeen \/ StopListeners \/
             StopJoin
      PROVE CallbackMoves
    BY <1>10, <1>a DEF AcceptCheck, connVars, AcceptPut, AcceptError, Stop, StopSeen,
      StopListeners, StopJoin
<1>11. CASE UNCHANGED vars
    BY <1>11, <1>a DEF vars, connVars
<1>12. QED
    BY <1>1, <1>2, <1>3, <1>4, <1>5, <1>6, <1>7, <1>8, <1>9, <1>10, <1>11
    DEF Next, LoopStep, DialStep, StopStep

\* How a loop gets to have exited: it had, or it exits now and owns nothing.  Stop returns
\* only to loops that have.
ExitMoves ==
    /\ \A k \in Loops : loop'[k] = "exited" =>
         loop[k] = "exited" \/ (UNCHANGED reg /\ \A c \in reg : owner[c] # k)
    /\ \A k \in Loops : loop[k] = "exited" => loop'[k] = "exited"
    /\ inShutdown' => inShutdown \/ \A k \in Loops : loop[k] = "exited"

\* Every step moves the loops that way.
LEMMA ExitStep == TypeOK /\ ConnInv /\ [Next]_vars => ExitMoves
<1> SUFFICES ASSUME EngineTypeOK, LoopTypeOK, ConnTypeOK, BusyOwns, [Next]_vars PROVE ExitMoves
  BY DEF TypeOK, ConnInv
<1>a. ASSUME UNCHANGED <<loop, inShutdown>> PROVE ExitMoves
  BY <1>a DEF ExitMoves
<1>b. ASSUME NEW l \in Loops, loop[l] # "exited", UNCHANGED inShutdown,
             NEW a \in {"run", "drain", "reject", "leave", "cleanup"}, loop' = [loop EXCEPT ![l] = a]
      PROVE  ExitMoves
  BY <1>b DEF ExitMoves, LoopTypeOK
<1>c. ASSUME NEW l \in Loops, loop[l] # "exited", UNCHANGED inShutdown, NEW r, Returns(l, r)
      PROVE  ExitMoves
  <2>1. PICK a \in {"run", "drain", "reject", "leave", "cleanup"} : loop' = [loop EXCEPT ![l] = a]
    BY <1>c DEF Returns
  <2> QED BY <1>b, <1>c, <2>1
<1>1. ASSUME NEW l \in Loops, HandleError(l) \/ HandleOpen(l) \/ HandleClose(l) \/ HandleTraffic(l)
      PROVE ExitMoves
    <2>1. loop[l] # "exited" /\ UNCHANGED inShutdown /\ \E r : Returns(l, r)
      BY <1>1 DEF HandleError, HandleOpen, HandleClose, HandleTraffic, Handles, stopVars
    <2> QED BY <1>c, <2>1
<1>2. ASSUME NEW l \in Loops, FinishRollback(l) \/ FinishOpen(l) PROVE ExitMoves
    <2>1. loop[l] # "exited" /\ UNCHANGED inShutdown /\ \E r : Returns(l, r)
      BY <1>2 DEF FinishRollback, FinishOpen, BusyOwns, stopVars
    <2> QED BY <1>c, <2>1
<1>3. ASSUME NEW l \in Loops, BeginDrain(l) \/ EndDrain(l) \/ TurnOff(l) PROVE ExitMoves
    BY <1>3, <1>b DEF BeginDrain, EndDrain, TurnOff, stopVars
<1>4. ASSUME NEW l \in Loops, Exit(l) PROVE ExitMoves
    BY <1>4 DEF Exit, ExitMoves, LoopTypeOK, stopVars, connVars
<1>5. ASSUME NEW l \in Loops,
             HandleOpenOver(l) \/ HandleOpenClose(l) \/ RejectOne(l) \/ CleanupOne(l) \/ StopNotify(l)
      PROVE ExitMoves
    BY <1>5, <1>a DEF HandleOpenOver, HandleOpenClose, RejectOne, CleanupOne, StopNotify, stopVars
<1>6. ASSUME NEW c \in Conns, Accept(c) \/ DialStart(c) \/ DialFails(c) \/ DialCheck(c) \/
             DialPut(c) \/ DialOpened(c) \/ DialCancelled(c)
      PROVE ExitMoves
    BY <1>6, <1>a DEF Accept, stopVars, DialStart, DialFails, DialCheck, DialPut, DialOpened,
      DialCancelled
<1>7. ASSUME NEW c \in Conns, ReadData(c) \/ ReadError(c) \/ ReaderPut(c) \/
             ReaderGivesUp(c) \/ Post(c, "close") \/ Post(c, "wake") \/ WorkerPut(c)
      PROVE ExitMoves
    BY <1>7, <1>a DEF ReadData, stopVars, ReadError, ReaderPut, ReaderGivesUp, Post, WorkerPut
<1>8. ASSUME NEW c \in Conns, WorkerGivesUp(c) PROVE ExitMoves
    BY <1>8, <1>a DEF WorkerGivesUp, stopVars
<1>9. ASSUME AcceptCheck \/ AcceptPut \/ AcceptError \/ Stop \/ StopSeen \/ StopListeners
      PROVE ExitMoves
    BY <1>9, <1>a DEF AcceptCheck, stopVars, AcceptPut, AcceptError, Stop, StopSeen, StopListeners
<1>10. ASSUME StopJoin PROVE ExitMoves
    BY <1>10 DEF StopJoin, ExitMoves
<1>11. CASE UNCHANGED vars
    BY <1>11, <1>a DEF vars, stopVars
<1>12. QED
    BY <1>1, <1>2, <1>3, <1>4, <1>5, <1>6, <1>7, <1>8, <1>9, <1>10, <1>11
    DEF Next, LoopStep, DialStep, StopStep

\* A client touches no socket but those of its dials, and a dial stays a dial.
LEMMA DialStaysNone ==
  ASSUME TypeOK, ConnInv, [Next]_vars, IsClient, NEW x \in Conns, dial'[x] = "none",
         dial[x] = "none" => raw[x] = "none"
  PROVE  raw'[x] = "none"
<1>0. acceptor.at = "exited" /\ IsClient
  BY DEF ConnInv, ModeOK
<1>a. ASSUME UNCHANGED <<raw, dial>> PROVE raw'[x] = "none"
  BY <1>a
<1>b. ASSUME NEW c \in Conns, ~Unposted(c), UNCHANGED dial, raw' = [raw EXCEPT ![c] = "closed"]
      PROVE  raw'[x] = "none"
  BY <1>0, <1>b DEF Unposted, TypeOK, ConnTypeOK
<1>c. ASSUME NEW c \in reg, UNCHANGED dial, Close(c) PROVE raw'[x] = "none"
  <2>1. c \in Conns /\ ~Unposted(c)
    BY <1>c DEF ConnInv, OpenIsNew, CallbacksPaired, TypeOK, ConnTypeOK
  <2> QED BY <1>b, <1>c, <2>1 DEF Close
<1>d. ASSUME NEW l \in Loops, ch[l] # <<>>, Head(ch[l]).kind = "open"
      PROVE  Head(ch[l]).c \in Conns /\ ~Unposted(Head(ch[l]).c)
  <2>1. 1 \in 1..Len(ch[l]) /\ Head(ch[l]) = ch[l][1]
    BY <1>d DEF TypeOK, QueueTypeOK
  <2> QED BY <1>d, <2>1 DEF ConnInv, Routed, OpenIsNew
<1>1. ASSUME NEW l \in Loops, HandleError(l) \/ HandleOpenOver(l) \/ HandleOpen(l) \/
             HandleOpenClose(l) \/ BeginDrain(l) \/ EndDrain(l) \/ TurnOff(l)
      PROVE raw'[x] = "none"
    BY <1>1, <1>a DEF HandleError, HandleOpenOver, HandleOpen, HandleOpenClose, BeginDrain,
      EndDrain, TurnOff
<1>2. ASSUME NEW l \in Loops, FinishRollback(l) PROVE raw'[x] = "none"
    <2>1. PICK c \in Conns : c = busy[l].c
      BY <1>2 DEF FinishRollback, TypeOK, LoopTypeOK
    <2>2. ~Unposted(c) /\ UNCHANGED dial /\ raw' = [raw EXCEPT ![c] = "closed"]
      BY <1>2, <2>1 DEF FinishRollback, ConnInv, BusyOwns
    <2> QED BY <1>b, <2>2
<1>3. ASSUME NEW l \in Loops, FinishOpen(l) PROVE raw'[x] = "none"
    <2>1. busy[l].c \in reg /\ Close(busy[l].c) /\ UNCHANGED dial
      BY <1>3 DEF FinishOpen, ConnInv, BusyOwns
    <2> QED BY <1>c, <2>1
<1>4. ASSUME NEW l \in Loops, HandleClose(l) \/ HandleTraffic(l) \/ CleanupOne(l)
      PROVE raw'[x] = "none"
    BY <1>4, <1>a, <1>c DEF HandleClose, HandleTraffic, CleanupOne
<1>5. ASSUME NEW l \in Loops, RejectOne(l) PROVE raw'[x] = "none"
    <2>1. CASE UNCHANGED raw
      BY <1>5, <2>1, <1>a DEF RejectOne
    <2>2. CASE Head(ch[l]).kind = "open" /\ raw' = [raw EXCEPT ![Head(ch[l]).c] = "closed"]
      BY <1>5, <2>2, <1>b, <1>d DEF RejectOne
    <2> QED BY <1>5, <2>1, <2>2 DEF RejectOne
<1>6. ASSUME NEW l \in Loops, Exit(l) \/ StopNotify(l) PROVE raw'[x] = "none"
    BY <1>6, <1>a DEF Exit, StopNotify
<1>7. ASSUME NEW c \in Conns, Accept(c) PROVE raw'[x] = "none"
    BY <1>0, <1>7 DEF Accept
<1>8. ASSUME NEW c \in Conns, DialStart(c) \/ DialFails(c) \/ DialCancelled(c) PROVE raw'[x] = "none"
    <2>1. dial'[c] # "none" /\ \A d \in Conns \ {c} : dial'[d] = dial[d] /\ raw'[d] = raw[d]
      BY <1>8 DEF DialStart, DialFails, DialCancelled, TypeOK, ConnTypeOK
    <2> QED BY <2>1
<1>9. ASSUME NEW c \in Conns, DialCheck(c) \/ DialPut(c) \/ DialOpened(c) PROVE raw'[x] = "none"
    <2>1. /\ UNCHANGED raw /\ dial'[c] # "none"
          /\ \A d \in Conns \ {c} : dial'[d] = dial[d]
      BY <1>9 DEF DialCheck, DialPut, DialOpened, TypeOK, ConnTypeOK
    <2> QED BY <2>1
<1>10. ASSUME NEW c \in Conns, ReadData(c) \/ ReadError(c) \/ ReaderPut(c) \/
             ReaderGivesUp(c) \/ Post(c, "close") \/ Post(c, "wake") \/ WorkerPut(c)
      PROVE raw'[x] = "none"
    BY <1>10, <1>a DEF ReadData, ReadError, ReaderPut, ReaderGivesUp, Post, WorkerPut
<1>11. ASSUME NEW c \in Conns, WorkerGivesUp(c) PROVE raw'[x] = "none"
    BY <1>11, <1>a DEF WorkerGivesUp
<1>12. ASSUME AcceptCheck \/ AcceptPut \/ AcceptError PROVE raw'[x] = "none"
    BY <1>0, <1>12 DEF AcceptCheck, AcceptPut, AcceptError
<1>13. ASSUME Stop \/ StopSeen \/ StopListeners \/ StopJoin PROVE raw'[x] = "none"
    BY <1>13, <1>a DEF Stop, StopSeen, StopListeners, StopJoin
<1>14. CASE UNCHANGED vars
    BY <1>14, <1>a DEF vars
<1>15. QED
    BY <1>1, <1>2, <1>3, <1>4, <1>5, <1>6, <1>7, <1>8, <1>9, <1>10, <1>11, <1>12, <1>13, <1>14
    DEF Next, LoopStep, DialStep, StopStep

\* A new engine has nothing to close.
LEMMA InitStop == Init => StopInv
  BY DEF Init, StopInv

\* StopInv is inductive: an exited loop handles nothing, so it never gets a connection.
LEMMA StopInvStep == TypeOK /\ ConnInv /\ StopInv /\ [Next]_vars => StopInv'
<1> SUFFICES ASSUME TypeOK, ConnInv, StopInv, [Next]_vars PROVE StopInv'
  OBVIOUS
<1>1. CallbackMoves /\ ExitMoves /\ UNCHANGED owner
  BY CallbackStep, ExitStep, OwnerFixed
<1>2. inShutdown' => \A l \in Loops : loop'[l] = "exited"
  BY <1>1 DEF ExitMoves, StopInv
<1>3. \A l \in Loops : loop'[l] = "exited" => \A c \in reg' : owner'[c] # l
  <2> SUFFICES ASSUME NEW l \in Loops, loop'[l] = "exited", NEW c \in reg' PROVE owner[c] # l
    BY <1>1
  <2>1. CASE loop[l] # "exited"
    BY <1>1, <2>1 DEF ExitMoves
  <2>2. CASE loop[l] = "exited"
    <3>1. \A d \in reg : owner[d] # l
      BY <2>2 DEF StopInv
    <3>2. c \in reg \/ owner[c] # l
      BY <1>1, <2>2 DEF CallbackMoves, Register, Close
    <3> QED BY <3>1, <3>2
  <2> QED BY <2>1, <2>2
<1>4. \A c \in Conns : offs'[c] > 0 => raw'[c] = "closed"
  <2> SUFFICES ASSUME NEW c \in Conns, offs'[c] > 0 PROVE raw'[c] = "closed"
    OBVIOUS
  <2>1. offs'[c] = offs[c] \/ (c \in reg /\ Close(c))
    BY <1>1 DEF CallbackMoves, Register, Close, TypeOK, ConnTypeOK
  <2>2. CASE offs'[c] = offs[c]
    BY <2>2, ClosedForGood DEF StopInv
  <2>3. CASE Close(c)
    BY <2>3 DEF Close, TypeOK, ConnTypeOK
  <2> QED BY <2>1, <2>2, <2>3
<1>5. IsClient => \A c \in Conns : dial'[c] = "none" => raw'[c] = "none"
  BY DialStaysNone DEF StopInv
<1> QED BY <1>2, <1>3, <1>4, <1>5 DEF StopInv

\* The engine stops cleanly: what StopInv says holds all along.
LEMMA EngineStop == Spec => []StopInv
<1> QED BY InitStop, StopInvStep, EngineType, EngineConn, PTL DEF Spec

\* engine.totalConn never drifts (eventloop.open and close): it counts the registered
\* connections and the increments about to be taken back, however many loops race.
THEOREM EngineAccounts == Spec => []QuotaAccounted
<1>1. QuotaAccounted /\ QuotaHeld => QuotaAccounted
  OBVIOUS
<1> QED BY <1>1, EngineQuota, PTL

\* No callback runs once Stop has returned (engine.stop waits for every loop): OnOpen and
\* OnClose are called by loops that have not exited, and by nobody else.
THEOREM EngineQuiet == Spec => QuietAfterStop
<1>1. TypeOK /\ ConnInv /\ StopInv /\ [Next]_vars => [inShutdown => UNCHANGED <<ons, offs>>]_vars
  BY CallbackStep DEF CallbackMoves, StopInv
<1> QED BY <1>1, EngineType, EngineConn, EngineStop, PTL DEF Spec, QuietAfterStop

\* A client leaves no socket open (client.Stop, EnrollContext): once Stop has returned,
\* every socket whose dial is over is closed, those left in an exited loop's queue included.
THEOREM EngineClosesSockets == Spec => []ClientLeavesNothingOpen
<1>1. TypeOK /\ ConnInv /\ StopInv => ClientLeavesNothingOpen
  <2> SUFFICES ASSUME TypeOK, ConnInv, StopInv, IsClient, inShutdown, NEW c \in Conns,
                      dial[c] \in {"none", "ok", "failed"}
               PROVE  raw[c] # "open"
    BY DEF ClientLeavesNothingOpen
  <2>1. CASE dial[c] = "none"
    BY <2>1 DEF StopInv
  <2>2. CASE dial[c] = "failed"
    BY <2>2 DEF ConnInv, DialTruthful
  <2>3. CASE dial[c] = "ok"
    <3>1. owner[c] \in Loops /\ c \notin reg
      BY DEF StopInv, TypeOK, ConnTypeOK
    <3>2. ons[c] = 1
      BY <2>3 DEF ConnInv, DialTruthful
    <3>3. offs[c] > 0
      BY <3>1, <3>2 DEF ConnInv, CallbacksPaired, TypeOK, ConnTypeOK
    <3> QED BY <3>3 DEF StopInv
  <2> QED BY <2>1, <2>2, <2>3
<1> QED BY <1>1, EngineType, EngineConn, EngineStop, PTL
=============================================================================
