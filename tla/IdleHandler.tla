------------------------------ MODULE IdleHandler ------------------------------
(***************************************************************************)
(* The idle handler of agonet/simple (IdleStateHandler) in the pipeline of *)
(* one connection.  Three goroutines touch it: the event loop (active,     *)
(* inactive, reads, the idle check), the timers' own goroutines, which     *)
(* only hand a check to the loop, and a user's goroutine in channel.Write, *)
(* whose pipeline walk runs HandleWrite outside the loop.                  *)
(***************************************************************************)
EXTENDS Integers

CONSTANTS
    Kinds,        \* the idle states watched: a subset of reader, writer, all
    IdleTime,     \* their idle time, in ticks
    MaxReads,     \* bound: packets received and messages written
    MaxTasks,     \* bound: timer goroutines and posted checks of one kind
    MaxRefusedChecks  \* bound: checks the event loop or the pool refuses

ASSUME IdleAssumption ==
    IdleTime \in Nat /\ Kinds \subseteq {"reader", "writer", "all"}

VARIABLES
    conn,         \* "new", "active", "closed", or "half" opened and closed
    handlerCtx,   \* idleHandler.handlerCtx is set
    timer,        \* readTimer, writTimer, allTimer are not nil
    due,          \* ticks until the timer of a kind fires; Off if it is not armed
    firing,       \* timer goroutines in onTimeoutInEL
    tasks,        \* checks on their way through the loop's queue
    first,        \* firstReadIdleEvent, firstWriterIdleEvent, firstAllIdleEvent
    age,          \* time since lastReadTime and lastWritTime, up to IdleTime
    writer,       \* the user goroutine in HandleWrite
    closing,      \* channel.Close has asked the loop to close
    idleHandling, \* pipeline.handlingException
    checksRefused, \* checks that were refused
    moves,        \* packets and messages so far
    check,        \* the check the loop is in, after it found the silence long enough
    told,         \* the silence of a kind has been reported, by an event no write overtook
    event         \* the last idle event: its kind and whether it was marked first

idleVars == <<conn, handlerCtx, timer, due, firing, tasks, first, age, writer, closing,
              idleHandling, checksRefused, moves, check, told, event>>

Off == -1
Never == [k \in Kinds |-> 0]
\* overtaken is history: a HandleWrite has stamped its time since the test.
NoCheck == [at |-> "none", kind |-> "none", first |-> FALSE, overtaken |-> FALSE]
NoEvent == [kind |-> "none", first |-> FALSE, n |-> 0]

IdleInit ==
    /\ conn = "new" /\ handlerCtx = FALSE
    /\ timer = [k \in Kinds |-> FALSE] /\ due = [k \in Kinds |-> Off]
    /\ firing = Never /\ tasks = Never
    /\ first = [k \in Kinds |-> TRUE]
    /\ age = [way \in {"read", "write"} |-> 0]
    /\ writer = "idle" /\ closing = FALSE /\ idleHandling = FALSE
    /\ checksRefused = 0 /\ moves = 0 /\ check = NoCheck /\ told = [k \in Kinds |-> FALSE] /\ event = NoEvent

\* Timer.Reset re-arms a timer, fired or not.
Reset(k) == due' = [due EXCEPT ![k] = IdleTime]

-------------------------------------------------------------------------------
(* The event loop: one step of it at a time, so none while a check is under way *)

\* HandleActive and initialize.  A later handler that panics in HandleActive
\* makes OnOpen close the connection before the channel is bound to it: the
\* handlers in front of it are never told that the connection is inactive.
HandleActive ==
    /\ conn = "new" /\ conn' \in {"active", "half"}
    /\ handlerCtx' = TRUE
    /\ age' = [way \in {"read", "write"} |-> 0]
    /\ first' = [k \in Kinds |-> TRUE]
    /\ timer' = [k \in Kinds |-> TRUE] /\ due' = [k \in Kinds |-> IdleTime]
    /\ UNCHANGED <<firing, tasks, writer, closing, idleHandling, checksRefused, moves, check,
                   told, event>>

\* Mutant of HandleInactive: the timers are stopped, the context is kept.
HandleInactiveKeeps ==
    /\ conn = "active" /\ check = NoCheck /\ conn' = "closed"
    /\ due' = [k \in Kinds |-> Off]
    /\ UNCHANGED <<handlerCtx, timer, firing, tasks, first, age, writer, closing,
                   idleHandling, checksRefused, moves, check, told, event>>

\* HandleInactive: the peer closed, or channel.Close asked for it.  Stop does
\* not wait for a timer goroutine that has started.
HandleInactive ==
    /\ conn = "active" /\ check = NoCheck /\ conn' = "closed"
    /\ handlerCtx' = FALSE
    /\ timer' = [k \in Kinds |-> FALSE] /\ due' = [k \in Kinds |-> Off]
    /\ UNCHANGED <<firing, tasks, first, age, writer, closing, idleHandling, checksRefused, moves,
                   check, told, event>>

\* The activities that end a silence: a read ends reader and all, a write the
\* other two.
EndedBy(way) == Kinds \cap (IF way = "read" THEN {"reader", "all"} ELSE {"writer", "all"})

\* HandleRead, after the handlers behind it have returned.
HandleRead ==
    /\ conn = "active" /\ check = NoCheck /\ moves < MaxReads /\ moves' = moves + 1
    /\ age' = [age EXCEPT !["read"] = 0]
    /\ first' = [k \in Kinds |-> k \in EndedBy("read") \/ first[k]]
    /\ told' = [k \in Kinds |-> k \notin EndedBy("read") /\ told[k]]
    /\ IF "reader" \in Kinds /\ timer["reader"] THEN Reset("reader") ELSE UNCHANGED due
    /\ UNCHANGED <<conn, handlerCtx, timer, firing, tasks, writer, closing, idleHandling,
                   checksRefused, check, event>>

\* FireChannelException: whoever finds the chain busy is ignored; otherwise a
\* handler deals with the error, the tail handler closes the channel, or the
\* handler panics, and the flag stays.
FireChannelException ==
    \/ idleHandling /\ UNCHANGED <<idleHandling, closing>>
    \/ ~idleHandling /\ idleHandling' \in BOOLEAN /\ UNCHANGED closing
    \/ ~idleHandling /\ closing' = TRUE /\ UNCHANGED idleHandling

\* What a read must leave silent, and a write, for an event of kind k.
ReadSilent(k) == k \in {"reader", "all"} => age["read"] >= IdleTime
WriteSilent(k) == k \in {"writer", "all"} => age["write"] >= IdleTime

\* The silence of a kind has lasted its idle time.  time.Since compares one
\* monotonic word of lastWritTime, which the write in the user's goroutine
\* replaces as a whole.
Expired(k) == ReadSilent(k) /\ WriteSilent(k)

\* Mutant of CheckIdle: an event without looking at the clock.
CheckIdleUnchecked(k) ==
    /\ check = NoCheck /\ tasks[k] > 0 /\ tasks' = [tasks EXCEPT ![k] = @ - 1]
    /\ check' = IF timer[k] /\ handlerCtx THEN [NoCheck EXCEPT !.at = "expired", !.kind = k] ELSE check
    /\ UNCHANGED <<conn, handlerCtx, timer, due, firing, first, age, writer, closing, idleHandling,
                   checksRefused, moves, told, event>>

\* checkIdle and the head of onReadTimeout, onWriteTimeout, onAllTimeout: an
\* inactive handler does nothing, a silence that is too short re-arms the timer.
\* Only the loop takes the context away, so its second load is the first's.
CheckIdle(k) ==
    /\ check = NoCheck /\ tasks[k] > 0 /\ tasks' = [tasks EXCEPT ![k] = @ - 1]
    /\ \/ ~(timer[k] /\ handlerCtx) /\ UNCHANGED <<due, check>>
       \/ timer[k] /\ handlerCtx /\ ~Expired(k) /\ Reset(k) /\ UNCHANGED check
       \/ /\ timer[k] /\ handlerCtx /\ Expired(k)
          /\ check' = [NoCheck EXCEPT !.at = "expired", !.kind = k] /\ UNCHANGED due
    /\ UNCHANGED <<conn, handlerCtx, timer, firing, first, age, writer, closing, idleHandling,
                   checksRefused, moves, told, event>>

\* The flag is read, then cleared; HandleWrite may set it before, between and after.
ReadFirst ==
    /\ check.at = "expired"
    /\ check' = [check EXCEPT !.at = "marked", !.first = first[check.kind]]
    /\ UNCHANGED <<conn, handlerCtx, timer, due, firing, tasks, first, age, writer, closing,
                   idleHandling, checksRefused, moves, told, event>>

ClearFirst ==
    /\ check.at = "marked"
    /\ check' = [check EXCEPT !.at = "cleared"]
    /\ first' = [first EXCEPT ![check.kind] = FALSE]
    /\ UNCHANGED <<conn, handlerCtx, timer, due, firing, tasks, age, writer, closing,
                   idleHandling, checksRefused, moves, told, event>>

\* Mutant of TriggerIdle: the timer is re-armed only when no event was due.
TriggerIdleOnce ==
    /\ check.at = "cleared" /\ check' = NoCheck
    /\ event' = [kind |-> check.kind, first |-> check.first, n |-> 1 - event.n]
    /\ told' = [told EXCEPT ![check.kind] = @ \/ Expired(check.kind)]
    /\ FireChannelException \/ UNCHANGED <<idleHandling, closing>>
    /\ UNCHANGED <<conn, handlerCtx, timer, due, firing, tasks, first, age, writer, checksRefused,
                   moves>>

\* Trigger hands the event to the handlers behind this one and recovers their
\* panic; then the timer is re-armed.  An event that a write has overtaken does
\* not tell of the silence that began with it.
TriggerIdle ==
    /\ check.at = "cleared" /\ check' = NoCheck
    /\ event' = [kind |-> check.kind, first |-> check.first, n |-> 1 - event.n]
    /\ told' = [told EXCEPT ![check.kind] = @ \/ Expired(check.kind)]
    /\ FireChannelException \/ UNCHANGED <<idleHandling, closing>>
    /\ Reset(check.kind)
    /\ UNCHANGED <<conn, handlerCtx, timer, firing, tasks, first, age, writer, checksRefused, moves>>

-------------------------------------------------------------------------------
(* Time and the timers' goroutines *)

Tick ==
    /\ age' = [way \in DOMAIN age |-> IF age[way] < IdleTime THEN age[way] + 1 ELSE IdleTime]
    /\ due' = [k \in Kinds |-> IF due[k] > 0 THEN due[k] - 1 ELSE due[k]]
    /\ UNCHANGED <<conn, handlerCtx, timer, firing, tasks, first, writer, closing,
                   idleHandling, checksRefused, moves, check, told, event>>

TimerFires(k) ==
    /\ due[k] = 0 /\ firing[k] + tasks[k] < MaxTasks
    /\ due' = [due EXCEPT ![k] = Off]
    /\ firing' = [firing EXCEPT ![k] = @ + 1]
    /\ UNCHANGED <<conn, handlerCtx, timer, tasks, first, age, writer, closing, idleHandling,
                   checksRefused, moves, check, told, event>>

\* onTimeoutInEL: without a context it is over; otherwise the check is handed
\* to the loop, and a refusal is thrown into the pipeline from this goroutine.
OnTimeoutInEL(k) ==
    /\ firing[k] > 0 /\ firing' = [firing EXCEPT ![k] = @ - 1]
    /\ \/ ~handlerCtx /\ UNCHANGED <<tasks, checksRefused, idleHandling, closing>>
       \/ /\ handlerCtx /\ tasks' = [tasks EXCEPT ![k] = @ + 1]
          /\ UNCHANGED <<checksRefused, idleHandling, closing>>
       \/ /\ handlerCtx /\ checksRefused < MaxRefusedChecks /\ checksRefused' = checksRefused + 1
          /\ FireChannelException /\ UNCHANGED tasks
    /\ UNCHANGED <<conn, handlerCtx, timer, due, first, age, writer, moves, check, told,
                   event>>

-------------------------------------------------------------------------------
(* channel.Write in a user's goroutine: HandleWrite after FireWrite *)

WriteStamps ==
    /\ writer = "idle" /\ conn = "active" /\ ~closing
    /\ moves < MaxReads /\ moves' = moves + 1
    /\ writer' = "flags"
    /\ age' = [age EXCEPT !["write"] = 0]
    /\ check' = IF check = NoCheck THEN check ELSE [check EXCEPT !.overtaken = TRUE]
    /\ UNCHANGED <<conn, handlerCtx, timer, due, firing, tasks, first, closing, idleHandling,
                   checksRefused, told, event>>

WriteFlags ==
    /\ writer = "flags"
    /\ writer' = IF "writer" \in Kinds /\ timer["writer"] THEN "reset" ELSE "idle"
    /\ first' = [k \in Kinds |-> k \in EndedBy("write") \/ first[k]]
    /\ told' = [k \in Kinds |-> k \notin EndedBy("write") /\ told[k]]
    /\ UNCHANGED <<conn, handlerCtx, timer, due, firing, tasks, age, closing, idleHandling,
                   checksRefused, moves, check, event>>

\* writTimer was not nil when it was tested.  When the loop has set it to nil
\* since, the timer read before is re-armed, or the nil one panics and
\* invokeMethod throws the panic into the pipeline of the closed connection.
WriteResets ==
    /\ writer = "reset" /\ writer' = "idle"
    /\ \/ Reset("writer") /\ UNCHANGED <<idleHandling, closing>>
       \/ /\ ~timer["writer"] /\ UNCHANGED due
          /\ idleHandling' \in {idleHandling, TRUE} /\ closing' \in {closing, TRUE}
    /\ UNCHANGED <<conn, handlerCtx, timer, firing, tasks, first, age, checksRefused, moves,
                   check, told, event>>

-------------------------------------------------------------------------------

CheckStep == (\E k \in Kinds : CheckIdle(k)) \/ ReadFirst \/ ClearFirst \/ TriggerIdle

IdleLoopStep == HandleActive \/ CheckStep \/ (closing /\ HandleInactive)

TimerStep == \E k \in Kinds : TimerFires(k) \/ OnTimeoutInEL(k)

WriterStep == WriteStamps \/ WriteFlags \/ WriteResets

IdleNext == IdleLoopStep \/ HandleInactive \/ HandleRead \/ Tick \/ TimerStep \/ WriterStep

\* Time passes, timers fire and the loop runs; nobody has to read or write.  The
\* loop's queue is first in, first out: a queued check has its turn however
\* many checks of other kinds come behind it, hence the strong fairness.
IdleFairness ==
    /\ WF_idleVars(HandleActive) /\ WF_idleVars(closing /\ HandleInactive)
    /\ WF_idleVars(Tick)
    /\ \A k \in Kinds :
         WF_idleVars(TimerFires(k)) /\ WF_idleVars(OnTimeoutInEL(k)) /\ SF_idleVars(CheckIdle(k))
    /\ WF_idleVars(ReadFirst \/ ClearFirst \/ TriggerIdle)
    /\ WF_idleVars(WriteFlags \/ WriteResets)

IdleSpec == IdleInit /\ [][IdleNext]_idleVars /\ IdleFairness

-------------------------------------------------------------------------------

\* An idle event is honest (handler_idle.go:182-277 against 121-132): it reaches
\* the handlers only on a connection whose inactive event has not been fired.
\* For the reader it comes after the full silence and is marked first exactly
\* when it is the first of its silence.  For writer and all the silence has
\* lasted too, unless a write stamped its time after this very check looked at
\* it: HandleWrite runs in the user's goroutine, and only such a write can make
\* the event late.
IdleHonest ==
    [][event' # event =>
         /\ conn # "closed"
         /\ ReadSilent(event'.kind)
         /\ WriteSilent(event'.kind) \/ check.overtaken
         /\ event'.kind = "reader" => (event'.first <=> ~told["reader"])]_idleVars

\* The watch is never lost: while the connection is active each kind has an
\* armed timer, a timer goroutine, or a check queued or under way, unless a
\* check was refused.
WatchKept ==
    conn = "active" /\ checksRefused = 0 =>
        \A k \in Kinds : due[k] # Off \/ firing[k] > 0 \/ tasks[k] > 0 \/ check.kind = k

\* A silent connection is reported, by an event that no write has overtaken.
IdleArrives ==
    \A k \in Kinds :
        (conn = "active") ~> (told[k] \/ conn # "active" \/ checksRefused > 0)

\* An exception handler that panics leaves handlingException set; the
\* connection is closed then.
PanicCloses == idleHandling ~> (conn \in {"closed", "half"})
================================================================================
