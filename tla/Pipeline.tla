------------------------------- MODULE Pipeline -------------------------------
(***************************************************************************)
(* The pipeline of agonet/simple: a doubly linked list of handler          *)
(* contexts.  AddFirst and AddLast change it under a mutex, two pointer    *)
(* stores each, from any goroutine (the short client adds its handlers     *)
(* while the event loop is already delivering); events walk it without the *)
(* mutex, along next, and writes along prev.                               *)
(***************************************************************************)
EXTENDS Integers, Sequences, Functions

CONSTANTS
    Handlers,     \* [name -> [casts, func, unshareable]]: the handlers there are
    Adders,       \* goroutines that add
    Walkers,      \* goroutines that deliver
    MaxContexts   \* bound: contexts made

ASSUME PipelineAssumption == MaxContexts \in Nat

VARIABLES
    next, prev,   \* handlerContext.next and prev
    handler,      \* handlerContext.handler
    adding,       \* what a goroutine in addFirst or addLast still has to store
    mu,           \* pipeline.mu is held
    bound,        \* handlers whose TryBind has succeeded
    walk,         \* what a goroutine delivers, from where, and to whom it did
    \* History variables
    order,        \* contexts in the order in which the calls were made
    linked        \* contexts both of whose neighbours know them

chainVars == <<next, prev, handler>>
pipelineVars == <<chainVars, adding, mu, bound, walk, order, linked>>

Contexts == 1..MaxContexts
First == 0
Rear == MaxContexts + 1
Nil == -1
Stopped == -2
Nodes == 0..(MaxContexts + 1)
Events == {"inbound", "outbound", "exception", "active", "inactive", "event"}

\* headHandler and tailHandler
EndCasts(c) == IF c = First THEN {"outbound"} ELSE {"exception"}

\* newHandlerContext: the casts are made once, here.
Casts(c) == IF c \in {First, Rear} THEN EndCasts(c) ELSE Handlers[handler[c]].casts

Idle == [at |-> Stopped, event |-> "", from |-> Nil, seen |-> <<>>, must |-> {}]
NotAdding == [where |-> "", ctx |-> 0, other |-> Nil]

\* NewPipeline
PipelineInit ==
    /\ next = [c \in Nodes |-> IF c = First THEN Rear ELSE Nil]
    /\ prev = [c \in Nodes |-> IF c = Rear THEN First ELSE Nil]
    /\ handler = <<>>
    /\ adding = [a \in Adders |-> NotAdding] /\ mu = FALSE
    /\ bound = {}
    /\ walk = [w \in Walkers |-> Idle]
    /\ order = <<>> /\ linked = {}

-------------------------------------------------------------------------------
(* AddFirst and AddLast *)

\* checkHandler: an inactive handler passes only as an InactiveHandlerFunc.
checkHandler(h) ==
    \/ Handlers[h].casts \cap {"inbound", "outbound", "exception", "active", "event"} # {}
    \/ "inactive" \in Handlers[h].casts /\ Handlers[h].func

\* bindHandler with UnshareableHandlerBase.TryBind
bindHandler(h) == Handlers[h].unshareable => h \notin bound

New == Len(handler) + 1

\* Mutant of Lock: structural changes are not serialized.
LockNothing(a) == UNCHANGED mu

\* p.mu.Lock in addFirst and addLast
Lock(a) == ~mu /\ mu' = TRUE

\* addFirst up to its first store: the new context is reachable forwards.
AddFirst(a, h) ==
    /\ adding[a] = NotAdding /\ Len(handler) < MaxContexts
    /\ checkHandler(h) /\ Lock(a) /\ bindHandler(h)
    /\ bound' = bound \cup {h}
    /\ handler' = Append(handler, h)
    /\ next' = [next EXCEPT ![New] = next[First], ![First] = New]
    /\ prev' = [prev EXCEPT ![New] = First]
    /\ adding' = [adding EXCEPT ![a] = [where |-> "first", ctx |-> New, other |-> next[First]]]
    /\ order' = <<New>> \o order
    /\ UNCHANGED <<walk, linked>>

\* addLast up to its first store: the new context is reachable backwards.
AddLast(a, h) ==
    /\ adding[a] = NotAdding /\ Len(handler) < MaxContexts
    /\ checkHandler(h) /\ Lock(a) /\ bindHandler(h)
    /\ bound' = bound \cup {h}
    /\ handler' = Append(handler, h)
    /\ next' = [next EXCEPT ![New] = Rear]
    /\ prev' = [prev EXCEPT ![New] = prev[Rear], ![Rear] = New]
    /\ adding' = [adding EXCEPT ![a] = [where |-> "last", ctx |-> New, other |-> prev[Rear]]]
    /\ order' = Append(order, New)
    /\ UNCHANGED <<walk, linked>>

\* The second store, and the deferred Unlock.
AddEnds(a) ==
    /\ adding[a] # NotAdding
    /\ IF adding[a].where = "first"
       THEN prev' = [prev EXCEPT ![adding[a].other] = adding[a].ctx] /\ UNCHANGED next
       ELSE next' = [next EXCEPT ![adding[a].other] = adding[a].ctx] /\ UNCHANGED prev
    /\ linked' = linked \cup {adding[a].ctx}
    /\ adding' = [adding EXCEPT ![a] = NotAdding] /\ mu' = FALSE
    /\ UNCHANGED <<handler, bound, walk, order>>

-------------------------------------------------------------------------------
(* Delivery *)

Forward(e) == e # "outbound"

\* Where c stands: the head before all others, the tail behind them.
Place(c) == IF c \in {First, Rear} THEN c
            ELSE CHOOSE i \in DOMAIN order : order[i] = c

\* c lies on the way of event e from f.
Ahead(e, f, c) == IF Forward(e) THEN Place(c) > Place(f) ELSE Place(c) < Place(f)

\* FireChannelActive to FireChannelEvent begin at the head, FireChannelWrite at
\* the tail; a handler fires on, writes or triggers from its own context, once
\* for each message it makes (SimpleCodec).
Fire(w, e, f) ==
    /\ walk[w].at = Stopped
    /\ f \in linked \cup {IF Forward(e) THEN First ELSE Rear}
    /\ walk' = [walk EXCEPT ![w] =
          [at |-> f, event |-> e, from |-> f, seen |-> <<>>,
           must |-> {c \in linked \cup {First, Rear} : Ahead(e, f, c) /\ e \in Casts(c)}]]
    /\ UNCHANGED <<chainVars, adding, mu, bound, order, linked>>

\* Mutant of Step: stops before the last context.
StepShort(w) ==
    /\ walk[w].at \notin {Stopped, Nil}
    /\ LET to == IF Forward(walk[w].event) THEN next[walk[w].at] ELSE prev[walk[w].at]
       IN walk' = [walk EXCEPT ![w].at = IF to \in {First, Rear} THEN Nil ELSE to,
                               ![w].seen = IF to \in Contexts /\ walk[w].event \in Casts(to)
                                           THEN Append(@, to) ELSE @]
    /\ UNCHANGED <<chainVars, adding, mu, bound, order, linked>>

\* One turn of the loops in FireActive, FireInactive, FireRead, FireWrite,
\* FireExceptionCaught and FireEvent: the next context, and its handler if it
\* takes such events; the handler passes the event on.
Step(w) ==
    /\ walk[w].at \notin {Stopped, Nil}
    /\ LET to == IF Forward(walk[w].event) THEN next[walk[w].at] ELSE prev[walk[w].at]
       IN walk' = [walk EXCEPT ![w].at = to,
                               ![w].seen = IF to # Nil /\ walk[w].event \in Casts(to)
                                           THEN Append(@, to) ELSE @]
    /\ UNCHANGED <<chainVars, adding, mu, bound, order, linked>>

\* A handler that does not pass it on, and the return at the end of the chain.
Return(w) ==
    /\ walk[w].at # Stopped
    /\ walk[w].at = Nil \/ (walk[w].seen # <<>> /\ walk[w].seen[Len(walk[w].seen)] = walk[w].at)
    /\ walk' = [walk EXCEPT ![w] = Idle]
    /\ UNCHANGED <<chainVars, adding, mu, bound, order, linked>>

-------------------------------------------------------------------------------

PipelineNext ==
    \/ \E a \in Adders : \/ \E h \in DOMAIN Handlers : AddFirst(a, h) \/ AddLast(a, h)
                         \/ AddEnds(a)
    \/ \E w \in Walkers : \/ \E e \in Events, f \in linked \cup {First, Rear} : Fire(w, e, f)
                          \/ Step(w) \/ Return(w)

PipelineSpec == PipelineInit /\ [][PipelineNext]_pipelineVars

-------------------------------------------------------------------------------

\* An event reaches handlers in the order of the chain, none twice, and at the
\* end it has reached every handler for it that was there when it set out,
\* however many are being added meanwhile.
DeliveredInOrder ==
    \A w \in Walkers : walk[w].at # Stopped =>
        /\ \A i, j \in DOMAIN walk[w].seen :
             i < j => Ahead(walk[w].event, walk[w].seen[i], walk[w].seen[j])
        /\ walk[w].at = Nil => walk[w].must \subseteq Range(walk[w].seen)
===============================================================================
