----------------------------- MODULE ServiceCall -----------------------------
(***************************************************************************)
(* Service calls through a chain of middlewares (ag/ag_service) and the    *)
(* declarative transactions of agdb, one request at a time: a goroutine    *)
(* goes down the chain of a call, its handler writes and calls other       *)
(* services, and results, errors and panics come back up.                  *)
(*                                                                         *)
(* A middleware is its kind and its order; sort.Sort is not stable, so     *)
(* that middlewares of the same order may come in any order.  gorm's       *)
(* Transaction commits when its function returns nil and rolls back on an  *)
(* error and on a panic, which goes on.                                    *)
(***************************************************************************)
EXTENDS Integers, Sequences, FiniteSets, Functions

CONSTANTS
    Calls,       \* the calls of the services
    Tag,         \* [Calls -> values of TransactionTag], "nil" for none
    Globals,     \* the middlewares of the builder
    Custom,      \* [Calls -> sequences of middlewares]
    MaxDepth,    \* bound: calls inside calls
    MaxWrites    \* bound: writes to the database

\* Below all other orders, as math.MinInt in callInfoCtxBindMw.
MinInt == -1

\* TransactionPreOpt: true stands for REQUIRED, false and foreign types for nothing.
Propagation(tag) ==
    IF tag = "true" THEN "REQUIRED" ELSE IF tag \in {"nil", "false", "foreign"} THEN "nil" ELSE tag

\* A middleware of another kind calls next and hands on what it gets.
Kinds == {"bind", "tx", "recover", "other"}
Provided == [kind : Kinds \ {"bind"}, order : Nat]

\* No middleware comes before the binder, and a call that asks for a transaction
\* finds the transaction middleware in the builder or among its own.
ASSUME ServiceCallAssumption ==
    /\ Globals \in Seq(Provided)
    /\ Custom \in [Calls -> Seq(Provided)]
    /\ \A c \in Calls : Propagation(Tag[c]) = "REQUIRED" =>
          \E mw \in Range(Globals) \cup Range(Custom[c]) : mw.kind = "tx"

VARIABLES
    info,        \* [Calls -> CallInfo]: locked, and the tag of the propagation
    chain,       \* [Calls -> sequence of kinds], <<>> for an endpoint not built
    stack,       \* frames: the middlewares and handlers that have been entered
    ret,         \* "running", or what is coming up the stack
    buffer,      \* writes of the open transaction
    durable,     \* writes the database keeps
    \* History variables
    written,     \* all writes, each with the unit of work it belongs to
    outcome,     \* what the callers of the units were told, in their order
    current      \* the unit whose transaction is open, 0 for none

callVars == <<info, chain, stack, ret, buffer, durable, written, outcome, current>>

CallInit ==
    /\ info = [c \in Calls |-> [locked |-> FALSE, tp |-> "nil"]]
    /\ chain = [c \in Calls |-> <<>>]
    /\ stack = <<>> /\ ret = "running"
    /\ buffer = {} /\ durable = {} /\ written = {} /\ outcome = <<>> /\ current = 0

-------------------------------------------------------------------------------
(* Building an endpoint *)

IsSupportsTransaction(tp) == tp \in {"SUPPORTS", "REQUIRED"}

\* AddTag refuses a locked CallInfo and a tag that is there.
CanAddTag(c) == ~info[c].locked /\ info[c].tp = "nil"

\* TransactionMiddlewareProvider.Condition, the one conditional middleware.
Condition(mw, tp) == mw.kind = "tx" => tp # "nil"

\* What buildEndpointChain has to choose from: the binder of the CallInfo, the
\* middlewares of the builder and those of the call.
Middlewares(c) == <<[kind |-> "bind", order |-> MinInt]>> \o (Globals \o Custom[c])

\* buildEndpointChain: those that fit, in an order in which sort.Sort by GetOrder
\* may leave them.
Chains(c, tp) ==
    LET mws == Middlewares(c)
        fit == {i \in DOMAIN mws : Condition(mws[i], tp)}
        Sorted(p) == \A i, j \in DOMAIN p : i < j => mws[p[i]].order <= mws[p[j]].order
    IN  {[i \in DOMAIN p |-> mws[p[i]].kind] :
            p \in {q \in [1..Cardinality(fit) -> fit] : Range(q) = fit /\ Sorted(q)}}

\* BuildEndpointChain and RegisterEndpoint
Build(c) ==
    LET tp == Propagation(Tag[c]) IN
    /\ stack = <<>>
    /\ tp # "nil" => IsSupportsTransaction(tp) /\ CanAddTag(c)
    /\ info' = [info EXCEPT ![c] = [locked |-> TRUE, tp |-> tp]]
    /\ \E s \in Chains(c, tp) : chain' = [chain EXCEPT ![c] = s]
    /\ UNCHANGED <<stack, ret, buffer, durable, written, outcome, current>>

-------------------------------------------------------------------------------
(* Down the chain *)

Top == stack[Len(stack)]
Below == SubSeq(stack, 1, Len(stack) - 1)
Handles(f) == f.pos > Len(chain[f.call])
Kind(f) == chain[f.call][f.pos]

\* The first frame of a call; the outermost REQUIRED call begins a unit of work.
Frame(c, binding, tx, unit) ==
    LET begins == unit = 0 /\ Propagation(Tag[c]) = "REQUIRED"
    IN [call |-> c, pos |-> 1, bound |-> binding, tx |-> tx, opens |-> FALSE,
        unit |-> IF begins THEN Len(outcome) + 1 ELSE unit, begins |-> begins]

Calling(c, binding, tx, unit) ==
    LET f == Frame(c, binding, tx, unit) IN
    /\ chain[c] # <<>> /\ Len(outcome) < MaxWrites
    /\ stack' = Append(stack, f)
    /\ outcome' = IF f.begins THEN Append(outcome, "none") ELSE outcome
    /\ UNCHANGED <<info, chain, ret, buffer, durable, written, current>>

\* A request from outside.
Request(c) == stack = <<>> /\ ret = "running" /\ Calling(c, "nil", FALSE, 0)

\* A handler calls another service with its own context.
Nested(c) ==
    /\ stack # <<>> /\ ret = "running" /\ Handles(Top)
    /\ Cardinality({i \in DOMAIN stack : Handles(stack[i])}) < MaxDepth
    /\ Calling(c, Top.bound, Top.tx, Top.unit)

\* Mutant of Opens: REQUIRED always begins a transaction of its own.
OpensAlways(f) == info[f.bound].tp = "REQUIRED"

\* WithTransaction and doTransactionWithRequired: REQUIRED joins the transaction
\* of the context, if there is one; the propagation is that of the bound CallInfo.
Opens(f) == info[f.bound].tp = "REQUIRED" /\ ~f.tx

\* callInfoCtxBindMw: from the binder on the context carries the CallInfo.
Binds(f) == IF Kind(f) = "bind" THEN f.call ELSE f.bound

\* A middleware calls next; the transaction middleware perhaps begins, which may fail.
Enter ==
    /\ stack # <<>> /\ ret = "running" /\ ~Handles(Top)
    /\ \/ /\ LET opens == Kind(Top) = "tx" /\ Opens(Top)
                 below == [Top EXCEPT !.opens = opens]
                 inner == [Top EXCEPT !.pos = @ + 1, !.tx = @ \/ opens, !.begins = FALSE,
                                      !.bound = Binds(Top)]
             IN /\ stack' = Append(Append(Below, below), inner)
                /\ current' = IF opens THEN Top.unit ELSE current
          /\ UNCHANGED ret
       \/ /\ Kind(Top) = "tx" /\ Opens(Top)
          /\ stack' = Below /\ ret' = "error" /\ UNCHANGED current
    /\ UNCHANGED <<info, chain, buffer, durable, written, outcome>>

\* A handler writes through Repository.DB: in the transaction of its context, or
\* at once.
Write ==
    /\ stack # <<>> /\ ret = "running" /\ Handles(Top)
    /\ Cardinality(written) < MaxWrites
    /\ LET w == [n |-> Cardinality(written) + 1, unit |-> Top.unit] IN
       /\ written' = written \cup {w}
       /\ IF Top.tx THEN buffer' = buffer \cup {w} /\ UNCHANGED durable
                    ELSE durable' = durable \cup {w} /\ UNCHANGED buffer
    /\ UNCHANGED <<info, chain, stack, ret, outcome, current>>

-------------------------------------------------------------------------------
(* Up the chain *)

\* The caller of a call has its result.
Told(f, how) == outcome' = IF f.begins THEN [outcome EXCEPT ![f.unit] = how] ELSE outcome

Pops(how) == stack' = Below /\ ret' = how /\ Told(Top, how)

\* The handler returns or panics.
HandlerReturns(how) ==
    /\ stack # <<>> /\ ret = "running" /\ Handles(Top)
    /\ Pops(how)
    /\ UNCHANGED <<info, chain, buffer, durable, written, current>>

\* A handler has the result of a call it made; it may go on after an error.  A
\* panic goes through it.
Resume ==
    /\ stack # <<>> /\ ret # "running" /\ Handles(Top)
    /\ IF ret = "panic" THEN Pops("panic") ELSE ret' = "running" /\ UNCHANGED <<stack, outcome>>
    /\ UNCHANGED <<info, chain, buffer, durable, written, current>>

\* The end of a transaction: committed, or not.
Commit == durable' = durable \cup buffer /\ buffer' = {} /\ current' = 0
Rollback == buffer' = {} /\ current' = 0 /\ UNCHANGED durable

\* recoveryMiddleware makes an error of a panic.
Recovers(f) == IF Kind(f) = "recover" /\ ret = "panic" THEN "error" ELSE ret

\* A middleware gets the result of next: the
\* frame that began the transaction ends it, and a commit may fail.
Leave ==
    /\ stack # <<>> /\ ret # "running" /\ ~Handles(Top)
    /\ \/ /\ Top.opens /\ ret = "ok" /\ Commit /\ Pops("ok")
       \/ /\ Top.opens /\ ret = "ok" /\ Rollback /\ Pops("error")
       \/ /\ Top.opens /\ ret # "ok" /\ Rollback /\ Pops(ret)
       \/ /\ ~Top.opens /\ UNCHANGED <<buffer, durable, current>>
          /\ Pops(Recovers(Top))
    /\ UNCHANGED <<info, chain, written>>

\* The request is answered, or its panic reaches the server's own recovery.
Answer ==
    /\ stack = <<>> /\ ret # "running" /\ ret' = "running"
    /\ UNCHANGED <<info, chain, stack, buffer, durable, written, outcome, current>>

CallNext ==
    \/ \E c \in Calls : Build(c) \/ Request(c) \/ Nested(c)
    \/ Enter \/ Write \/ (\E how \in {"ok", "error", "panic"} : HandlerReturns(how))
    \/ Resume \/ Leave \/ Answer

CallSpec == CallInit /\ [][CallNext]_callVars

-------------------------------------------------------------------------------
\* The unit of work of an outermost REQUIRED call is all or nothing, and its
\* caller knows which (transaction.go, transaction_service_middleware.go): while
\* its transaction is open nothing it wrote is durable, nor what the calls inside
\* it wrote; afterwards all of it is if the call succeeded and none of it
\* otherwise, through errors that handlers swallow, panics, failed begins and
\* commits, and every order of the middlewares.
TxAllOrNothing ==
    /\ \A w \in written : w.unit # 0 =>
         /\ w.unit = current => w \notin durable
         /\ outcome[w.unit] = "ok" => w \in durable
         /\ outcome[w.unit] \in {"error", "panic"} => w \notin durable
    /\ stack = <<>> => buffer = {} /\ current = 0
===============================================================================
