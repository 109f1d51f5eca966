----------------------------- MODULE MCComponents -----------------------------
(***************************************************************************)
(* Model checking the safety of the small components that goroutines       *)
(* share: cache manager, future pool, copy-on-write slice, loggers,        *)
(* pipeline, transactions of service calls, and the generated data         *)
(* access.  They do not interact: part says which of them the behaviour is *)
(* about, the others stay as they are.                                     *)
(***************************************************************************)
EXTENDS CacheManager, FuturePool, CopyOnWrite, Pipeline, ServiceCall, GeneratedDao

VARIABLES
    part,
    boot, handlers, top, logger, todo, work, partial, lasked   \* LogBuilder

loggerVars == <<boot, handlers, top, logger, todo, work, partial, lasked>>
MCVars == <<vars, part, futureVars, sliceVars, loggerVars, pipelineVars, callVars, daoVars>>

\* Factories of factories, one that combines a name nobody registered, and a
\* level that does not parse.
Logs == INSTANCE LogBuilder WITH
    Outputs <- {"x", "y"},
    Factories <- [both |-> <<"x", "y">>, nest |-> <<"lost", "y", "both">>, two |-> <<"nest">>],
    TopHandler <- <<"y", "two">>,
    LevelOf <- [root |-> "INFO", gone |-> "WARN", both |-> "bad", x |-> "ERROR"],
    Asked <- {"x", "both", "nest", "gone"}, Callers <- {"g1", "g2"},
    caches <- handlers, asked <- lasked

Handler(casts, func, unshareable) ==
    [casts |-> casts, func |-> func, unshareable |-> unshareable]
SomeHandlers ==
    [codec |-> Handler({"inbound", "outbound"}, FALSE, FALSE),
     idle |-> Handler({"inbound", "outbound", "active", "inactive"}, FALSE, TRUE),
     bye |-> Handler({"inactive"}, TRUE, FALSE),
     odd |-> Handler({"inactive"}, FALSE, FALSE)]

\* One call for each kind of propagation, and one with a middleware of its own.
TagOf == [a |-> "true", b |-> "REQUIRED", s |-> "SUPPORTS", p |-> "nil"]
SomeGlobals == <<[kind |-> "tx", order |-> 2000], [kind |-> "recover", order |-> 2000]>>
SomeCustom == [a |-> <<>>, b |-> <<>>, s |-> <<>>, p |-> <<[kind |-> "recover", order |-> 1000]>>]

-------------------------------------------------------------------------------
\* Updates, queries and pages of the data access do not disturb each other: one
\* behaviour has rows and updates, or queries, or rows of one client and pages.
DaoParts == {"edits", "queries", "pages"}

MCInit ==
    /\ part \in {"caches", "futures", "slice", "loggers", "pipeline", "calls"} \cup DaoParts
    /\ Init /\ FutureInit /\ SliceInit /\ Logs!Init /\ PipelineInit /\ CallInit
    /\ DaoInit /\ (part \in DaoParts \/ (table = "tm_teacher" /\ dbType = "MYSQL"))

Elsewhere(p) ==
    /\ part = p /\ UNCHANGED part
    /\ p # "caches" => UNCHANGED vars
    /\ p # "futures" => UNCHANGED futureVars
    /\ p # "slice" => UNCHANGED sliceVars
    /\ p # "loggers" => UNCHANGED loggerVars
    /\ p # "pipeline" => UNCHANGED pipelineVars
    /\ p # "calls" => UNCHANGED callVars
    /\ p \notin DaoParts => UNCHANGED daoVars

MCNext ==
    \/ Elsewhere("caches") /\ Next
    \/ Elsewhere("futures") /\ FutureNext
    \/ Elsewhere("slice") /\ SliceNext
    \/ Elsewhere("loggers") /\ Logs!Next
    \/ Elsewhere("pipeline") /\ PipelineNext
    \/ Elsewhere("calls") /\ CallNext
    \/ Elsewhere("edits") /\ (Edits \/ \E c \in Clients : Insert(c))
    \/ Elsewhere("queries") /\ Queries
    \/ Elsewhere("pages") /\ (Pages \/ Insert(CHOOSE c \in Clients : TRUE))

MCSpec == MCInit /\ [][MCNext]_MCVars

-------------------------------------------------------------------------------
(* Properties *)

===============================================================================
