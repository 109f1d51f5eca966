------------------------------ MODULE LogBuilder ------------------------------
(***************************************************************************)
(* Loggers by name (ag/ag_log/agslog): Builder, handler factories for      *)
(* fanout, failover and async handlers, replaceable handlers, and the      *)
(* level middleware.  Applications ask for loggers before and while the    *)
(* framework registers handlers and builds the top logger; a logger given  *)
(* out too early writes to a replaceable handler that Build replaces.      *)
(*                                                                         *)
(* A handler is the set of outputs its records can reach; the empty set is *)
(* an error.  One goroutine boots and builds, others call GetSlogByName,   *)
(* one at a time (logMu), while Build does not take that lock.  Both       *)
(* resolve names step by step: a factory's TryLock is held while its       *)
(* sub-handlers are resolved, so each can be refused by the other.         *)
(***************************************************************************)
EXTENDS Naturals, Sequences, FiniteSets

CONSTANTS
    Outputs,    \* names of the handlers that are registered directly (zap and others)
    Factories,  \* a function: factory name to the sequence of names it combines
    TopHandler, \* AgSlogProperties.TopHandler, a sequence of names
    LevelOf,    \* aglog.level, a function: names to level strings
    Asked,      \* the names applications ask for
    Callers     \* goroutines that ask

TopName == "agslog_top"
Root == "root"
Default == "default"   \* the output of slog.Default
Builder == "build"     \* the goroutine that boots
Threads == Callers \cup {Builder}

VARIABLES
    boot,    \* how far the framework is
    caches,  \* b.handlersCaches, and the instances of the factories
    top,     \* the top logger's replaceable handler
    logger,  \* b.namedLogger: what each logger writes to
    todo,    \* replaceable handlers Range has still to visit
    work,    \* each goroutine in resolveHandler: the name it is for, and its frames
    partial, \* history: factories cached without a sub-handler whose lock was taken
    asked    \* when each logger was asked for: before Build, "across" its beginning, or later

vars == <<boot, caches, top, logger, todo, work, partial, asked>>

\* lost says that the resolution was refused by another goroutine's lock.
Nowhere == [kind |-> "none", outs |-> {}, start |-> "", lost |-> FALSE]
Direct(outs, name, lost) == [kind |-> "named", outs |-> outs, start |-> name, lost |-> lost]
Replaceable(lost) == [kind |-> "replaceable", outs |-> {}, start |-> "", lost |-> lost]

\* A frame is a factory in DoGetHandler, with the names it has not come to and
\* what it has so far; the last one, without a factory, is the call itself.
Frame(factory, names) == [factory |-> factory, left |-> names, got |-> {}, lost |-> FALSE]
Resolving(for, names) == [for |-> for, frames |-> <<Frame("", names)>>]
NoWork == [for |-> "", frames |-> <<>>]

Init ==
    /\ boot = "init"
    /\ caches = [n \in {} |-> {}]
    /\ top = [replaced |-> FALSE, outs |-> {Default}, lost |-> FALSE]
    /\ logger = [n \in Asked |-> Nowhere]
    /\ todo = {}
    /\ work = [t \in Threads |-> NoWork]
    /\ partial = {}
    /\ asked = [n \in Asked |-> "no"]

------------------------------------------------------------------------------
\* Resolution.

\* The factories whose lock is held.
Locked == UNION {{work[t].frames[i].factory : i \in DOMAIN work[t].frames} : t \in Threads}

Goes(t, frames) == work' = [work EXCEPT ![t].frames = frames]

\* The loop of fanout and of failover: a frame goes to its next name, with what the
\* one before it gave, or without it.
Continue(f) == [f EXCEPT !.left = Tail(@)]

\* resolveHandler for the next name of a frame: a cached handler; or the factory of
\* that name, whose sub-handlers come first; or nothing, when there is no factory
\* or its TryLock fails: it is being built, further up or by another goroutine.
resolveHandler(t) ==
    LET frames == work[t].frames
        f == Head(frames)
        n == Head(f.left)
        rest == Continue(f)
        found == n \in DOMAIN caches
        built == ~found /\ boot # "init" /\ n \in DOMAIN Factories
    IN  /\ frames # <<>> /\ f.left # <<>>
        /\ \/ found /\ Goes(t, <<[rest EXCEPT !.got = @ \cup caches[n]]>> \o Tail(frames))
           \/ built /\ n \notin Locked /\ Goes(t, <<Frame(n, Factories[n]), rest>> \o Tail(frames))
           \/ built /\ n \in Locked /\ Goes(t, <<[rest EXCEPT !.lost = TRUE]>> \o Tail(frames))
           \/ ~found /\ ~built /\ Goes(t, <<rest>> \o Tail(frames))
        /\ UNCHANGED <<boot, caches, top, logger, todo, partial, asked>>

\* GetHandler returns: sub-handlers that were not found are left out of the fanout or
\* failover; it is kept as the factory's instance and cached, and the frame below
\* takes it.  Without any sub-handler it is an error.
GetHandler(t) ==
    LET frames == work[t].frames
        f == Head(frames)
        below == frames[2]
    IN  /\ Len(frames) > 1 /\ f.left = <<>>
        /\ caches' = IF f.got = {} THEN caches
                     ELSE [n \in DOMAIN caches \cup {f.factory} |->
                             IF n = f.factory THEN f.got ELSE caches[n]]
        /\ partial' = IF f.got # {} /\ f.lost THEN partial \cup {f.factory} ELSE partial
        /\ Goes(t, <<[below EXCEPT !.got = @ \cup f.got, !.lost = @ \/ (f.lost /\ f.got = {})]>>
                     \o SubSeq(frames, 3, Len(frames)))
        /\ UNCHANGED <<boot, top, logger, todo, asked>>

\* The resolution of a goroutine is through, and what it gave.
Resolved(t) == Len(work[t].frames) = 1 /\ Head(work[t].frames).left = <<>>
Got(t) == Head(work[t].frames).got
Lost(t) == Head(work[t].frames).lost
Leaves(t) == work' = [work EXCEPT ![t] = NoWork]

------------------------------------------------------------------------------
\* Booting.

\* AddHandlers, AddHandlerFactorys, AddMiddlewares: the first handler of a name stays.
Register ==
    /\ boot = "init"
    /\ boot' = "registered"
    /\ caches' = [n \in Outputs |-> {n}]
    /\ UNCHANGED <<top, logger, todo, work, partial, asked>>

\* Build begins: the top handlers are resolved one after the other.
resolveTopHandlers ==
    /\ boot = "registered"
    /\ boot' = "top"
    /\ work' = [work EXCEPT ![Builder] = Resolving(TopName, TopHandler)]
    /\ UNCHANGED <<caches, top, logger, todo, partial, asked>>

\* initTopLogger: a fanout over the top handlers, or slog.Default's.
initTopLogger ==
    /\ boot = "top" /\ Resolved(Builder) /\ Leaves(Builder)
    /\ top' = [replaced |-> TRUE, outs |-> IF Got(Builder) = {} THEN {Default} ELSE Got(Builder),
               lost |-> Lost(Builder)]
    /\ boot' = "replace"
    /\ todo' = {n \in Asked : logger[n].kind = "replaceable"}
    /\ UNCHANGED <<caches, logger, partial, asked>>

\* One round of Range over the replaceable handlers: getNamedHandler for its name.
Visit(n) ==
    /\ boot = "replace" /\ work[Builder] = NoWork /\ n \in todo
    /\ todo' = todo \ {n}
    /\ work' = [work EXCEPT ![Builder] = Resolving(n, <<n>>)]
    /\ UNCHANGED <<boot, caches, top, logger, partial, asked>>

\* What a replaceable handler is replaced by: the handler of its name, or the top
\* handler under that name.
Replacement(n, h, lost) == Direct(IF h = {} THEN top.outs ELSE h, n, lost)


\* The end of the round: the handler is replaced.
tryReplaceNamedHandler ==
    /\ boot = "replace" /\ Resolved(Builder) /\ Leaves(Builder)
    /\ LET n == work[Builder].for IN
       logger' = [logger EXCEPT ![n] = Replacement(n, Got(Builder), Lost(Builder))]
    /\ UNCHANGED <<boot, caches, top, todo, partial, asked>>

Built ==
    /\ boot = "replace" /\ todo = {} /\ work[Builder] = NoWork
    /\ boot' = "built"
    /\ UNCHANGED <<caches, top, logger, todo, work, partial, asked>>

------------------------------------------------------------------------------
\* GetSlogByName.

\* Both checks of namedLogger, logMu, and the beginning of getNamedHandler.
Ask(c, n) ==
    /\ \A d \in Callers : work[d] = NoWork
    /\ logger[n] = Nowhere
    /\ work' = [work EXCEPT ![c] = Resolving(n, <<n>>)]
    /\ asked' = [asked EXCEPT ![n] = IF boot \in {"replace", "built"} THEN "later" ELSE "before"]
    /\ UNCHANGED <<boot, caches, top, logger, todo, partial>>

\* The logger of a handler that was found, or of a replaceable one over the top
\* handler, which Range may still come by.
Make(c) ==
    /\ Resolved(c) /\ Leaves(c)
    /\ LET n == work[c].for
           new == IF Got(c) # {} THEN Direct(Got(c), n, Lost(c)) ELSE Replaceable(Lost(c))
       IN /\ logger' = [logger EXCEPT ![n] = new]
          /\ \/ todo' = todo
             \/ boot = "replace" /\ new.kind = "replaceable" /\ todo' = todo \cup {n}
          /\ asked' = IF asked[n] = "before" /\ boot \in {"replace", "built"}
                      THEN [asked EXCEPT ![n] = "across"] ELSE asked
    /\ UNCHANGED <<boot, caches, top, partial>>

Build == resolveTopHandlers \/ initTopLogger \/ (\E n \in Asked : Visit(n)) \/ tryReplaceNamedHandler \/ Built

Next ==
    \/ Register \/ Build
    \/ \E t \in Threads : resolveHandler(t) \/ GetHandler(t)
    \/ \E c \in Callers : Make(c) \/ \E n \in Asked : Ask(c, n)

Spec == Init /\ [][Next]_vars

------------------------------------------------------------------------------
\* Levels: DEBUG, INFO, WARN, ERROR.

Rank == [DEBUG |-> 1, INFO |-> 2, WARN |-> 3, ERROR |-> 4]
HasLevel(n) == n \in DOMAIN LevelOf /\ LevelOf[n] \in DOMAIN Rank

\* LevelMwConfigHelper.Enable, for the name of the handler a record started at.
Enable(start, level) ==
    IF HasLevel(start) THEN level >= Rank[LevelOf[start]]
    ELSE IF HasLevel(Root) THEN level >= Rank[LevelOf[Root]]
    ELSE TRUE

\* The outputs a record of the logger reaches.  A replaceable handler passes on to
\* the top handler, under the top handler's name.
Reaches(n, level) ==
    LET l == logger[n]
        to == IF l.kind = "named" THEN l ELSE Direct(top.outs, TopName, FALSE)
    IN  IF Enable(to.start, level) THEN to.outs ELSE {}

------------------------------------------------------------------------------
\* The names a name leads to, itself included, and the outputs it stands for.
Parts(n) == IF n \in DOMAIN Factories \ Outputs THEN {Factories[n][i] : i \in DOMAIN Factories[n]} ELSE {}
Reach(names) ==
    LET R[d \in 0..Cardinality(DOMAIN Factories)] ==
          IF d = 0 THEN names ELSE R[d - 1] \cup UNION {Parts(m) : m \in R[d - 1]}
    IN  R[Cardinality(DOMAIN Factories)]
Means(names) == Reach(names) \cap Outputs

\* The level the configuration sets for a name, or for the root.
Passes(n, level) ==
    LET key == IF HasLevel(n) THEN n ELSE Root IN HasLevel(key) => level >= Rank[LevelOf[key]]

\* h is what the names stand for, or what else says when that is nothing; when a
\* factory they lead to was cached without a part, it is some of that; when their
\* own resolution met a lock, it may be all that was found, or else.
Settled(h, lost, names, else) ==
    \/ h = IF Means(names) = {} THEN else ELSE Means(names)
    \/ Reach(names) \cap partial # {} /\ h # {} /\ h \subseteq Means(names)
    \/ lost /\ h # {} /\ (h \subseteq Means(names) \/ h = else)

===============================================================================
