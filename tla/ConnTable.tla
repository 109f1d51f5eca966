------------------------------ MODULE ConnTable ------------------------------
(***************************************************************************)
(* What the users of an agonet engine are promised about connections:      *)
(* each is opened at most once and closed at most once, only after it was  *)
(* opened, and never more than MaxConn are open together (0: no limit).    *)
(***************************************************************************)
EXTENDS Integers, FiniteSets

CONSTANTS Conns, MaxConn

VARIABLES live, gone

vars == <<live, gone>>

Init == live = {} /\ gone = {}

\* OnOpen is called for c.
Open(c) ==
    /\ c \notin live \cup gone
    /\ MaxConn > 0 => Cardinality(live) < MaxConn
    /\ live' = live \cup {c}
    /\ gone' = gone

\* OnClose is called for c.
Close(c) ==
    /\ c \in live
    /\ live' = live \ {c}
    /\ gone' = gone \cup {c}

Next == \E c \in Conns : Open(c) \/ Close(c)

Spec == Init /\ [][Next]_vars
==============================================================================
