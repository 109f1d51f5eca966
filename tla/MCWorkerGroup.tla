---------------------------- MODULE MCWorkerGroup ----------------------------
(***************************************************************************)
(* Model checking the worker group: tasks, workers and submitters are      *)
(* interchangeable.  References are taken one at a time (MaxRefs = 1);     *)
(* MCLive has two.                                                         *)
(***************************************************************************)
EXTENDS WorkerGroup, TLC

Interchangeable ==
    Permutations(Tasks) \cup Permutations(Workers) \cup Permutations(Submitters)

MCSpec == Init /\ [][OneReference]_vars
==============================================================================
