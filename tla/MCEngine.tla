------------------------------- MODULE MCEngine -------------------------------
(***************************************************************************)
(* Model checking the engine: loops and connections are interchangeable.   *)
(***************************************************************************)
EXTENDS Engine, TLC

Interchangeable == Permutations(Loops) \cup Permutations(Conns)
==============================================================================
