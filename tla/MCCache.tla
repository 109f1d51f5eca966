------------------------------- MODULE MCCache -------------------------------
(***************************************************************************)
(* Model checking the cache: goroutines and keys are interchangeable.      *)
(* Plain Set is left out (MCLive has it).                                  *)
(***************************************************************************)
EXTENDS Cache, TLC

Interchangeable == Permutations(Callers) \cup Permutations(Keys)
==============================================================================
