------------------------------ MODULE MCCelery ------------------------------
(* Small instances of CeleryPipeline for TLC.                              *)
EXTENDS CeleryPipeline, TLC

Symmetric == Permutations(FailedIds) \cup Permutations(Files) \cup Permutations(Workers)
             \cup Permutations(Requests) \cup Permutations(Jobs)
============================================================================
