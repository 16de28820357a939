---------------------------------- MODULE MCRuns ----------------------------------
(* The checkpoint run for TLC: the client's identifiers are interchangeable. *)
EXTENDS Runs, TLC

Symmetric == Permutations(Branch) \cup Permutations(Operation) \cup Permutations(Harness)
===================================================================================
