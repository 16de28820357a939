---------------------------------- MODULE MCForget ----------------------------------
(* The purge for TLC: the branches of the run are interchangeable.           *)
EXTENDS Forget, TLC

Symmetric == Permutations(Branch)
=====================================================================================
