------------------------------ MODULE MCRevisions ------------------------------
(* Histories for TLC: identities, sources and keys are interchangeable. *)
EXTENDS Revisions, TLC

Symmetry == Permutations(Assertion) \cup Permutations(Source) \cup Permutations(Key)
================================================================================
