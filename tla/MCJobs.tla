------------------------------- MODULE MCJobs -------------------------------
(* Instances of Jobs small enough for TLC. *)
EXTENDS Jobs, TLC

CONSTANTS j1, j2, j3, w1, w2, p1, p2, i1, i2, s1, s2

OneOwner  == [w \in Worker |-> p1]
OneEach   == (i1 :> {s1})
TwoIntents == (i1 :> {s1}) @@ (i2 :> {s1, s2})

Symmetric == Permutations(Job) \cup Permutations(Worker)
=============================================================================
