---------------------------- MODULE MCTenantBarrier ----------------------------
(* Instances of TenantBarrier small enough for TLC. *)
EXTENDS TenantBarrier, TLC

Symmetric == Permutations(Session) \cup Permutations(Item)
===============================================================================
