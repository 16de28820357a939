------------------------------- MODULE Outcomes --------------------------------
(***************************************************************************)
(* What a caller is told of a call that may change something, and when     *)
(* that is honest.  The administrator's command (scope_access.py), the     *)
(* HTTP clients (native_client.py, sdk.py, mcp_adapter.py) and the callers *)
(* of model providers (providers.py) all end a call in one of these ways.  *)
(***************************************************************************)
CONSTANT None   \* no value: not told yet, no membership, no holder

Verdicts ==
  { "applied",      \* a result that says the change was made
    "unchanged",    \* a result of a call that changed nothing
    "refused",      \* an error with outcome_unknown = false
    "unknown" }     \* an error with outcome_unknown = true

ASSUME OutcomesAssumption == None \notin Verdicts

\* happened: the call took effect.  possible: it may still take effect.
Honest(told, happened, possible) ==
  /\ told = "applied" => happened
  /\ told \in {"unchanged", "refused"} => ~happened /\ ~possible
================================================================================
