----------------------------- MODULE JobContract -----------------------------
(***************************************************************************)
(* What the durable jobs of one scope promise to the principal that        *)
(* enqueues them, with neither attempts, leases nor workers: a job is      *)
(* accepted once, settles once, has a result exactly when it succeeded,    *)
(* and nothing that cites an erased episode survives its erasure.          *)
(***************************************************************************)
EXTENDS Naturals

CONSTANTS Job, Intent, Source, Cites

VARIABLES
  phase,     \* Job -> what a client can tell of the job
  request,   \* Job -> the intent it was accepted with
  live,      \* the jobs whose published assertion exists
  erased     \* the episodes that were purged

vars == <<phase, request, live, erased>>

Phase == {"absent", "open", "succeeded", "failed", "cancelled", "purged"}

Init ==
  /\ phase = [j \in Job |-> "absent"]
  /\ request \in [Job -> Intent]
  /\ live = {}
  /\ erased = {}

\* A fresh identity is accepted with evidence that exists.
Accept(j, i) ==
  /\ phase[j] = "absent"
  /\ Cites[i] \cap erased = {}
  /\ phase' = [phase EXCEPT ![j] = "open"]
  /\ request' = [request EXCEPT ![j] = i]
  /\ UNCHANGED <<live, erased>>

\* The result appears in the step that makes the job succeeded.
Succeed(j) ==
  /\ phase[j] = "open"
  /\ Cites[request[j]] \cap erased = {}
  /\ phase' = [phase EXCEPT ![j] = "succeeded"]
  /\ live' = live \cup {j}
  /\ UNCHANGED <<request, erased>>

GiveUp(j, outcome) ==
  /\ phase[j] = "open"
  /\ phase' = [phase EXCEPT ![j] = outcome]
  /\ UNCHANGED <<request, live, erased>>

\* Erasing episodes takes every job and every result that cites one of them.
Erase(jobs, results, episodes) ==
  /\ \A j \in jobs : phase[j] # "absent"
  /\ \A j \in Job : Cites[request[j]] \cap episodes # {} =>
       /\ j \in jobs \/ phase[j] \in {"absent", "purged"}
       /\ j \in results \/ j \notin live
  /\ phase' = [j \in Job |-> IF j \in jobs THEN "purged" ELSE phase[j]]
  /\ live' = live \ results
  /\ erased' = erased \cup episodes
  /\ UNCHANGED request

Next ==
  \/ \E j \in Job, i \in Intent : Accept(j, i)
  \/ \E j \in Job : Succeed(j)
  \/ \E j \in Job, o \in {"failed", "cancelled"} : GiveUp(j, o)
  \/ \E jobs, results \in SUBSET Job, episodes \in SUBSET Source :
       Erase(jobs, results, episodes)

Spec == Init /\ [][Next]_vars
=============================================================================
