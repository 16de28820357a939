---------------------------- MODULE BarrierContract ----------------------------
(***************************************************************************)
(* What the tenant's session lock is for: each request reads and changes   *)
(* the tenant's memory in one step, and while its answer is on its way to  *)
(* the client nothing happens in the tenant (docs/STATUS.md: the drain     *)
(* "prevents a purge from acknowledging its barrier while an earlier       *)
(* response for that tenant is still being sent").                         *)
(***************************************************************************)
EXTENDS Integers

CONSTANTS Session, Item, None

VARIABLES
  exists,     \* the items that were not purged
  access,     \* "granted", "expired" or "revoked"
  epoch,      \* deletion_epoch and access_epoch taken together
  answer      \* Session -> the items and the epoch its answer carries, or None

vars == <<exists, access, epoch, answer>>

Readable == IF access = "granted" THEN exists ELSE {}

Idle == \A s \in Session : answer[s] = None

Init ==
  /\ exists = Item
  /\ access = "granted"
  /\ epoch = 0
  /\ answer = [s \in Session |-> None]

Answer(s, items) == answer' = [answer EXCEPT ![s] = [items |-> items, epoch |-> epoch']]

Read(s) ==
  /\ Idle
  /\ \E items \in SUBSET exists :
       /\ items # {} => access # "revoked"
       /\ Answer(s, items)
  /\ UNCHANGED <<exists, access, epoch>>

\* A purge or an access change, acknowledged to s, or to nobody.
Change(s) ==
  /\ Idle
  /\ \/ \E i \in exists : exists' = exists \ {i} /\ access' = access
     \/ access' \in {"granted", "revoked"} /\ exists' = exists
  /\ epoch' = epoch + 1
  /\ Answer(s, {}) \/ UNCHANGED answer

\* The answer was delivered, or its delivery given up.
Finish(s) ==
  /\ answer[s] # None
  /\ answer' = [answer EXCEPT ![s] = None]
  /\ UNCHANGED <<exists, access, epoch>>

\* Expiry is not drained: it happens while answers are under way.
Expire ==
  /\ access = "granted"
  /\ access' = "expired"
  /\ UNCHANGED <<exists, epoch, answer>>

Next == Expire \/ \E s \in Session : Read(s) \/ Change(s) \/ Finish(s)

Spec == Init /\ [][Next]_vars
===============================================================================
