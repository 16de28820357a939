--------------------------------- MODULE Jobs ---------------------------------
(***************************************************************************)
(* The durable structured-publication jobs of one scope (jobs.py), the     *)
(* trigger that guards their rows (006_durable_jobs.sql as replaced by     *)
(* 010_job_cancellation.sql) and the worker processes that claim, prepare  *)
(* and publish them (worker.py).                                           *)
(*                                                                         *)
(* One transaction of the tenant runs at a time, because each holds the    *)
(* tenant's session lock (service.principal_connection; TenantBarrier      *)
(* models the lock itself).  A transaction whose outcome cannot depend on  *)
(* what moves while it runs is one action.  The publish and fail           *)
(* transactions check the lease first and write last; in between the       *)
(* database clock moves and a membership may expire, so each is two        *)
(* actions with the lock (holder) kept across them.                        *)
(*                                                                         *)
(* Time is relative: lease[j] and delay[j] count the ticks left until      *)
(* lease_until and available_at, 0 meaning "<= clock_timestamp()".         *)
(***************************************************************************)
EXTENDS Integers, FiniteSets

CONSTANTS
  Job,         \* the identities new_object() may hand out
  Worker,      \* worker processes
  Principal,
  Intent,      \* canonical Remember requests (intent_digest)
  Source,      \* episodes
  None,

  RunsAs,      \* Worker -> Principal, the configured --subject
  Cites,       \* Intent -> the episodes its evidence quotes

  MaxAttempt,  \* 5 in the code
  Quota,       \* 100 in the code
  LeaseSpan,   \* 30 seconds in the code, in ticks
  MaxDelay,    \* bound on the retry backoff, in ticks
  MaxEpoch     \* bound on the number of access changes

ASSUME JobsAssumption ==
  /\ Intent # {}
  /\ None \notin Job
  /\ None \notin Worker
  /\ RunsAs \in [Worker -> Principal]
  /\ Cites \in [Intent -> SUBSET Source]
  /\ MaxAttempt \in Nat \ {0}
  /\ Quota \in Nat
  /\ LeaseSpan \in Nat \ {0}
  /\ MaxDelay \in Nat \ {0}
  /\ MaxEpoch \in Nat

VARIABLES
  \* memory_ops.job
  state,         \* "absent" and "purged" stand for "no row"
  owner,         \* principal_id
  intent,        \* intent_digest; what payload holds while it is not null
  retryOf,
  attempt,
  token,         \* lease_token: the attempt it was issued for, 0 when null
  lease,
  delay,
  seenAccess,    \* captured_access_epoch
  seenDeletion,  \* captured_deletion_epoch
  \* memory.tenant, memory.scope_member, memory.assertion, tombstones
  accessEpoch,
  deletionEpoch,
  may,           \* the principals with read and write on the scope
  published,     \* every assertion a publish committed, as <<job, token>>
  live,          \* the jobs whose assertion has not been purged
  erased,        \* the purged episodes
  \* the tenant's session lock
  holder,        \* the worker in the middle of a transaction, or None
  \* worker processes
  pc,
  heldJob,       \* claim["job_id"]
  heldToken,     \* claim["lease_token"]
  retry          \* run_once's local of that name

rowVars    == <<state, owner, intent, retryOf, attempt, token, lease, delay,
                seenAccess, seenDeletion>>
tenantVars == <<accessEpoch, deletionEpoch, may>>
factVars   == <<published, live, erased>>
workerVars == <<pc, heldJob, heldToken, retry>>
vars       == <<rowVars, tenantVars, factVars, holder, workerVars>>

States   == {"absent", "pending", "running", "succeeded", "failed",
             "cancelled", "purged"}
Phases   == {"idle", "prepared", "publishing", "failing", "recording", "down"}
Outcomes == {"pending", "running", "succeeded", "failed", "cancelled"}

TypeOK ==
  /\ state \in [Job -> States]
  /\ owner \in [Job -> Principal \cup {None}]
  /\ intent \in [Job -> Intent]
  /\ retryOf \in [Job -> Job \cup {None}]
  /\ attempt \in [Job -> 0 .. MaxAttempt]
  /\ token \in [Job -> 0 .. MaxAttempt]
  /\ lease \in [Job -> 0 .. LeaseSpan]
  /\ delay \in [Job -> 0 .. MaxDelay]
  /\ seenAccess \in [Job -> Nat]
  /\ seenDeletion \in [Job -> Nat]
  /\ accessEpoch \in Nat
  /\ deletionEpoch \in Nat
  /\ may \in SUBSET Principal
  /\ published \in SUBSET (Job \X (1 .. MaxAttempt))
  /\ live \in SUBSET Job
  /\ erased \in SUBSET Source
  /\ holder \in Worker \cup {None}
  /\ pc \in [Worker -> Phases]
  /\ heldJob \in [Worker -> Job \cup {None}]
  /\ heldToken \in [Worker -> 0 .. MaxAttempt]
  /\ retry \in [Worker -> BOOLEAN]
  /\ \A w \in Worker : pc[w] \notin {"idle", "down"} =>
       heldJob[w] \in Job /\ heldToken[w] > 0

Init ==
  /\ state = [j \in Job |-> "absent"]
  /\ owner = [j \in Job |-> None]
  /\ intent = [j \in Job |-> CHOOSE i \in Intent : TRUE]
  /\ retryOf = [j \in Job |-> None]
  /\ attempt = [j \in Job |-> 0]
  /\ token = [j \in Job |-> 0]
  /\ lease = [j \in Job |-> 0]
  /\ delay = [j \in Job |-> 0]
  /\ seenAccess = [j \in Job |-> 0]
  /\ seenDeletion = [j \in Job |-> 0]
  /\ accessEpoch = 0
  /\ deletionEpoch = 0
  /\ may = Principal
  /\ published = {}
  /\ live = {}
  /\ erased = {}
  /\ holder = None
  /\ pc = [w \in Worker |-> "idle"]
  /\ heldJob = [w \in Worker |-> None]
  /\ heldToken = [w \in Worker |-> 0]
  /\ retry = [w \in Worker |-> TRUE]

-------------------------------------------------------------------------------
(* Helpers *)

Row(j)     == state[j] \in Outcomes
Open       == {j \in Job : state[j] \in {"pending", "running"}}
Enqueued   == {j \in Job : state[j] # "absent"}

\* Jobs.load(job_id, "write"): the row is visible and the scope is writable.
Loads(p, j) == p \in may /\ Row(j)

\* Jobs.enqueue's admission count, under the tenant lock.
AcceptingOneMore == Cardinality(Open) <= Quota             \* mutant: off by one
Accepting        == Cardinality(Open) < Quota

\* memory_ops.job_identity is never deleted: purged jobs keep their identity.
IdentityOfRows(p, i, parent) ==                 \* mutant: deleted with the job
  {j \in Job : Row(j) /\ owner[j] = p /\ intent[j] = i /\ retryOf[j] = parent}

Identity(p, i, parent) ==
  {j \in Enqueued : owner[j] = p /\ intent[j] = i /\ retryOf[j] = parent}

\* Jobs.claim's WHERE clause.
DuePending(p) ==                             \* mutant: expired leases are not
  {j \in Job : owner[j] = p /\ state[j] = "pending" /\ delay[j] = 0}

Due(p) ==
  {j \in Job : /\ owner[j] = p
               /\ \/ state[j] = "pending" /\ delay[j] = 0
                  \/ state[j] = "running" /\ lease[j] = 0}

\* Jobs.lease, its first check.
LeaseHeldByAnyone(p, j, t) ==                     \* mutant: no token comparison
  /\ Loads(p, j)
  /\ owner[j] = p
  /\ state[j] = "running"
  /\ lease[j] > 0

LeaseHeld(p, j, t) ==
  /\ Loads(p, j)
  /\ owner[j] = p
  /\ state[j] = "running"
  /\ token[j] = t
  /\ lease[j] > 0

\* Jobs.lease, the epoch check.
AccessUnchanged(j) == seenAccess[j] = accessEpoch       \* mutant: half of it

EpochsUnchanged(j) ==
  seenAccess[j] = accessEpoch /\ seenDeletion[j] = deletionEpoch

\* Trigger guard_job for an update that ends a claim.  (Its conditions on a
\* claim and on a heartbeat are those of Claim and Heartbeat themselves.)
GuardEnd(j, new) ==
  /\ state[j] \in {"pending", "running"}
  /\ new # "cancelled" => state[j] = "running"
  /\ new \in {"succeeded", "pending"} => lease[j] > 0

\* job_inputs, the result and retry_of are the edges of the forget closure
\* that reach a job.  The closure of one job: itself and its retry descendants.
LineageOfOne(j) == {j}                         \* mutant: retries are not followed

Lineage(j) ==
  {k \in Job : \A S \in SUBSET Job :
     (j \in S /\ \A a \in S, b \in Enqueued : retryOf[b] = a => b \in S) => k \in S}

\* The jobs whose inputs or whose published evidence quote the episode.
CitingRows(s) == {j \in Job : Row(j) /\ s \in Cites[intent[j]]} \* mutant: inputs only

Citing(s) == {j \in Job : s \in Cites[intent[j]]}

\* MemoryService.validate_evidence: every cited episode is still readable.
EvidenceUnchecked(i) == TRUE                            \* mutant: not validated

EvidenceExists(i) == Cites[i] \cap erased = {}

-------------------------------------------------------------------------------
(* Requests of the owning principal, each one transaction *)

\* Jobs.enqueue; parent is retry_of.  A request whose identity exists returns
\* the existing job (or 404 if it was purged) and changes nothing.
Enqueue(p, i, parent) ==
  /\ holder = None
  /\ p \in may
  /\ parent # None => /\ Row(parent)
                      /\ owner[parent] = p
                      /\ state[parent] = "failed"
                      /\ intent[parent] = i
  /\ Identity(p, i, parent) = {}
  /\ Accepting
  /\ EvidenceExists(i)
  /\ \E j \in Job \ Enqueued :
       /\ state' = [state EXCEPT ![j] = "pending"]
       /\ owner' = [owner EXCEPT ![j] = p]
       /\ intent' = [intent EXCEPT ![j] = i]
       /\ retryOf' = [retryOf EXCEPT ![j] = parent]
       /\ seenAccess' = [seenAccess EXCEPT ![j] = accessEpoch]
       /\ seenDeletion' = [seenDeletion EXCEPT ![j] = deletionEpoch]
  /\ UNCHANGED <<attempt, token, lease, delay, tenantVars, factVars, holder,
                 workerVars>>

\* Jobs.cancel, when expected_state and expected_attempt match the row.
Cancel(p, j) ==
  /\ holder = None
  /\ Loads(p, j)
  /\ owner[j] = p
  /\ state[j] \in {"pending", "running"}
  /\ GuardEnd(j, "cancelled")
  /\ state' = [state EXCEPT ![j] = "cancelled"]
  /\ token' = [token EXCEPT ![j] = 0]
  /\ lease' = [lease EXCEPT ![j] = 0]
  /\ UNCHANGED <<owner, intent, retryOf, attempt, delay, seenAccess,
                 seenDeletion, tenantVars, factVars, holder, workerVars>>

-------------------------------------------------------------------------------
(* The worker: run_once *)

ClaimJobUnbounded(w, j) ==              \* mutant: the last attempt is not the last
  /\ state' = [state EXCEPT ![j] = "running"]
  /\ attempt' = [attempt EXCEPT ![j] = @ + 1]
  /\ token' = [token EXCEPT ![j] = attempt[j] + 1]
  /\ lease' = [lease EXCEPT ![j] = LeaseSpan]
  /\ UNCHANGED <<seenAccess, seenDeletion, workerVars>>

\* Jobs.claim of a job with attempts left.  The commit may be acknowledged
\* (the worker goes on to prepare) or its acknowledgement lost (run sleeps).
ClaimJob(w, j) ==
  /\ attempt[j] < MaxAttempt
  /\ state' = [state EXCEPT ![j] = "running"]
  /\ attempt' = [attempt EXCEPT ![j] = @ + 1]
  /\ token' = [token EXCEPT ![j] = attempt[j] + 1]
  /\ lease' = [lease EXCEPT ![j] = LeaseSpan]
  /\ seenAccess' = [seenAccess EXCEPT ![j] = accessEpoch]
  /\ seenDeletion' = [seenDeletion EXCEPT ![j] = deletionEpoch]
  /\ \/ /\ pc' = [pc EXCEPT ![w] = "prepared"]
        /\ heldJob' = [heldJob EXCEPT ![w] = j]
        /\ heldToken' = [heldToken EXCEPT ![w] = attempt[j] + 1]
        /\ retry' = [retry EXCEPT ![w] = TRUE]
     \/ UNCHANGED workerVars

\* Jobs.claim of a job that has used its last attempt.
ClaimSpent(j) ==
  /\ attempt[j] = MaxAttempt
  /\ GuardEnd(j, "failed")
  /\ state' = [state EXCEPT ![j] = "failed"]
  /\ token' = [token EXCEPT ![j] = 0]
  /\ lease' = [lease EXCEPT ![j] = 0]
  /\ UNCHANGED <<attempt, seenAccess, seenDeletion, workerVars>>

Claim(w) ==
  /\ pc[w] = "idle"
  /\ holder = None
  /\ RunsAs[w] \in may
  /\ \E j \in Due(RunsAs[w]) : ClaimJob(w, j) \/ ClaimSpent(j)
  /\ UNCHANGED <<owner, intent, retryOf, delay, tenantVars, factVars, holder>>

\* The next phase of the same run_once.
Goto(w, phase) ==
  /\ pc' = [pc EXCEPT ![w] = phase]
  /\ UNCHANGED <<heldJob, heldToken, retry>>

\* run_once returns or raises: its locals are gone.
Leave(w, phase) ==
  /\ pc' = [pc EXCEPT ![w] = phase]
  /\ heldJob' = [heldJob EXCEPT ![w] = None]
  /\ heldToken' = [heldToken EXCEPT ![w] = 0]
  /\ retry' = [retry EXCEPT ![w] = TRUE]

\* The request cannot succeed: run_once sets retry = False.
Refuse(w) ==
  /\ pc' = [pc EXCEPT ![w] = "failing"]
  /\ retry' = [retry EXCEPT ![w] = FALSE]
  /\ UNCHANGED <<heldJob, heldToken>>

Holds(w)   == LeaseHeld(RunsAs[w], heldJob[w], heldToken[w])
Release(w) == holder' = IF holder = w THEN None ELSE holder

BeginPublishInTwo(w) ==       \* mutant: the assertion commits before the job row
  /\ pc[w] = "prepared"
  /\ holder = None
  /\ Holds(w)
  /\ EpochsUnchanged(heldJob[w])
  /\ Goto(w, "publishing")
  /\ published' = published \cup {<<heldJob[w], heldToken[w]>>}
  /\ UNCHANGED <<rowVars, tenantVars, live, erased, holder>>

\* The publish transaction up to the end of Jobs.lease.
BeginPublish(w) ==
  /\ pc[w] = "prepared"
  /\ holder = None
  /\ Holds(w)
  /\ EpochsUnchanged(heldJob[w])
  /\ Goto(w, "publishing")
  /\ holder' = w
  /\ UNCHANGED <<rowVars, tenantVars, factVars>>

\* not_found or job_lease_conflict from the lease check of publish or fail.
LeaseLost(w) ==
  /\ pc[w] \in {"prepared", "failing"}
  /\ holder = None
  /\ ~Holds(w)
  /\ Leave(w, "idle")
  /\ UNCHANGED <<rowVars, tenantVars, factVars, holder>>

\* stale_context from the lease check of publish.
StaleContext(w) ==
  /\ pc[w] = "prepared"
  /\ holder = None
  /\ Holds(w)
  /\ ~EpochsUnchanged(heldJob[w])
  /\ Goto(w, "failing")
  /\ UNCHANGED <<rowVars, tenantVars, factVars, holder>>

\* The request does not validate in this worker (ValidationError), or does not
\* normalise to the stored payload (job_intent_conflict).
InvalidInput(w) ==
  /\ pc[w] = "prepared"
  /\ Refuse(w)
  /\ UNCHANGED <<rowVars, tenantVars, factVars, holder>>

\* A database or tokenizer error before the publish transaction commits.
DependencyError(w) ==
  /\ pc[w] \in {"prepared", "publishing"}
  /\ Goto(w, "failing")
  /\ Release(w)
  /\ UNCHANGED <<rowVars, tenantVars, factVars>>

\* publish_assertion and the WHERE clause of the final update.
Publishable(p, j, t) ==
  /\ Loads(p, j)
  /\ EvidenceExists(intent[j])
  /\ token[j] = t
  /\ lease[j] > 0

\* publish_assertion, the final update and the commit.  If the acknowledgement
\* is lost the worker takes it for a dependency error.
CommitPublish(w) ==
  LET j == heldJob[w] IN
  /\ pc[w] = "publishing"
  /\ Publishable(RunsAs[w], j, heldToken[w])
  /\ GuardEnd(j, "succeeded")
  /\ state' = [state EXCEPT ![j] = "succeeded"]
  /\ token' = [token EXCEPT ![j] = 0]
  /\ lease' = [lease EXCEPT ![j] = 0]
  /\ published' = published \cup {<<j, heldToken[w]>>}
  /\ live' = live \cup {j}
  /\ Leave(w, "idle") \/ Goto(w, "failing")
  /\ Release(w)
  /\ UNCHANGED <<owner, intent, retryOf, attempt, delay, seenAccess, seenDeletion,
                 tenantVars, erased>>

\* The lease or the membership expired after the lease check, and the
\* transaction rolls back: the final update matches no row (job_lease_conflict)
\* or a scope check fails (not_found); or row security hides the evidence, which
\* the worker takes for bad input (invalid_evidence).
AbortPublish(w) ==
  /\ pc[w] = "publishing"
  /\ ~Publishable(RunsAs[w], heldJob[w], heldToken[w])
  /\ \/ Leave(w, "idle")
     \/ RunsAs[w] \notin may /\ Refuse(w)
  /\ Release(w)
  /\ UNCHANGED <<rowVars, tenantVars, factVars>>

\* The fail transaction up to the end of Jobs.lease(epochs=False).
BeginFail(w) ==
  /\ pc[w] = "failing"
  /\ holder = None
  /\ Holds(w)
  /\ Goto(w, "recording")
  /\ holder' = w
  /\ UNCHANGED <<rowVars, tenantVars, factVars>>

FailState(w) ==
  IF retry[w] /\ attempt[heldJob[w]] < MaxAttempt THEN "pending" ELSE "failed"

\* The update of Jobs.fail and the commit.
CommitFail(w) ==
  LET j == heldJob[w]
      new == FailState(w) IN
  /\ pc[w] = "recording"
  /\ Loads(RunsAs[w], j)
  /\ GuardEnd(j, new)
  /\ state' = [state EXCEPT ![j] = new]
  /\ token' = [token EXCEPT ![j] = 0]
  /\ lease' = [lease EXCEPT ![j] = 0]
  /\ \E d \in 1 .. MaxDelay : delay' = [delay EXCEPT ![j] = d]
  /\ Leave(w, "idle")
  /\ Release(w)
  /\ UNCHANGED <<owner, intent, retryOf, attempt, seenAccess, seenDeletion,
                 tenantVars, factVars>>

\* The membership expired after the lease check: row security hides the row
\* from the update, which changes nothing and is not checked; or the database
\* failed before the commit, which run catches.
FailUnrecorded(w) ==
  /\ pc[w] = "recording"
  /\ Leave(w, "idle")
  /\ Release(w)
  /\ UNCHANGED <<rowVars, tenantVars, factVars>>

\* The process is killed, or ends with an exception run does not catch:
\* job_invalidated from a claim, or guard_job's refusal of an update that the
\* lease outlived (CheckViolation).  Its connection closes and the lock with it.
Stop(w) ==
  /\ pc[w] # "down"
  /\ Leave(w, "down")
  /\ Release(w)
  /\ UNCHANGED <<rowVars, tenantVars, factVars>>

Restart(w) ==
  /\ pc[w] = "down"
  /\ Leave(w, "idle")
  /\ UNCHANGED <<rowVars, tenantVars, factVars, holder>>

\* Jobs.heartbeat.  run_once does not call it; other callers of Jobs may.
Heartbeat(w) ==
  LET j == heldJob[w] IN
  /\ pc[w] = "prepared"
  /\ holder = None
  /\ Holds(w)
  /\ EpochsUnchanged(j)
  /\ lease' = [lease EXCEPT ![j] = LeaseSpan]
  /\ UNCHANGED <<state, owner, intent, retryOf, attempt, token, delay, seenAccess,
                 seenDeletion, tenantVars, factVars, holder, workerVars>>

-------------------------------------------------------------------------------
(* Forget, access administration and time *)

\* MemoryService.forget, mode purge, for the closure (jobs, results).  Forget
\* models its statements one by one.
Purge(jobs, results) ==
  /\ holder = None
  /\ state' = [j \in Job |-> IF j \in jobs THEN "purged" ELSE state[j]]
  /\ token' = [j \in Job |-> IF j \in jobs THEN 0 ELSE token[j]]
  /\ lease' = [j \in Job |-> IF j \in jobs THEN 0 ELSE lease[j]]
  /\ live' = live \ results
  /\ deletionEpoch' = deletionEpoch + 1
  /\ UNCHANGED <<owner, intent, retryOf, attempt, delay, seenAccess, seenDeletion,
                 accessEpoch, may, published, holder, workerVars>>

ForgetSource(s) ==
  /\ s \notin erased
  /\ erased' = erased \cup {s}
  /\ Purge({j \in Citing(s) : Row(j)}, Citing(s))

ForgetJob(j) ==
  /\ Row(j)
  /\ Purge({k \in Lineage(j) : Row(k)}, {})
  /\ UNCHANGED erased

ForgetResult(j) ==
  /\ j \in live
  /\ Purge({k \in Lineage(j) : Row(j) /\ Row(k)}, {j})
  /\ UNCHANGED erased

\* scope_access set and revoke: under the tenant lock, one epoch per change.
ChangeAccess(p) ==
  /\ holder = None
  /\ accessEpoch < MaxEpoch
  /\ may' = IF p \in may THEN may \ {p} ELSE may \cup {p}
  /\ accessEpoch' = accessEpoch + 1
  /\ UNCHANGED <<rowVars, deletionEpoch, factVars, holder, workerVars>>

\* expires_at passes: no transaction, no lock, no epoch.
Expire(p) ==
  /\ p \in may
  /\ may' = may \ {p}
  /\ UNCHANGED <<rowVars, accessEpoch, deletionEpoch, factVars, holder, workerVars>>

Down(n) == IF n = 0 THEN 0 ELSE n - 1

Tick ==
  /\ lease' = [j \in Job |-> Down(lease[j])]
  /\ delay' = [j \in Job |-> Down(delay[j])]
  /\ UNCHANGED <<state, owner, intent, retryOf, attempt, token, seenAccess,
                 seenDeletion, tenantVars, factVars, holder, workerVars>>

-------------------------------------------------------------------------------

WorkerStep(w) ==
  \/ Claim(w) \/ BeginPublish(w) \/ LeaseLost(w) \/ StaleContext(w)
  \/ InvalidInput(w) \/ DependencyError(w) \/ CommitPublish(w) \/ AbortPublish(w)
  \/ BeginFail(w) \/ CommitFail(w) \/ FailUnrecorded(w)
  \/ Stop(w) \/ Restart(w) \/ Heartbeat(w)

Next ==
  \/ \E p \in Principal, i \in Intent, parent \in Job \cup {None} : Enqueue(p, i, parent)
  \/ \E p \in Principal, j \in Job : Cancel(p, j)
  \/ \E w \in Worker : WorkerStep(w)
  \/ \E s \in Source : ForgetSource(s)
  \/ \E j \in Job : ForgetJob(j) \/ ForgetResult(j)
  \/ \E p \in Principal : ChangeAccess(p) \/ Expire(p)
  \/ Tick

Spec == Init /\ [][Next]_vars

(***************************************************************************)
(* Fairness.  Time passes.  PostgreSQL grants an advisory lock in the      *)
(* order it was asked for, so a worker that keeps asking gets its          *)
(* transaction (strong fairness of the steps that take the lock); inside   *)
(* it, statement_timeout and lock_timeout end every statement (weak        *)
(* fairness).  A supervisor restarts a stopped worker.  Nothing is assumed *)
(* of clients, of Heartbeat, of errors, or of how often a worker stops.    *)
(***************************************************************************)
Fairness ==
  /\ WF_vars(Tick)
  /\ \A w \in Worker :
       /\ SF_vars(Claim(w))
       /\ SF_vars(BeginPublish(w) \/ StaleContext(w) \/ LeaseLost(w) \/ BeginFail(w))
       /\ WF_vars(CommitPublish(w) \/ AbortPublish(w))
       /\ WF_vars(CommitFail(w) \/ FailUnrecorded(w))
       /\ WF_vars(Restart(w))

FairSpec == Spec /\ Fairness

-------------------------------------------------------------------------------
(* Properties *)

\* A committed assertion of a job is the work of its last claim, and the job
\* says so: at most one result per job, none from a claim that was taken over,
\* none for a job that is retried, failed or cancelled (README: "at most one
\* committed result per job"; jobs.publish's token and expiry checks).
ResultOfLastClaim ==
  \A r \in published : /\ state[r[1]] \in {"succeeded", "purged"}
                       /\ r[2] = attempt[r[1]]

\* Nothing derived from an erased episode exists or can still be published:
\* neither a result nor a job row cites one, whatever publish was under way
\* when the episode was forgotten.
NothingFromErased ==
  \A j \in Job : (j \in live \/ Row(j)) => Cites[intent[j]] \cap erased = {}

\* One job per (owner, intent, retry parent), for ever: a purged or cancelled
\* request cannot be brought back by sending it again, and repeated retries of
\* one failed job share one child.
OneJobPerIdentity ==
  \A j, k \in Enqueued :
    (owner[j] = owner[k] /\ intent[j] = intent[k] /\ retryOf[j] = retryOf[k]) => j = k

\* A retry hangs off a failed job that still exists, with the same owner and
\* intent: purging any job of a chain takes everything retried from it.
RetryLineage ==
  \A j \in Job : (Row(j) /\ retryOf[j] # None) =>
    /\ state[retryOf[j]] = "failed"
    /\ owner[retryOf[j]] = owner[j]
    /\ intent[retryOf[j]] = intent[j]

\* The queue of the scope never exceeds its bound.
WithinQuota == Cardinality(Open) <= Quota

\* The lease token exists exactly while a job runs and names its last claim;
\* a job that waits has attempts left; nothing is live that did not succeed.
RowsConsistent ==
  \A j \in Job :
    /\ state[j] = "running" => token[j] = attempt[j] /\ attempt[j] > 0
    /\ state[j] = "pending" => attempt[j] < MaxAttempt
    /\ state[j] = "absent" => attempt[j] = 0
    /\ j \in live => state[j] \in {"succeeded", "purged"}

\* The tenant's lock belongs to the one worker that is inside a transaction,
\* and what its lease check found still holds there, the clock and the
\* membership apart.
LockProtects ==
  \A w \in Worker :
    /\ pc[w] \in {"publishing", "recording"} <=> holder = w
    /\ holder = w => /\ state[heldJob[w]] = "running"
                     /\ owner[heldJob[w]] = RunsAs[w]
                     /\ token[heldJob[w]] = heldToken[w]
    /\ pc[w] = "publishing" => EpochsUnchanged(heldJob[w])

\* The inductive invariant behind the safety theorems.
Inductive ==
  /\ TypeOK
  /\ RowsConsistent
  /\ LockProtects
  /\ ResultOfLastClaim
  /\ NothingFromErased

\* No publication crosses a forget or an access change: when a job succeeds,
\* both epochs are those its claim captured, although the check was made
\* earlier in the transaction.
PublishesInItsEpoch ==
  [][\A j \in Job : (state[j] = "running" /\ state'[j] = "succeeded") =>
       seenAccess[j] = accessEpoch' /\ seenDeletion[j] = deletionEpoch']_vars

\* Only the worker that holds the current lease decides a running job; nobody
\* else's late publish or fail does, and without one it only ends by
\* cancellation, purge, or the expiry of its last attempt.
OnlyLeaseholderDecides ==
  [][\A j \in Job :
       (state[j] = "running" /\ state'[j] \in {"pending", "succeeded", "failed"}) =>
         \/ \E w \in Worker : /\ pc[w] \in {"publishing", "recording"}
                              /\ heldJob[w] = j
                              /\ heldToken[w] = token[j]
         \/ lease[j] = 0 /\ attempt[j] = MaxAttempt]_vars

\* Every accepted job settles, however often workers die, acknowledgements are
\* lost or leases expire, unless its owner loses access.
EveryJobSettles ==
  \A j \in Job : j \in Open ~> (j \notin Open \/ owner[j] \notin may)

\* The client-visible contract.
Contract == INSTANCE JobContract WITH
  phase   <- [j \in Job |-> IF j \in Open THEN "open" ELSE state[j]],
  request <- intent

ContractSpec == Contract!Spec
===============================================================================
