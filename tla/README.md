# pg_agmemory in TLA+

TLA+ modules, TLC configurations and TLAPS proofs for `pg_agmemory`, a
PostgreSQL-backed memory service for agents.  Paths below are relative to the
package, `src/src/pg_agmemory/`; the SQL files are in its `storage/`.

Contents: [the system](#the-system), [the modules](#the-modules),
[the runs](#the-runs), [fairness](#fairness), [the proofs](#the-proofs),
[where documentation and code disagree](#where-documentation-and-code-disagree),
[what is not modelled](#what-is-not-modelled), [what would come next](#what-would-come-next).

## The system

A tenant's memory lives in one PostgreSQL database.  Three kinds of process
change it while it serves: the HTTP API, workers that publish queued assertions,
and the `scope-access` command of an administrator.  None of them keeps state
between requests, apart from the claim a worker holds in its local variables.
They meet only in the database, under one **session advisory lock per tenant**,
taken before a transaction starts and given back when the connection closes,
after the answer has been delivered.  Migrations and the lexical reindexing take
another lock, which no request takes, and meet requests only at rows and keys.
Callers, on the other side of connections that may fail, repeat what they did
not hear about.  Row security decides on every statement what a
principal may see: a membership of the scope that has not expired, and no
tombstone on the object.

| Component | Source | State it keeps | Operations | What makes it hard | What makes it correct |
| --- | --- | --- | --- | --- | --- |
| Tenant lock and request boundary | `api.py` `TransactionBoundary`, `service.py` `principal_connection`, `scope_access.py` | the lock; the buffered answer of each request | connect, lock, transaction, commit, deliver, close | READ COMMITTED statements; commit and delivery are apart; timeouts, lost acknowledgements, lost sessions, slow readers | a request's reads agree; no purge or revocation is acknowledged while an older answer is under way; requests end |
| Durable jobs and worker | `jobs.py`, `worker.py`, `006`, `010` | `job`, `job_input`, `job_identity`; the worker's claim | enqueue, retry, cancel, claim, heartbeat, publish, fail | leases that run out under a slow worker; workers that die; acknowledgements lost; sources forgotten and access changed between claim and publication | at most one result per job, from the last claim, in the epochs of that claim; one job per request; every job settles |
| Purge | `service.py` `forget`, `001`-`006` | every content and link table, tombstones, `deletion_epoch`, receipts | preview, purge | a closure over eleven kinds of edges; eighteen statements against foreign keys; row security re-decided by each | never refused; nothing left that refers to what was purged; the receipt is true |
| Checkpoint runs | `checkpoints.py`, `003` | run, branches (head, sequence, invalidated), checkpoints | create, restore, get, head | two clients on one head; forks; purges of heads and parents; watermarks | a branch is a chain that continues once; a fork of a purged past is not usable |
| Tool-effect ledger | `effects.py`, `004` | effects with revisions, `tool_effect_identity`, `effects_invalidated` | plan, transition, fence at restore | a dispatched operation whose client is gone; restores that fork while it runs; purges of the evidence | an operation is handed out at most once; a receipt stands; a checkpoint that may be resumed is right |
| Episodes, assertions, revisions | `service.py`, `001`, `002` | `object`, `episode`, `assertion`, `assertion_revision`, `provenance_edge`, `source_event` | observe, remember, revise, recall, explain, history | compare-and-set on revisions; abutting system-time intervals; deduplication of source events | history is contiguous, one current revision, every revision has evidence |
| Relational graph | `graphs.py`, `005` | `entity`, `entity_evidence`, `relation`, `relation_revision` | create, revise, neighbours, expand | bounded breadth-first expansion over two time axes | expansion finds what a reference closure finds, within its bounds |
| Scope access | `scope_access.py`, `009` | `scope_member`, `access_epoch`, `scope_access_event` | get, set, revoke | two administrators; failure during commit | compare-and-set on the epoch; one event per change; `outcome_unknown` is honest |
| Idempotency | `service.py` `replay`, `save_result` | `idempotency` | every mutating request | replay after a purge, a revocation or a later change | one effect per key; no result of a purged object |
| Listing | `service.py`, `jobs.py` | none (cursors at the client) | query episodes, jobs | rows inserted or purged between pages | no row twice, none skipped that was there throughout |
| Migration, readiness, reindex | `database.py`, `008` | `pgag_schema_migration` | migrate, validate_runtime, reindex_lexical | two at once; versions that differ | versions are a prefix; a runtime serves only its own version |
| Captures | `capture.py` | those of episodes, jobs and idempotency | create, create_batch | an episode, its jobs and their keys are several rows; each may be a duplicate of another capture's | everything or nothing; a source event has one episode for ever |
| Context packs | `service.py` `build_context`, `recall_hook.py` | none | pack, check | a byte count that is part of the text it counts | the count is right, within the budget, with every required row |
| Clients | `native_client.py`, `sdk.py`, `mcp_adapter.py`, `cli.py` | none | calls of the HTTP contract | lost requests and answers, late ones, 5xx | an error without `outcome_unknown` means that nothing was or will be done |
| Providers | `providers.py`, `azure_inference.py`, `embeddings.py`, `inference.py` | `assertion_embedding`, `episode_embedding` | paid calls, put | work that is charged although its answer is lost | an error without `billing_unknown` means that nothing was charged; one vector per text and model |

Interactions: the API and the worker share `MemoryService` on one connection per
transaction; `Jobs.publish` calls `publish_assertion`; `Checkpoints.restore`
calls `ToolEffects.fence_restore`; `forget` reaches into the tables of every
component; `scope_access` changes what row security answers everyone else.

## The modules

| Module | Models | Checked with | Proved in |
| --- | --- | --- | --- |
| `Jobs` | `jobs.py`, `worker.py`, trigger `guard_job` | `MCJobs` | `JobsProofs` |
| `JobContract` | what the owner of a job may rely on (abstract) | refined by `Jobs` | `JobsProofs` |
| `TenantBarrier` | `TransactionBoundary`, `principal_connection`, the lock of `scope_access` | `MCTenantBarrier` | `TenantBarrierProofs` |
| `BarrierContract` | requests that read and change the tenant in one step (abstract) | refined by `TenantBarrier` | `TenantBarrierProofs` |
| `Forget` | `MemoryService.forget` over all tables | `MCForget` | `ForgetProofs` |
| `Runs` | `checkpoints.py`, `effects.py`, triggers of `003`, `004` | `MCRuns` | `RunsProofs` |
| `Revisions` | remember and revise with their keys, `adopt_revision`, reads over system time, history pages | `MCRevisions` | `RevisionsProofs` |
| `HistoryContract` | an append-only log in which a request takes effect once (abstract) | refined by `Revisions` | `RevisionsProofs` |
| `Outcomes` | what a caller is told, and when that is honest | extended by the modules below | |
| `Access` | `scope_access.py` | `MCService` | `AdministrationProofs` |
| `Intake` | `observe`, `capture.py`, `replay` and `save_result`, the clients' calls | `MCService` | `ServiceProofs` |
| `Pages` | `query_episodes`, `Jobs.query`, `query_entities` | `MCService` | `ReadsProofs` |
| `Maintenance` | `database.py` (migrate, validate_runtime), `lexical.py` (rebuild) beside requests | `MCService` | `AdministrationProofs` |
| `GraphExpand` | `SqlGraph.expand`, `neighbors` | `MCService` | `ReadsProofs` |
| `ContextPack` | `build_context`, the checks of `recall_hook.py` | `MCService` | `ReadsProofs` |
| `Providers` | `providers.py`, `azure_inference.py`, `Embeddings.put` | `MCService` | `ServiceProofs` |
| `MCService` | the seven modules before it, composed | | `ServiceProofs` |

They are layered by atomicity.  `TenantBarrier` shows that requests of one
tenant may be taken one at a time.  On that ground `Jobs`, `Runs` and `Revisions` make one
action of one request, and `Forget` keeps every other transaction out while a
purge is under way.  The exceptions are what the lock does not stop, the clock
and the expiry of memberships: the publish and fail transactions of `Jobs` and
the statements of `Forget` are therefore split.  `Jobs`, `Runs` and `Revisions` in turn take
a purge as one step with the closure that concerns them, whose statements are
the subject of `Forget`.

The modules that `MCService` composes look at what that layering leaves open:
the administrator's command step by step with its connection (`Access`), requests
as their callers see them (`Intake`, `Providers`), reads that take several
requests (`Pages`) or several statements under a clock that expires memberships
(`GraphExpand`), work that the tenant's lock does not cover (`Maintenance`), and
the one calculation that is easy to get wrong (`ContextPack`).

### Jobs

State: the columns of `memory_ops.job` for each identity (`state`, `owner`,
`intent`, `retryOf`, `attempt`, `token`, `lease`, `delay`, the captured epochs),
the tenant's epochs, memberships (`may`), erased episodes, the assertions ever
published and those still live, the holder of the lock, and `run_once`'s
position and locals for each worker.

Actions: `Enqueue` (also a retry), `Cancel`; `Claim` (a job with attempts left,
or the end of one without), `BeginPublish` / `CommitPublish` / `AbortPublish`,
`LeaseLost`, `StaleContext`, `InvalidInput`, `DependencyError`, `BeginFail` /
`CommitFail` / `FailUnrecorded`, `Heartbeat`, `Stop`, `Restart`; `ForgetSource`,
`ForgetJob`, `ForgetResult`; `ChangeAccess`, `Expire`, `Tick`.

Abstractions.  Time is relative: `lease` and `delay` count ticks, so the model
needs no clock.  `ORDER BY available_at` becomes "any due job".  One scope.  A
lease token is the number of the attempt it was issued for (the code draws a
fresh uuid4).  `payload` is non-null exactly in open jobs, so `intent` stands
for it.  The backoff 2^attempt plus jitter is any delay of 1 to `MaxDelay`.
Requests that are refused or that replay an idempotency key change nothing.  A
cancellation whose expected state and attempt do not match the row is a refusal.
A request's evidence quotes text that the episode contains; a mismatch is a
refusal at enqueue.

### TenantBarrier

State: the committed items, access and epoch of the tenant, the holder of the
lock, and per session its phase, purpose, the content its statements returned and
the epoch a later statement returned.

Actions: `Arrive`, `Lock`, `LockTimeout`, `ReadItems`, `Commit`,
`CommitUnacknowledged`, `Abort`, `Deliver`, `SendTimeout`, `SessionLost`,
`Expire`.  `SessionsDie` says whether PostgreSQL may end a session while its
answer is being sent; the guarantee holds without it and fails with it.

### Forget

State: `kind` (objects by number), `rows` as `<<table, id, ref>>`, tombstones,
heads and invalidated branches, the sealed flag of the run, the epoch, receipts,
the purging membership, and the purge under way with what a rollback restores.

Creating actions (`Observe`, `Remember`, `CreateEntity`, `CreateRelation`,
`Revise`, `Enqueue`, `Publish`, `PlanEffect`, `CreateCheckpoint`, `Restore`)
insert the rows the code inserts, links included; they build every graph the
bounds allow.  `Begin` computes the closure, `Statement` runs the next of the
eighteen statements of `Script`, `Commit` advances the epoch and writes the
receipt, `Fail` rolls back, `Expire` ends the membership.

Abstractions: one scope and one run; the lexical and vector tables, which
cascade with their parents, are left out; a revision history is one row per
object and link (revisions are told apart only by what they link to); each
operation cites one episode, and revisions and further operations add more.

### Runs

State: one run's harness and sealed flag, the ledger (`effects`, `planned`),
the checkpoints by number, the purged ones, the branches.  `dispatches` is a
history variable: how often an operation became dispatched.

Actions: `Plan`, `Transition`, `Create`, `Restore`, `Purge`.  `ResumeAllowed`
is the decision of `Checkpoints.envelope`.

### Revisions

State: the database's clock; for each assertion its head and its rows with their
interval of system time and the request that wrote them; the tombstones; the
stored results by operation and key; a client that pages through a history.

Actions: `Remember`, `Revise`, `Purge`, `FirstPage`, `NextPage`, and the clock's
`Tick` and `StepBack`.  Every request may be repeated at any time.  `Verdict` is
what a handler would answer now, checks in the handler's order (visibility, the
key, the head, the limit, the evidence, and then the trigger's look at the
clock); only the verdict `adopted` changes anything, for a replay reads and a
refusal rolls back.  Reads of the past are operators, `Recall` and `References`,
of which the properties speak; a history is read page by page, since others may
write in between.

Abstractions.  A request carries its key, what it expects and what it cites;
values and wording are not told apart, but two requests with one key are, which
is what the request digest is for.  `None` stands for the identity a request to
remember does not have yet.  A plain assertion and a relation are handled alike,
except that a relation also cites its entities (`Source`); that each refuses the
other's operation changes nothing.  A purge takes its root and the assertions
that cite it; how the closure reaches an entity from its episodes is the subject
of `Forget`.  One scope, one principal, whose access does not change; no valid
time, which is a filter of reads.  The deferred checks of `002` and `005`
(contiguous history, evidence, exact targets) never refuse anything: what they
check is `Numbered`, `Ordered` and `EvidenceStands`, which are proved to hold
without them.

### Access

State: the memberships, the access epoch and the event log; the holder of the
lock; per command its phase, what it asks, the event its COMMIT would add
(`change`, the code's `commit_attempted`), and what it printed.

Actions: `Ask`, `TakeLock`, `Fail`, `Refuse`, `Decide`, `CommitAccess`,
`LoseCommit`, `SettleOrphan`, `PrintResult`.  A connection that fails during
COMMIT leaves a command in `limbo`: it has said `outcome_unknown`, and the session
behind it, which still holds the lock, commits or rolls back on its own.  Expiry
is part of a setting, and a setting whose expiry has passed is one of the
refusals of `Fail`, as are roles, schema and unknown principals.

### Intake

State: the episodes there are, and three tables that outlive them (`source_event`,
`job_identity`, `idempotency`); live and open jobs; per call what was sent,
whether the service may still handle it, what it sent back and what the client
told its user.

Actions: `Send`, `Accept`, `Reject`, `Break`, `Hear`, `GiveUp`, `RefuseUnsent`;
`Settle`, `ForgetEpisode`, `ForgetJob`.  `Accept` is the whole transaction of
observe, `Captures.create` or `create_batch`: the replay, the source event, the
episode, every job and every stored result.  The rows that a capture stores under
derived keys say the same as its own and are not told apart.  An object is named
after the call that made it.  A call whose client has given up may still be
handled later; that its retry was refused says nothing about it, which is why
`Honest` speaks of each call for itself.

### Pages

State: the rows with their time and whether they match the filter, and the
client's cursor, with the rows shown so far and those that were there all along.
The three listings share one keyset, time and then id; only a job may come to
match, or cease to, while it is there (`ChangeState`).  `Row` is a set of numbers
because ids are compared.

### Maintenance

State: the installed versions, the episodes and those with a lexical row, the
processes that serve, the rows an open purge holds, and the transaction of the
command under the advisory lock (`draft`).

Actions: `Start`, `Stop`, `Observe`, `EraseEpisode`, `EraseLexical`, `EndErase`;
`BeginMaintenance`, `TakeMaintenanceLock`, `CheckHistory`, `ApplyMigration`,
`Clear`, `Scan`, `Fill`, `Filled`, `CommitMaintenance`, `FailMaintenance`.  READ
COMMITTED gives each statement its own snapshot: `Clear` deletes the rows of one,
`Scan` opens the cursor in a later one, and each `Fill` meets keys and locks of
now.  That operators stop and drain older processes before they migrate, and
start none while they do, is their part (`docs/STATUS.md`): it is a guard of
`BeginMaintenance` and `Start`.  The migrations other than the one that fills the
lexical tables differ only in their number.

### GraphExpand and ContextPack

`GraphExpand` takes one statement per walk (`WalkOn`), as `expand` does; between
two of them a membership may lapse.  The graph is what holds at the instant asked
about and does not change under the tenant's lock.  Its property compares what is
delivered with all simple paths, enumerated and ordered by definition.

`ContextPack` knows a row by what its line adds to the length.  `Counted` repeats
the count as the code does, `LengthOf` is the least number that counts itself, and
the property says that what is delivered has that length: a count that was not
repeated would be short where it grows by a digit.

### Providers

State: per call its phase, the text and model, whether the provider may still be
at work, whether it has charged, its answer, what the caller was told, the
vector; the texts there are and their vectors; what was said of the put.

Actions: `Infer`, `RefuseInference`, `Submit`, `Serve`, `ReadResponse`,
`Abandon`, `Put`, `PurgeText`.  `Serve` is the provider: it works or not, and
answers with a vector, with something unusable, by declining, or with a fault.
That a status below 500 means that no work was done is what the code takes for
granted of HTTP providers, and so does the model; of `azure_ai`, whose errors say
nothing of the kind, it takes nothing for granted (`Declined`).

### MCService

Seven parts without common state would multiply their states if all of them
moved; nothing a property says would change, since each speaks of one part.
`scene` therefore picks the part that moves in a behaviour.  `PartsBehave`, in
`ServiceProofs`, proves that the composition lets each of the parts do nothing that
its own specification does not.  The same model values stand for
calls, administrators and episodes, and for keys, maintainers, models and
vectors, so that one group of permutations is a symmetry of every part; ids that
the code orders are numbers.

## The runs

| Run | Bounds | Shows |
| --- | --- | --- |
| `Jobs_safety` | 2 jobs, 2 workers, 1 owner, 2 intents over 2 episodes (one shared), 2 attempts, quota 2, lease 2, symmetry | no double, late, stale or erased publication |
| `Jobs_owners` | 3 jobs, 1 worker, 2 owners, 1 intent, 1 attempt, quota 1, symmetry | refinement of `JobContract`; identity, lineage, quota |
| `Jobs_live` | 2 jobs, 2 workers, 2 attempts, no symmetry | every job settles |
| `TenantBarrier_drain` | 3 sessions, 2 items, 2 changes, symmetry, no session dies | exclusion, the drain guarantee, refinement of `BarrierContract` |
| `TenantBarrier_live` | 3 sessions, 1 item, 1 change, sessions may die | requests end; transactions are isolated |
| `TenantBarrier_lost` | 2 sessions, 1 item, sessions may die | **violation**: see below |
| `Forget_purge` | 4 objects, 2 branches, up to 2 roots, expiry, symmetry | never refused, nothing outlives, receipts true unless the membership expires |
| `Forget_receipt` | as `Forget_purge` with 1 root | **violation**: see below |
| `Runs_ledger` | 2 operations, 2 branches, 1 harness, 2 checkpoints, 1 hint | at most one dispatch, resume, fences, receipts |
| `Runs_branches` | 1 operation, 2 branches, 2 harnesses, 4 checkpoints, 2 watermarks | chains, exclusive heads |
| `Revisions_history` | 2 assertions, 2 sources, 3 keys, 3 revisions, 1 source each, 4 instants, pages of 1, symmetry | histories, answers, pages, the settled past; refinement of `HistoryContract` |
| `Service` | one part at a time, see below; symmetry | the log of access changes, whole captures, honest outcomes, pages, the lexicon, expansions, packs |

`Service` is one run of seven questions, because its parts share an initial state
and nothing else.

Why the bounds are enough for what they are for.  *Jobs*: a takeover needs two
workers and two attempts; a publication that must notice a purge needs a second
episode that its own job does not cite; a lineage needs a job, its retry and the
retry's retry (3 jobs); a queue of one place is full as soon as another owner's
job is open, and jobs return to pending; a lease of 2 ticks lets the clock move
once without expiring it.  *TenantBarrier*: a reader
under way, a purge, and a third session that waits.  *Forget*: every edge and
every foreign key involves at most three objects (an entity's relation with its
evidence; two entities that share an episode); the fourth puts a second link on
the chain.  *Runs*: a restore over another branch's dispatched operation needs
two branches; a second operation shows that sealing by one ends the other's
resume; four checkpoints give a branch of two with a fork of two.
*Revisions*: three revisions need three instants, and a fourth instant and three
keys let the limit, not the clock, refuse another; two sources let the head cite another
than the revision before, and pages of one make three pages.  That one revision
cites one source only is made up for by the proofs, which have no such bound.
*Service*: three administrators, of whom two expect one epoch and a third comes
after the orphan of one of them, up to epoch 3, where `MaxAccessEpoch` (`MAX_EPOCH`
in the code) refuses another change; three calls with two keys, so that a call, its retry and another
capture of the same event meet, over two open jobs, the most that
`MaxOpenJobs` (100 in the code) admits; three rows at two instants on pages of
one, which have both equal times and a cursor in the middle; two maintainers, an
old and a new process and three episodes, one cleared, one purged and one
observed during a rebuild, from any version up to 3 with the lexical tables as
version 2 (`Latest`, `LexicalVersion`); three relations over four entities in two
scopes, two hops and limits of 2, 3 and 100 paths; packs of up to three rows whose
lengths lie around 1000, the limit where the count grows by a digit, in the frame
and header of the code (157 and 35 bytes); two calls of
providers, one of them through `azure_ai`, over texts that take one vector
(`MaxVectors`, 8 in the code).

`CHECK_DEADLOCK FALSE` is set for `Forget`, `Runs` and `Service`: identities, commands, calls
and pages are bounded and not used again, so a bounded history really ends.

## Fairness

`Jobs`: time passes; PostgreSQL queues waiters of an advisory lock in order, so
a worker that keeps asking gets its transaction (strong fairness of the steps
that take the lock); `statement_timeout` and `lock_timeout` of five seconds
(`database.connect`) end every statement (weak fairness inside a transaction); a
supervisor restarts a stopped worker.  Nothing is assumed of clients, of
heartbeats, of errors, or of how seldom workers stop.

`TenantBarrier`: the same timeouts bound the wait for the lock and every
statement; `asyncio.timeout(10)` bounds the sends (`api.py` 164).  Nothing is
assumed of clients, nor of whoever reads the output of `scope-access`, which
holds the lock until its line is flushed: such a command may stop a tenant, and
`EveryRequestEnds` shows that requests behind it still end (with a 503).

`Forget`, `Runs`, `Revisions` and the parts of `MCService` state safety only and have no
fairness: what must end among them ends by the timeouts that `TenantBarrier` and `Jobs`
are about.

## The proofs

TLAPS proves, for every value of the constants:

| Module | Theorem | Property |
| --- | --- | --- |
| `JobsProofs` | `InductiveInvariant`, `TypeCorrect` | `Inductive`, `TypeOK` |
| | `OneResult` | `ResultOfLastClaim` |
| | `ErasureIsComplete` | `NothingFromErased` |
| | `LeaseholderDecides` | `OnlyLeaseholderDecides` |
| | `PublishesFresh` | `PublishesInItsEpoch` |
| | `IdentitiesAreUnique`, `RetriesHangTogether` | `OneJobPerIdentity`, `RetryLineage` |
| | `QueueIsBounded` | `WithinQuota` |
| | `JobsImplementContract` | `ContractSpec` |
| `TenantBarrierProofs` | `BarrierInductive`, `DrainIsFresh` | `Inductive`, `NoStaleDelivery`, assuming `~SessionsDie` |
| | `TransactionsAreIsolated` | `Isolated`, with no such assumption |
| | `BarrierImplementsContract` | `ContractSpec`, assuming `~SessionsDie` |
| `RunsProofs` | `LedgerInductive`, `HandedOutOnce` | `Inductive`, `OperationOnce` |
| | `ResumeAllowedIsRight`, `ReceiptsAreFinal` | `ResumeIsSafe`, `ReceiptsStand` |
| | `HeadsContinueOnce` | `HeadsAreExclusive` |
| | `RestoreStartsFenced` | `RestoreFences` |
| | `RunsTyped` | `TypeOK` |
| | `BranchesStayChains` | `BranchesAreChains` |
| `RevisionsProofs` | `HistoryInductive`, `RevisionsAreSupported` | `Inductive`, `EvidenceStands` |
| | `OneIsKnown`, `ThePastStands` | `OneRevisionAtATime`, `PastIsSettled` |
| | `AnswersAreOwn` | `AnswersStand` |
| | `PagesAreWhole` | `PagesJoinUp` |
| | `HistoriesTyped` | `TypeOK` |
| | `HistoryImplementsContract` | `ContractSpec` |
| `ForgetProofs` | `TablesTyped` | `TypeOK` |
| | `PurgeIsNeverRefused` | `NeverRefused` |
| | `NothingOutlivesAPurge` | `NothingOutlives` |
| | `ReceiptsHold` | `ReceiptsAreTrueUntilExpiry` |
| `AdministrationProofs` | `AccessAccounted` | `AccessIsAccounted` |
| | `LexiconStaysComplete` | `LexiconComplete` |
| `ReadsProofs` | `PagesAreOneListing` | `PagesAgree` |
| | `PacksFit` | `PackFits` |
| | `ExpansionsAreReference` | `ExpansionIsReference` |
| `ServiceProofs` | `IntakeConsistent`, `ClientsNotMisled` | `IntakeIsConsistent`, `ClientsAreToldTheTruth` |
| | `CallersNotMisled` | `CallersAreToldTheTruth` |
| | `PartsBehave` | the specification of each part |
| | `ServiceAccounts`, `ServiceIsConsistent` | `AccessIsAccounted`, `IntakeIsConsistent` |
| | `ServiceKeepsLexicon`, `NobodyMisled` | `LexiconComplete`, `NobodyIsMisled` |
| | `ServicePagesAgree`, `ServicePacksFit` | `PagesAgree`, `PackFits` |
| | `ServiceExpansionsAreReference` | `ExpansionIsReference` |

Assumptions are the named ones on the constants (`JobsAssumption`,
`BarrierAssumption`, `ForgetAssumption`, `PurgeAssumption`, `RunsAssumption`,
`RevisionsAssumption`, `OutcomesAssumption`, `AccessAssumption`, `IntakeAssumption`, `MaintenanceAssumption`,
`ProvidersAssumption`, `PagesAssumption`, `GraphAssumption`, `ContextAssumption`), which TLC evaluates in the runs of their modules, and
`~SessionsDie` where the table says so; `TenantBarrier_lost` shows that the last
cannot be dropped.

**Jobs.**  `ResultOfLastClaim` is not inductive: a step could publish under a
token that is no longer the row's.  `Inductive` adds `RowsConsistent` (a running
job's token is its attempt; nothing live that did not succeed) and
`LockProtects`: a worker is inside a transaction exactly when it holds the lock,
and what its lease check found (state, owner, token, and for a publication both
epochs) still holds, though the lease itself may have run out.  The step of each
action is a lemma; workers that change no row share `QuietWorkerStep`,
`LockAfterTaking` and `LockAfterLeaving`.  The two action properties follow from
the invariant for the few actions that change `state`.  The quota, the identities
and the lineage are one invariant, `QueueSound`: every step but an admission
`Settles`, that is, opens nothing, brings nothing back, and lets a failed job go only
with what was retried from it; `AdmissionSound` is about the one step that adds.
The refinement has a lemma per step of the contract (`EndGivesUp`, `ForgetErases`,
`AdmissionAccepts`) and one that says which steps of a worker it cannot see
(`NothingToTell`).

**TenantBarrier.**  `Inductive` is the type invariant, `Alone` (whoever is between
its lock and its close holds the lock) and `Fresh` (what a transaction read is
still there); `TenantBarrier_drain` checks it as well.  `Isolated` needs none of the drain: only
that two sessions are never between lock and commit together, which holds also
when answers lose their session.  The refinement maps an answer under way to the
contract's `answer` and every step to one of the contract's or a stutter.

**Forget.**  `Sound` compares the tables with what the purge under way found
(`Rows0`; the tables themselves outside one).  `Clean`: a row fits its table
(`Fits`: a link that crosses objects is an edge of the closure) and refers to nothing
purged.  `Whole`: every foreign key holds, deferred ones too, as long as the
membership does.  `Taken`: the targets are closed under the links and meet no older
tombstone, which `ClosureCloses` shows of a closure defined by the sets that are
closed; the second part takes everything but the tombstones as such a set.
`Progress`: some number of statements took effect, all of them while the membership
is in force, and none after it expired.  `NeedsInOrder` is the heart: a row is
cleared no later than each row it needs, so what any number of statements leave
satisfies the keys (`LeftHolds`), and what all of them leave is clean of the targets
(`LeftWhole`).  A commit after an expiry leaves `tombs` alone, which is why
`NothingOutlives` holds even then and `ReceiptsAreTrue` does not.  The creating
operations share `InsertSound`.

**Runs.**  `OperationOnce` needs `LedgerAccounts`: the revision counts the steps
of an effect, an effect under way was dispatched once, and one that is missing
although it was planned sealed its run.  `HeadsAreExclusive` needs that heads
are the last of their branch (`HeadsAreLast`) and that a checkpoint's sequence
follows its parent's (`Follows`); together `BranchInductive`.  `RunsTyped` adds the
number of checkpoints and branches (`Counted`).  `BranchesAreChains` could fail at a
purge that takes the middle of a branch and leaves its head: `PurgeTakesHead` shows
that it does not, with the highest number among those taken (`LeastNumber`, from the
well-foundedness of `<`), whose successor the closure would have to take too.

**Revisions.**  `OneRevisionAtATime` is not inductive: the next adoption could
leave a gap, or meet a head that is already closed.  `Inductive` says that the
revisions of an assertion are numbered from 1 to its head and written by requests
that expected the one before (`Numbered`), that only the head is open and every
older interval is not empty and ends before later ones begin (`Ordered`), that
one of them covers every instant since the first (`Covered`), and that stored
results and rows agree as long as the assertion exists (`Stored`).  `Remember`
and `Revise` share one lemma per conjunct about `Adopt`, from which they differ
only in what they expect.  `AnswersStand` follows from `Stored` and `Numbered`;
`PastIsSettled` from `Ordered`, because an adoption changes only what is known
from the clock's reading on.  The refinement reads the log off the rows.  For
`PagesJoinUp`, `PagesSound` adds that a position lies within the history for as long
as that exists; `OnePage` computes a page (the newest of an interval are its upper
end, so a page is an interval, supported by `EvidenceStands`), and `PageJoins` that
the intervals of successive pages abut.

**Access.**  `AccessSound` adds to the two parts of the property: a command between
lock and end holds the lock (`AccessLockHeld`), a change under way starts from the
epoch and the membership of now (`ChangesFollow`), an event is the change of its
command (`EventsAreChanges`), nothing is printed early (`ToldAtTheEnd`).  The step
that matters, a commit, adds the event of the next epoch and moves the last one of
its principal; the orphan's commit is the same step.

**Intake.**  `IntakeSound` says of the tables that no two rows share an identity and
that each refers to what made it (`TablesAgree`), of the stored answers that they
come from calls that are done (`AnswersFollow`), and of an answer under way that it
is true (`RepliesAreTrue`).  The transaction is taken apart into its tables; purges
and settling touch no answer (`ObjectsSound`).

**Maintenance.**  `MaintenanceSound` follows the transaction: what it has deleted and
added so far, per phase (`DraftFits`), that a row it added has its episode
(`AddedStay`, the foreign key), and that an episode that is not in its cursor has a
row it did not delete, because it was observed after the schema had the table.  Then
`Rebuilt` is right whatever committed in between.

**Pages.**  `PagesSound` relates the client's cursor to the rows.  What was shown is in
order (`ShownInOrder`), the cursor is the last of it, so that what is still selected
comes after all of it, also when rows of an older time are inserted
(`CursorIsLast`), and a row that was there all along was shown or is still selected
(`NothingIsLost`).  A page is known by ranks: the n-th row is the one that n - 1
selected rows are newer than, and `RanksAreTaken` says that a finite strict order
has exactly one such row for every n; that n - 1 rows are newer is also what makes
the page complete above its last row.  `BetweenPages` is the lemma of every step
that is not a page.

**Context packs.**  Two things could be wrong: the arithmetic of a text that states its
own length, and the bookkeeping of what was left out.  For the first, `Digits` is
shown to be monotone, at most linear, and to grow by one from n to 10 n, from which the least number that
counts itself exists (`OwnDigitsFound`) and three counts reach it from any start below
it (`CountedIsRight`); the code counts four times, so a count that came from a
shorter text is right again.  `LinesAddUp` shows that the sum over the selected
rows exists and goes on row by row; induction is over sets of numbers that contain
0 and are closed upward (`CountUp`), from the well-foundedness of `<`.  For the second,
`StillFits` says that the pack so far has every required row considered, so that the
row for which a recall is refused (`EndsRight`) comes on top of required rows only,
and `LengthsGrow` that more rows are never shorter.

**Expansions.**  The reference speaks of all simple paths, the code of statements.
`GraphSound` joins them.  The walks still to be extended are the last of their hop
(`FrontierIsLast`), what was found is a beginning of the order of all paths
(`FoundAreFirst`) and, unless the answer was cut, exactly the shorter paths and those
that do not go on from the frontier (`FoundIsAll`).  A statement extends the first
walk of the frontier, in the order of the relations; `ExtensionsArePaths` shows that
it finds all paths that go on from it, `NextAreFirst` that they come after all that
was found and before everything else, because a path is ordered as the path without
its last relation (`CutsAreOrdered`) and is known by its start and its relations
(`PathsAreKnownByRelations`: a relation leads from an entity to one other).  None of
this holds once a scope of the answer has lapsed, so `OnItsWay` claims it only as
long as every entity of the answer is still seen, which is what the last read
checks: scopes that lapse are not granted again in a request, so what is seen at the
end was seen by every statement (`SeenBefore`).  That a beginning of a strict order
has the ranks of the reference is `FirstHaveTheirRank`; that there are finitely many
paths, without which "more than these" says nothing, is `AllPathsAreFinite`.

**Service.**  `ProvidersSound` orders a call (`CallsInOrder`), says that an answer
tells whether it was charged (`AnswersAreBilled`), and that the texts there are
have one vector per model (`VectorsAgree`).  `PartsBehave` carries the theorems of
the parts over to the composition.

Only model-checked: liveness (`EveryJobSettles`, `EveryRequestEnds`), which is
out of this prover's reach.  Every other property of a passing run has its theorem.

## Where documentation and code disagree

1. `TenantBarrier_lost`.  `docs/STATUS.md` says that the session lock "is held
   through transaction commit and delivery of the buffered HTTP response" and
   that this "prevents a purge from acknowledging its barrier while an earlier
   response for that tenant is still being sent by the service".  The send loop
   (`api.py` 164-167) does not use the connection; if PostgreSQL ends the session
   after the commit, the lock is free and the loop goes on.  The run shows a
   purge acknowledged while the purged item is still being sent.
2. `Forget_receipt`.  `docs/STATUS.md` says that the session lock "keeps the
   closure, payload purge, run/branch invalidation, and read barrier atomic".
   Row security compares `expires_at` with `statement_timestamp()` (`001` 49):
   when the membership of the purging principal expires between two statements,
   the rest of them match nothing, none checks how many rows it matched, and
   the receipt `active_store_purged` commits with objects still in the tables.
   `Forget_purge` shows what still holds then: nothing refers to a tombstone.

## What is not modelled

Text search, vector distance and their fusion into a ranking (computed inside
PostgreSQL), request and response shapes and their validation, token
verification, checksums and digests (data the properties do not tell apart).
The stored results of checkpoints, effects, deletions and entities, which follow the same
`replay` and `save_result` as those of `Intake` and `Revisions`: in `Runs` and
`Forget` a replay is a request that changes nothing.  A replay after access was
revoked, which row security refuses like any read.  Of the migrations the
statements that only create tables, functions and policies.  Of the providers
their settings, catalog queries and the shapes of their answers; of the hooks
their input, their deadline and their output, which one process handles once and
keeps nowhere; of the clients the reads, the start-up check of versions and the
connection pool.  The other reads (`explain`, `get`, `query`) appear as the content
of `TenantBarrier`'s answers and, over system time, in `Revisions`; they change
nothing.

What the models take for granted of others: PostgreSQL's locks, keys and
snapshots; that identities drawn by `uuid4` are new; that operators stop older
processes before they migrate (`docs/STATUS.md`); that an HTTP provider that
answers with a status below 500 has not charged.

## What would come next

Entities and checkpoints among the stored results of `Intake`.
