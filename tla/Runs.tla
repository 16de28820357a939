---------------------------------- MODULE Runs ----------------------------------
(***************************************************************************)
(* One checkpoint run: its branches of checkpoints (checkpoints.py) and    *)
(* the ledger of its external tool effects (effects.py), with the triggers *)
(* of 003_checkpoints.sql and 004_tool_effects.sql that guard them.        *)
(*                                                                         *)
(* Every request is one transaction under the tenant's lock, so each is    *)
(* one action; what clients know may be stale, so expected revisions and   *)
(* expected heads are arbitrary inputs.  A request that is refused, or     *)
(* that replays an idempotency key, changes nothing and has no action.     *)
(* Checkpoints are numbered in the order of their ordinal.                 *)
(***************************************************************************)
EXTENDS Integers, FiniteSets, Sequences

CONSTANTS
  Operation,      \* operation_id, chosen by the client
  Branch,         \* branch_id, chosen by the client
  Harness,        \* harness_id, harness_version and state_schema_version
  None,
  MaxEffects,     \* 100 in the code
  MaxHints,       \* 100 in the code: pending_effects of one checkpoint
  MaxCheckpoints, \* bound on the checkpoints ever saved
  MaxMark         \* bound on event_watermark

ASSUME RunsAssumption ==
  /\ None \notin Harness
  /\ None \notin Nat
  /\ MaxEffects \in Nat
  /\ MaxHints \in Nat
  /\ MaxCheckpoints \in Nat
  /\ MaxMark \in Nat

VARIABLES
  harness,      \* of checkpoint_run; None while the run does not exist
  sealed,       \* checkpoint_run.effects_invalidated
  effects,      \* tool_effect and the status of its current revision
  planned,      \* tool_effect_identity, which no purge deletes
  checkpoints,  \* every checkpoint ever committed
  gone,         \* the purged ones
  head, sequence, invalid,    \* checkpoint_branch
  dispatches    \* history: how often an operation became dispatched

ledgerVars == <<effects, planned, dispatches>>
branchVars == <<checkpoints, head, sequence>>
vars == <<harness, sealed, ledgerVars, branchVars, gone, invalid>>

Status  == {"planned", "dispatched", "unknown", "confirmed", "failed"}
Settled == {"confirmed", "failed"}
NoEffect == [status |-> "none", revision |-> 0]

\* pending_effects: "none" for the operations a checkpoint does not mention.
HintMap == [Operation -> {"none", "planned", "dispatched", "unknown"}]
Hints   == {h \in HintMap : Cardinality({o \in Operation : h[o] # "none"}) <= MaxHints}

Saved   == DOMAIN checkpoints \ gone
Tracked == {o \in Operation : effects[o].status # "none"}
NextNumber   == Len(checkpoints) + 1

LedgerTypes ==
  /\ sealed \in BOOLEAN
  /\ effects \in [Operation -> {NoEffect} \cup [status : Status, revision : 1 .. 4]]
  /\ planned \subseteq Operation
  /\ dispatches \in [Operation -> Nat]

TypeOK ==
  /\ LedgerTypes
  /\ Cardinality(Tracked) <= MaxEffects
  /\ harness \in Harness \cup {None}
  /\ \A c \in DOMAIN checkpoints :
       checkpoints[c] \in [branch : Branch, seq : 1 .. MaxCheckpoints,
                           parent : (1 .. c - 1) \cup {None}, mark : 0 .. MaxMark,
                           hints : Hints]
  /\ gone \subseteq DOMAIN checkpoints
  /\ head \in [Branch -> DOMAIN checkpoints \cup {None}]
  /\ sequence \in [Branch -> 0 .. MaxCheckpoints]
  /\ invalid \subseteq Branch
  /\ \A b \in Branch : (head[b] = None) <=> (sequence[b] = 0)

Init ==
  /\ harness = None
  /\ sealed = FALSE
  /\ effects = [o \in Operation |-> NoEffect]
  /\ planned = {}
  /\ checkpoints = << >>
  /\ gone = {}
  /\ head = [b \in Branch |-> None]
  /\ sequence = [b \in Branch |-> 0]
  /\ invalid = {}
  /\ dispatches = [o \in Operation |-> 0]

-------------------------------------------------------------------------------
(* The ledger of effects *)

RetryUnknown ==                       \* mutant: an unknown effect may be retried
  [planned    |-> {"dispatched", "unknown"},
   dispatched |-> {"unknown", "confirmed", "failed"},
   unknown    |-> {"confirmed", "failed", "dispatched"},
   confirmed  |-> {},
   failed     |-> {}]
ReopenFailed ==                       \* mutant: a receipt may be withdrawn
  [planned    |-> {"dispatched", "unknown"},
   dispatched |-> {"unknown", "confirmed", "failed"},
   unknown    |-> {"confirmed", "failed"},
   confirmed  |-> {},
   failed     |-> {"unknown"}]
TRANSITIONS ==
  [planned    |-> {"dispatched", "unknown"},
   dispatched |-> {"unknown", "confirmed", "failed"},
   unknown    |-> {"confirmed", "failed"},
   confirmed  |-> {},
   failed     |-> {}]

\* ToolEffects.plan of an operation the run has never seen.  (One it has seen
\* answers with the first plan, or refuses, and changes nothing.)
Plan(o) ==
  /\ harness # None
  /\ ~sealed
  /\ o \notin planned
  /\ Cardinality(Tracked) < MaxEffects
  /\ effects' = [effects EXCEPT ![o] = [status |-> "planned", revision |-> 1]]
  /\ planned' = planned \cup {o}
  /\ UNCHANGED <<harness, sealed, dispatches, branchVars, gone, invalid>>

\* ToolEffects.transition: compare and set on the revision, then the table.
Transition(o, expected, new) ==
  /\ o \in Tracked
  /\ expected = effects[o].revision
  /\ new \in TRANSITIONS[effects[o].status]
  /\ new = "dispatched" => ~sealed
  /\ effects' = [effects EXCEPT ![o] = [status |-> new, revision |-> expected + 1]]
  /\ dispatches' = [dispatches EXCEPT ![o] = IF new = "dispatched" THEN @ + 1 ELSE @]
  /\ UNCHANGED <<harness, sealed, planned, branchVars, gone, invalid>>

-------------------------------------------------------------------------------
(* Checkpoints *)

\* Checkpoints.insert and the trigger adopt_checkpoint, which moves the head.
Insert(b, seq, parent, mark, hints) ==
  /\ Len(checkpoints) < MaxCheckpoints
  /\ checkpoints' = Append(checkpoints, [branch |-> b, seq |-> seq, parent |-> parent,
                                         mark |-> mark, hints |-> hints])
  /\ head' = [head EXCEPT ![b] = NextNumber]
  /\ sequence' = [sequence EXCEPT ![b] = seq]

ExpectedAny(b, expected) ==           \* mutant: the head is not compared
  /\ b \notin invalid
  /\ expected # None => expected \in Saved
ExpectedHead(b, expected) ==
  /\ b \notin invalid
  /\ head[b] = expected
  /\ expected # None => expected \in Saved

\* Checkpoints.create.  The first one makes the run and fixes its harness.
Create(b, h, expected, mark, hints) ==
  /\ ~sealed
  /\ harness \in {None, h}
  /\ ExpectedHead(b, expected)
  /\ expected # None => mark >= checkpoints[expected].mark
  /\ Insert(b, sequence[b] + 1, expected, mark, hints)
  /\ harness' = h
  /\ UNCHANGED <<sealed, ledgerVars, gone, invalid>>

UnfencedEffect(e) == e                \* mutant: the fork alone is fenced
FencedEffect(e) ==
  IF e.status = "dispatched" THEN [status |-> "unknown", revision |-> e.revision + 1] ELSE e

FencedHints(hints) ==
  [o \in Operation |-> IF hints[o] = "dispatched" THEN "unknown" ELSE hints[o]]

\* Checkpoints.restore: a new branch forked from a checkpoint, and fence_restore
\* over the effects of the whole run.
Restore(b, h, c) ==
  /\ c \in Saved
  /\ ~sealed
  /\ harness = h
  /\ head[b] = None
  /\ effects' = [o \in Operation |-> FencedEffect(effects[o])]
  /\ Insert(b, 1, c, checkpoints[c].mark, FencedHints(checkpoints[c].hints))
  /\ UNCHANGED <<harness, sealed, planned, dispatches, gone, invalid>>

\* Checkpoints.envelope.
Unresolved(c) ==
  {o \in Operation :
     \/ effects[o].status \in {"dispatched", "unknown"}
     \/ /\ checkpoints[c].hints[o] \in {"dispatched", "unknown"}
        /\ effects[o].status \notin Settled}
Untracked(c) == {o \in Operation : checkpoints[c].hints[o] # "none"} \ Tracked

ResumeAllowed(c) == c \in Saved /\ ~sealed /\ Unresolved(c) \cup Untracked(c) = {}

-------------------------------------------------------------------------------
(* Forget, as one step.  Forget models its closure and its statements. *)

\* A purge takes the forks and successors of a checkpoint, and with an effect
\* every checkpoint of its run.
ClosedOneBranch(os, cs) ==            \* mutant: forks are not followed
  /\ os # {} => cs = Saved
  /\ \A c \in cs, d \in Saved :
       checkpoints[d].parent = c /\ checkpoints[d].branch = checkpoints[c].branch => d \in cs
Closed(os, cs) ==
  /\ os # {} => cs = Saved
  /\ \A c \in cs, d \in Saved : checkpoints[d].parent = c => d \in cs

PurgeUnsealed(os, cs) ==              \* mutant: the run goes on without its effects
  /\ Closed(os, cs)
  /\ effects' = [o \in Operation |-> IF o \in os THEN NoEffect ELSE effects[o]]
  /\ gone' = gone \cup cs
  /\ invalid' = invalid \cup {b \in Branch : head[b] \in cs}
  /\ UNCHANGED <<harness, sealed, planned, dispatches, branchVars>>

Purge(os, cs) ==
  /\ Closed(os, cs)
  /\ effects' = [o \in Operation |-> IF o \in os THEN NoEffect ELSE effects[o]]
  /\ gone' = gone \cup cs
  /\ sealed' = (sealed \/ os # {})
  /\ invalid' = invalid \cup {b \in Branch : head[b] \in cs}
  /\ UNCHANGED <<harness, planned, dispatches, branchVars>>

-------------------------------------------------------------------------------

Next ==
  \/ \E o \in Operation : Plan(o)
  \/ \E o \in Operation, expected \in 1 .. 4, new \in Status : Transition(o, expected, new)
  \/ \E b \in Branch, h \in Harness, expected \in DOMAIN checkpoints \cup {None},
        mark \in 0 .. MaxMark, hints \in Hints : Create(b, h, expected, mark, hints)
  \/ \E b \in Branch, h \in Harness, c \in DOMAIN checkpoints : Restore(b, h, c)
  \/ \E os \in SUBSET Tracked, cs \in SUBSET Saved : Purge(os, cs)

Spec == Init /\ [][Next]_vars

-------------------------------------------------------------------------------
(* Properties *)

\* An operation is handed out for execution at most once in the life of its
\* run, whatever is restored, reconciled, replayed or purged in between: no
\* ledger entry returns to where it could be dispatched again.
OperationOnce == \A o \in Operation : dispatches[o] <= 1

\* A checkpoint that says it may be resumed is right: every operation that was
\* ever handed out has its receipt on the ledger.  Purging the evidence of an
\* unsettled operation must therefore end every checkpoint of the run, those
\* that never mentioned it included.
ResumeIsSafe ==
  \A c \in DOMAIN checkpoints : ResumeAllowed(c) =>
    \A o \in Operation : dispatches[o] > 0 => effects[o].status \in Settled

\* The unpurged part of a branch is a chain: every checkpoint that can be
\* loaded has its parent, and a loadable head accounts for its whole sequence,
\* with watermarks that never run back.
BranchesAreChains ==
  /\ \A c \in Saved : checkpoints[c].parent # None =>
       /\ checkpoints[c].parent \in Saved
       /\ checkpoints[checkpoints[c].parent].mark <= checkpoints[c].mark
  /\ \A b \in Branch \ invalid : head[b] # None =>
       {checkpoints[c].seq : c \in {d \in Saved : checkpoints[d].branch = b}} = 1 .. sequence[b]

\* Two clients that continue the same head cannot both succeed: on one branch a
\* checkpoint has one successor and a sequence number is used once, purged
\* checkpoints included.
HeadsAreExclusive ==
  \A c, d \in DOMAIN checkpoints :
    /\ checkpoints[c].branch = checkpoints[d].branch
    /\ checkpoints[c].parent = checkpoints[d].parent \/ checkpoints[c].seq = checkpoints[d].seq
    => c = d

\* A fork starts with nothing under way: whatever another client had
\* dispatched before the restore is unknown after it, in the ledger and in the
\* fork's own hints.
RestoreFences ==
  [][\A b \in Branch :
       (head[b] = None /\ head'[b] # None /\ checkpoints'[head'[b]].parent # None) =>
         \A o \in Operation : /\ effects'[o].status # "dispatched"
                              /\ checkpoints'[head'[b]].hints[o] # "dispatched"]_vars

\* A receipt stands: a settled operation stays as it is until it is purged,
\* restores included.
ReceiptsStand ==
  [][\A o \in Operation : effects[o].status \in Settled =>
       effects'[o] \in {effects[o], NoEffect}]_vars

\* The ledger accounts for what was handed out: the revision counts the steps
\* of an effect's life, so it stays within the column's check of 1 to 4; an
\* effect that is planned was not handed out and one under way was; one that is
\* missing sealed its run.
LedgerAccounts ==
  \A o \in Operation :
    /\ o \in Tracked => o \in planned
    /\ effects[o].status = "planned" => effects[o].revision = 1 /\ dispatches[o] = 0
    /\ effects[o].status = "dispatched" => effects[o].revision = 2
    /\ effects[o].status = "unknown" => effects[o].revision \in 2 .. 3
    /\ o \notin planned => dispatches[o] = 0
    /\ (o \in planned /\ o \notin Tracked) => sealed

\* The inductive invariant behind the theorems about the ledger.
Inductive == LedgerTypes /\ OperationOnce /\ LedgerAccounts

CheckpointRow ==
  [branch : Branch, seq : Nat, parent : Nat \cup {None}, mark : Nat, hints : HintMap]

BranchTypes ==
  /\ checkpoints \in Seq(CheckpointRow)
  /\ head \in [Branch -> Nat \cup {None}]
  /\ sequence \in [Branch -> Nat]

\* A branch has a head once it has a checkpoint, and the head is its last one.
HeadsAreLast ==
  /\ \A b \in Branch :
       IF head[b] = None THEN sequence[b] = 0
       ELSE /\ head[b] \in DOMAIN checkpoints
            /\ checkpoints[head[b]].branch = b
            /\ checkpoints[head[b]].seq = sequence[b]
  /\ \A c \in DOMAIN checkpoints :
       checkpoints[c].seq \in 1 .. sequence[checkpoints[c].branch]

\* A checkpoint follows its parent on its branch, or starts a branch.
Follows(c) ==
  LET p == checkpoints[c].parent IN
  IF p # None /\ p \in DOMAIN checkpoints /\ checkpoints[p].branch = checkpoints[c].branch
  THEN checkpoints[c].seq = checkpoints[p].seq + 1
  ELSE checkpoints[c].seq = 1

\* The inductive invariant behind the theorem about the branches.
BranchInductive ==
  /\ BranchTypes
  /\ HeadsAreLast
  /\ HeadsAreExclusive
  /\ \A c \in DOMAIN checkpoints : Follows(c) /\ checkpoints[c].parent \in (1 .. c - 1) \cup {None}
===============================================================================
