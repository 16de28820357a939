--------------------------------- MODULE Forget ---------------------------------
(***************************************************************************)
(* The purge of MemoryService.forget, statement by statement, over the     *)
(* memory graph of one scope: what the operations that create objects      *)
(* leave in the tables, the closure a purge computes over them, the order  *)
(* of its statements against the foreign keys, and row security, which is  *)
(* decided anew by every statement (permitted uses statement_timestamp).   *)
(*                                                                         *)
(* A row is <<table, id, ref>>: ref is the object a column or a link row   *)
(* refers to, and the object itself for the row (or revisions) that holds  *)
(* its content.  The tenant's lock (TenantBarrier) keeps every other       *)
(* transaction out while a purge is under way.                             *)
(***************************************************************************)
EXTENDS Integers, FiniteSets, Sequences

CONSTANTS
  MaxId,       \* bound on the objects ever created
  Branch,      \* checkpoint branches of the one run
  None,
  MaxClosure,  \* 10000 in the code
  MaxRoots     \* 100 in the code

ASSUME ForgetAssumption ==
  /\ MaxId \in Nat
  /\ None \notin 1 .. MaxId
  /\ MaxClosure \in Nat
  /\ MaxRoots \in Nat

VARIABLES
  kind,       \* memory.object: 1 .. the last object -> its kind
  rows,       \* the content and link tables
  tombs,      \* memory_ops.object_tombstone
  head,       \* checkpoint_branch.head_id
  invalid,    \* the branches with checkpoint_branch.invalidated
  sealed,     \* checkpoint_run.effects_invalidated
  epoch,      \* tenant.deletion_epoch
  receipts,   \* memory_ops.deletion_request, with the targets
  permitted,  \* the purging principal still has read and delete
  tx          \* the purge under way, or None

data == <<rows, tombs, head, invalid, sealed>>
vars == <<kind, data, epoch, receipts, permitted, tx>>

Object == 1 .. MaxId
Kinds  == {"episode", "assertion", "relation", "entity", "job", "effect", "checkpoint"}

\* The deletions of the purge in order: job rows, runs and checkpoints, effects,
\* then the graph.  A last statement inserts the tombstones.
Deletions ==
  <<"job_input", "job",
    "checkpoint_run", "checkpoint_branch", "checkpoint_reference", "checkpoint",
    "tool_effect_reference", "tool_effect_revision", "tool_effect",
    "provenance_edge", "relation_revision", "relation", "assertion_revision",
    "assertion", "entity_evidence", "entity", "episode">>

ScriptTombstonesFirst ==        \* mutant: row security then hides the targets
  <<"object_tombstone">> \o Deletions
ScriptSealingLate ==            \* mutant: seals by effects that are gone
  SubSeq(Deletions, 1, 2) \o SubSeq(Deletions, 7, 9) \o SubSeq(Deletions, 3, 6)
    \o SubSeq(Deletions, 10, 17) \o <<"object_tombstone">>
Script == Append(Deletions, "object_tombstone")

Table == {Script[k] : k \in 1 .. Len(Script)} \
           {"checkpoint_run", "checkpoint_branch", "object_tombstone"}

\* A purge under way: what it takes, the statement it is at, and what a rollback
\* restores.
Purge ==
  [targets : SUBSET Object,
   step    : 1 .. Len(Script) + 1,
   undo    : [rows : SUBSET (Table \X Object \X Object), tombs : SUBSET Object,
              invalid : SUBSET Branch, sealed : BOOLEAN]]

ASSUME PurgeAssumption == None \notin Purge

TypeOK ==
  /\ kind \in Seq(Kinds) /\ Len(kind) <= MaxId
  /\ rows \subseteq Table \X (DOMAIN kind) \X (DOMAIN kind)
  /\ tombs \subseteq DOMAIN kind
  /\ head \in [Branch -> Object \cup {None}]
  /\ invalid \in SUBSET Branch
  /\ sealed \in BOOLEAN
  /\ epoch \in Nat
  /\ \A r \in receipts : r.targets \subseteq DOMAIN kind /\ r.epoch \in 1 .. epoch
  /\ permitted \in BOOLEAN
  /\ tx \in Purge \cup {None}

Init ==
  /\ kind = << >>
  /\ rows = {}
  /\ tombs = {}
  /\ head = [b \in Branch |-> None]
  /\ invalid = {}
  /\ sealed = FALSE
  /\ epoch = 0
  /\ receipts = {}
  /\ permitted = TRUE
  /\ tx = None

-------------------------------------------------------------------------------
(* Creating objects, each in a transaction of a principal that keeps access *)

\* memory.visible: object_read hides tombstoned objects.
Visible(x) == x \notin tombs
Episodes   == {x \in DOMAIN kind : kind[x] = "episode" /\ <<"episode", x, x>> \in rows}
Entities   == {x \in DOMAIN kind : kind[x] = "entity" /\ <<"entity", x, x>> \in rows}
Assertions == {x \in DOMAIN kind : <<"assertion", x, x>> \in rows}
Runs       == {x \in DOMAIN kind : <<"tool_effect", x, x>> \in rows}
Saved      == {x \in DOMAIN kind : <<"checkpoint", x, x>> \in rows}

\* What checkpoints and effects may refer to (validate_refs).
Referable == Episodes \cup Entities \cup Assertions

New == Len(kind) + 1

\* new_object and the inserts of the same transaction.
Insert(k, new) ==
  /\ tx = None
  /\ Len(kind) < MaxId
  /\ kind' = Append(kind, k)
  /\ rows' = rows \cup new
  /\ UNCHANGED <<tombs, sealed, epoch, receipts, permitted, tx>>

Asserted(x, e) ==
  {<<"assertion", x, x>>, <<"assertion_revision", x, x>>, <<"provenance_edge", x, e>>}

Observe == Insert("episode", {<<"episode", New, New>>}) /\ UNCHANGED <<head, invalid>>

Remember ==
  /\ \E e \in Episodes : Insert("assertion", Asserted(New, e))
  /\ UNCHANGED <<head, invalid>>

CreateEntity ==
  /\ \E e \in Episodes :
       Insert("entity", {<<"entity", New, New>>, <<"entity_evidence", New, e>>})
  /\ UNCHANGED <<head, invalid>>

CreateRelation ==
  /\ \E e \in Episodes, source, target \in Entities :
       Insert("relation", Asserted(New, e) \cup
                          {<<"relation", New, source>>, <<"relation_revision", New, target>>})
  /\ UNCHANGED <<head, invalid>>

\* revise_assertion, and revise_relation with a new target.
Revise ==
  /\ tx = None
  /\ \E a \in Assertions, e \in Episodes :
       IF kind[a] = "relation"
       THEN \E target \in Entities :
              rows' = rows \cup {<<"provenance_edge", a, e>>, <<"relation_revision", a, target>>}
       ELSE rows' = rows \cup {<<"provenance_edge", a, e>>}
  /\ UNCHANGED <<kind, tombs, head, invalid, sealed, epoch, receipts, permitted, tx>>

\* Jobs.enqueue; a retry refers to its failed parent.
Enqueue ==
  /\ \E e \in Episodes :
       \/ Insert("job", {<<"job", New, New>>, <<"job_input", New, e>>})
       \/ \E parent \in DOMAIN kind :
            /\ {<<"job", parent, parent>>, <<"job_input", parent, e>>} \subseteq rows
            /\ \A a \in DOMAIN kind : <<"job", parent, a>> \in rows => kind[a] = "job"
            /\ Insert("job", {<<"job", New, New>>, <<"job_input", New, e>>,
                              <<"job", New, parent>>})
  /\ UNCHANGED <<head, invalid>>

\* Jobs.publish: the assertion, and result_id in the job's row.
Publish ==
  /\ \E j, e \in DOMAIN kind :
       /\ {<<"job", j, j>>, <<"job_input", j, e>>} \subseteq rows
       /\ \A a \in DOMAIN kind : <<"job", j, a>> \in rows => kind[a] = "job"
       /\ Insert("assertion", Asserted(New, e) \cup {<<"job", j, New>>})
  /\ UNCHANGED <<head, invalid>>

\* ToolEffects.plan, in a run that exists.
PlanEffect ==
  /\ ~sealed
  /\ \E b \in Branch : head[b] # None
  /\ \E refs \in SUBSET Referable :
       /\ Cardinality(refs) <= 1
       /\ Insert("effect", {<<"tool_effect", New, New>>, <<"tool_effect_revision", New, New>>}
                           \cup {<<"tool_effect_reference", New, x>> : x \in refs})
  /\ UNCHANGED <<head, invalid>>

Checkpoint(parents) ==
  /\ ~sealed
  /\ \E refs \in SUBSET Referable :
       /\ Cardinality(refs) <= 1
       /\ Insert("checkpoint", {<<"checkpoint", New, New>>}
                               \cup {<<"checkpoint", New, x>> : x \in parents}
                               \cup {<<"checkpoint_reference", New, x>> : x \in refs})

\* Checkpoints.create: the branch's next checkpoint, on its head.
CreateCheckpoint(b) ==
  /\ b \notin invalid
  /\ head[b] \in Saved \cup {None}
  /\ Checkpoint({head[b]} \ {None})
  /\ head' = [head EXCEPT ![b] = New]
  /\ UNCHANGED invalid

\* Checkpoints.restore: a new branch that starts from a saved checkpoint.
Restore(b) ==
  /\ head[b] = None /\ b \notin invalid
  /\ \E c \in Saved : Checkpoint({c})
  /\ head' = [head EXCEPT ![b] = New]
  /\ UNCHANGED invalid

-------------------------------------------------------------------------------
(* The purge *)

\* The tables of the closure's edges, and the join of effects and checkpoints.
EdgesWithoutJobs == {"provenance_edge", "job_input", "entity_evidence", "relation",
                     "relation_revision", "checkpoint_reference", "checkpoint",
                     "tool_effect_reference"}          \* mutant: no job columns
EdgeTables == {"provenance_edge", "job_input", "job", "entity_evidence", "relation",
               "relation_revision", "checkpoint_reference", "checkpoint",
               "tool_effect_reference"}

Edges == {<<r[3], r[2]>> : r \in {q \in rows : q[1] \in EdgeTables}} \cup (Runs \X Saved)

ClosureOfOneStep(roots) == roots \cup {e[2] : e \in {d \in Edges : d[1] \in roots}}
                                              \* mutant: the recursion stops at once
Closure(roots) ==
  {x \in DOMAIN kind : \A S \in SUBSET (DOMAIN kind) :
     (roots \subseteq S /\ \A e \in Edges : e[1] \in S => e[2] \in S) => x \in S}

\* The request, its closure and its limit.  (A preview stops here.)
Begin ==
  /\ tx = None
  /\ permitted
  /\ \E roots \in SUBSET {x \in DOMAIN kind : Visible(x)} :
       /\ Cardinality(roots) \in 1 .. MaxRoots
       /\ Cardinality(Closure(roots)) <= MaxClosure + Cardinality(roots)
       /\ tx' = [targets |-> Closure(roots), step |-> 1,
                 undo |-> [rows |-> rows, tombs |-> tombs, invalid |-> invalid,
                           sealed |-> sealed]]
  /\ UNCHANGED <<kind, data, epoch, receipts, permitted>>

\* The table whose row of the object x the references to x point to.
Content(x) ==
  CASE kind[x] \in {"episode", "entity", "job", "checkpoint"} -> <<kind[x], x>>
    [] kind[x] \in {"assertion", "relation"} -> <<"assertion_revision", x>>
    [] kind[x] = "effect"                    -> <<"tool_effect", x>>

\* The rows that the foreign keys of a row require, the deferred ones apart.
Needs(r) ==
  LET id == r[2]
      ref == r[3]
  IN CASE r[1] = "job_input"              -> {<<"job", id>>, Content(ref)}
       [] r[1] = "job" /\ id # ref /\ kind[ref] # "job" -> {<<"assertion", ref>>}
       [] r[1] = "checkpoint"             -> {Content(ref)}
       [] r[1] = "checkpoint_reference"   -> {<<"checkpoint", id>>, Content(ref)}
       [] r[1] = "tool_effect_revision"   -> {<<"tool_effect", id>>}
       [] r[1] = "tool_effect_reference"  -> {<<"tool_effect", id>>, Content(ref)}
       [] r[1] = "assertion_revision"     -> {<<"assertion", id>>}
       [] r[1] = "provenance_edge"        -> {Content(id), Content(ref)}
       [] r[1] = "relation"               -> {<<"assertion", id>>, Content(ref)}
       [] r[1] = "relation_revision"      -> {<<"relation", id>>, Content(id), Content(ref)}
       [] r[1] = "entity_evidence"        -> {<<"entity", id>>, Content(ref)}
       [] OTHER                           -> {}

\* current_revision of assertions and effects, checked at commit.
NeedsAtCommit(r) ==
  CASE r[1] = "assertion"   -> {<<"assertion_revision", r[2]>>}
    [] r[1] = "tool_effect" -> {<<"tool_effect_revision", r[2]>>}
    [] OTHER                -> {}

Held(R)      == {<<r[1], r[2]>> : r \in R}
Immediate(R) == \A r \in R : Needs(r) \subseteq Held(R)
Deferred(R)  == \A r \in R : NeedsAtCommit(r) \subseteq Held(R)

\* The rows after statement k, which deletes the targets row security lets it see.
DeleteVisible(k) ==
  rows \ {r \in rows : r[1] = Script[k] /\ r[2] \in tx.targets /\ permitted /\ Visible(r[2])}

Branches == {b \in Branch : head[b] \in tx.targets}

Rollback ==
  /\ rows' = tx.undo.rows
  /\ invalid' = tx.undo.invalid
  /\ sealed' = tx.undo.sealed
  /\ tombs' = tx.undo.tombs
  /\ tx' = None
  /\ UNCHANGED <<kind, head, epoch, receipts, permitted>>

\* The next statement, when no foreign key refuses it.
Statement ==
  /\ tx # None
  /\ tx.step <= Len(Script)
  /\ LET k == tx.step
         allowed(change) == IF permitted THEN change ELSE {}
     IN /\ Immediate(DeleteVisible(k))
        /\ rows' = DeleteVisible(k)
        /\ sealed' = (sealed \/ /\ Script[k] = "checkpoint_run"
                                /\ permitted /\ Runs \cap tx.targets # {})
        /\ invalid' = invalid \cup IF Script[k] = "checkpoint_branch"
                                   THEN allowed(Branches) ELSE {}
        /\ tombs' = tombs \cup IF Script[k] = "object_tombstone"
                               THEN allowed(tx.targets) ELSE {}
        /\ tx' = [tx EXCEPT !.step = k + 1]
  /\ UNCHANGED <<kind, head, epoch, receipts, permitted>>

\* The epoch, the receipt and the commit, when no deferred key refuses it.
CommitInOldEpoch ==             \* mutant: the epoch is not advanced
  /\ tx # None
  /\ tx.step = Len(Script) + 1
  /\ Deferred(rows)
  /\ receipts' = receipts \cup {[targets |-> tx.targets, epoch |-> epoch + 1]}
  /\ tx' = None
  /\ UNCHANGED <<kind, data, epoch, permitted>>
Commit ==
  /\ tx # None
  /\ tx.step = Len(Script) + 1
  /\ Deferred(rows)
  /\ epoch' = epoch + 1
  /\ receipts' = receipts \cup {[targets |-> tx.targets, epoch |-> epoch + 1]}
  /\ tx' = None
  /\ UNCHANGED <<kind, data, permitted>>

\* A refused statement, a timeout or the death of the process.
Fail == tx # None /\ Rollback

\* expires_at passes; no transaction, no lock.
Expire ==
  /\ permitted
  /\ permitted' = FALSE
  /\ UNCHANGED <<kind, data, epoch, receipts, tx>>

Next ==
  \/ Observe \/ Remember \/ CreateEntity \/ CreateRelation \/ Revise
  \/ Enqueue \/ Publish \/ PlanEffect
  \/ \E b \in Branch : CreateCheckpoint(b) \/ Restore(b)
  \/ Begin \/ Statement \/ Commit \/ Fail \/ Expire

Spec == Init /\ [][Next]_vars

-------------------------------------------------------------------------------
(* Properties *)

\* No statement of a purge is ever refused by a foreign key: the closure takes
\* every object a purged one is referred to by, and the script deletes children
\* before parents (forget's eleven edges against the keys of 001 to 006).
NeverRefused ==
  tx # None => /\ tx.step <= Len(Script) => Immediate(DeleteVisible(tx.step))
               /\ (tx.step > Len(Script) /\ permitted) => Deferred(rows)

\* A committed receipt "active_store_purged" is true: every object it counted
\* is gone from the tables and has its tombstone (docs/STATUS.md).
ReceiptsAreTrue ==
  tx = None => \A t \in receipts :
    /\ t.targets \subseteq tombs
    /\ \A r \in rows : r[2] \notin t.targets

\* The same for memberships that do not expire, as far as the code keeps it.
ReceiptsAreTrueUntilExpiry == permitted => ReceiptsAreTrue

\* Nothing that remains refers to what was purged, however far the purge was
\* removed from it: no row of an object, no link to it, no checkpoint of a run
\* that lost an effect, no usable branch whose head is gone.
NothingOutlives ==
  tx = None =>
    /\ \A r \in rows : r[2] \notin tombs /\ r[3] \notin tombs
    /\ \A b \in Branch : head[b] \in tombs => b \in invalid
    /\ (\E x \in tombs : kind[x] = "effect") => sealed /\ Saved = {}
===============================================================================
