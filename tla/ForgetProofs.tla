------------------------------ MODULE ForgetProofs ------------------------------
(***************************************************************************)
(* A purge, for any number of objects, branches and roots: no statement of *)
(* it is refused, nothing that remains refers to what it took, and its     *)
(* receipt is true unless the membership expires.  The argument: the       *)
(* targets are closed under the links, every link is deleted before what   *)
(* it needs, and the statements take effect up to the moment the           *)
(* membership expires and not after it.                                    *)
(***************************************************************************)
EXTENDS Forget, FiniteSetTheorems, TLAPS

USE ForgetAssumption, PurgeAssumption

-------------------------------------------------------------------------------
(* The inductive invariant *)

\* What the tables held before the purge under way, or hold now.
Rows0    == IF tx = None THEN rows ELSE tx.undo.rows
Tombs0   == IF tx = None THEN tombs ELSE tx.undo.tombs
Invalid0 == IF tx = None THEN invalid ELSE tx.undo.invalid
Sealed0  == IF tx = None THEN sealed ELSE tx.undo.sealed

Owning    == {"assertion", "relation"}
Referred  == Owning \cup {"episode", "entity"}
Row       == Table \X (DOMAIN kind) \X (DOMAIN kind)

Typed ==
  /\ TypeOK
  /\ tx # None =>
       /\ tx.targets \subseteq DOMAIN kind
       /\ tx.undo.rows \subseteq Row
       /\ tx.undo.tombs \subseteq DOMAIN kind

\* A row has the kinds of its table, and a link is an edge of the closure.
Fits(r) ==
  /\ r[2] # r[3] => r[1] \in EdgeTables
  /\ r[1] \in {"assertion", "provenance_edge"} => kind[r[2]] \in Owning
  /\ r[1] = "assertion_revision" => r[2] = r[3]
  /\ r[1] = "relation_revision" => kind[r[2]] = "relation"
  /\ r[1] \in {"job_input", "provenance_edge", "entity_evidence"} => kind[r[3]] = "episode"
  /\ r[1] \in {"relation", "relation_revision"} => kind[r[3]] = "entity"
  /\ r[1] = "checkpoint" => kind[r[2]] = "checkpoint" /\ kind[r[3]] = "checkpoint"
  /\ r[1] \in {"checkpoint_reference", "tool_effect_reference"} => kind[r[3]] \in Referred
  /\ r[1] = "job" => kind[r[2]] = "job" /\ kind[r[3]] \in {"job", "assertion"}
  /\ r[1] = "tool_effect" => r[2] = r[3]

\* What nobody purged is whole: every key holds, a relation has its row, a run of
\* a tool its effect.
Whole(R, T) ==
  /\ Immediate(R) /\ Deferred(R)
  /\ \A r \in R : r[1] = "assertion" /\ kind[r[2]] = "relation" => <<"relation", r[2]>> \in Held(R)
  /\ \A x \in DOMAIN kind : kind[x] = "effect" /\ x \notin T => <<"tool_effect", x, x>> \in R

\* Nothing refers to what was purged.
Clean(R, T, I, S) ==
  /\ \A r \in R : Fits(r) /\ r[2] \notin T /\ r[3] \notin T
  /\ \A b \in Branch : head[b] \in T => b \in I
  /\ (\E x \in T : kind[x] = "effect") => S /\ \A x \in DOMAIN kind : <<"checkpoint", x, x>> \notin R

\* The targets take along what refers to them.
Taken ==
  tx # None =>
    /\ \A r \in Rows0 : r[1] \in EdgeTables /\ r[3] \in tx.targets => r[2] \in tx.targets
    /\ \A x, c \in DOMAIN kind :
         <<"tool_effect", x, x>> \in Rows0 /\ x \in tx.targets /\ <<"checkpoint", c, c>> \in Rows0
           => c \in tx.targets
    /\ tx.targets \cap Tombs0 = {}

\* The tables that the first m statements clear.
Done(m) == {Script[k] : k \in 1 .. m}

Left(m) == {r \in tx.undo.rows : ~(r[1] \in Done(m) /\ r[2] \in tx.targets)}

\* m statements found the membership in force, the later ones did nothing.
Effective(m) ==
  /\ rows = Left(m)
  /\ sealed = (tx.undo.sealed \/ (m >= 3 /\ \E x \in tx.targets : <<"tool_effect", x, x>> \in tx.undo.rows))
  /\ invalid = tx.undo.invalid \cup (IF m >= 4 THEN Branches ELSE {})
  /\ tombs = tx.undo.tombs \cup (IF m >= 18 THEN tx.targets ELSE {})

Progress ==
  tx # None => \E m \in 0 .. tx.step - 1 : (permitted => m = tx.step - 1) /\ Effective(m)

Sound ==
  /\ Typed
  /\ Clean(Rows0, Tombs0, Invalid0, Sealed0)
  /\ permitted \/ tx # None => Whole(Rows0, Tombs0)
  /\ permitted => \A t \in receipts : t.targets \subseteq Tombs0
  /\ Taken
  /\ Progress

-------------------------------------------------------------------------------
(* The script *)

\* Its statements, by number.
LEMMA ScriptIs ==
  /\ Len(Script) = 18
  /\ Script[1] = "job_input" /\ Script[2] = "job" /\ Script[3] = "checkpoint_run"
  /\ Script[4] = "checkpoint_branch" /\ Script[5] = "checkpoint_reference"
  /\ Script[6] = "checkpoint" /\ Script[7] = "tool_effect_reference"
  /\ Script[8] = "tool_effect_revision" /\ Script[9] = "tool_effect"
  /\ Script[10] = "provenance_edge" /\ Script[11] = "relation_revision"
  /\ Script[12] = "relation" /\ Script[13] = "assertion_revision"
  /\ Script[14] = "assertion" /\ Script[15] = "entity_evidence"
  /\ Script[16] = "entity" /\ Script[17] = "episode" /\ Script[18] = "object_tombstone"
<1>1. Len(Script) = 18
  BY DEF Script, Deletions
<1>2. /\ Script[1] = "job_input" /\ Script[2] = "job" /\ Script[3] = "checkpoint_run"
      /\ Script[4] = "checkpoint_branch" /\ Script[5] = "checkpoint_reference"
      /\ Script[6] = "checkpoint" /\ Script[7] = "tool_effect_reference"
      /\ Script[8] = "tool_effect_revision" /\ Script[9] = "tool_effect"
  BY DEF Script, Deletions
<1>3. /\ Script[10] = "provenance_edge" /\ Script[11] = "relation_revision"
      /\ Script[12] = "relation" /\ Script[13] = "assertion_revision"
      /\ Script[14] = "assertion" /\ Script[15] = "entity_evidence"
      /\ Script[16] = "entity" /\ Script[17] = "episode" /\ Script[18] = "object_tombstone"
  BY DEF Script, Deletions
<1>. QED
  BY <1>1, <1>2, <1>3

\* The tables that m statements have cleared are the first m.
LEMMA DoneIs ==
  ASSUME NEW m \in 0 .. 18
  PROVE  /\ "job_input" \in Done(m) <=> m >= 1
         /\ "job" \in Done(m) <=> m >= 2
         /\ "checkpoint_reference" \in Done(m) <=> m >= 5
         /\ "checkpoint" \in Done(m) <=> m >= 6
         /\ "tool_effect_reference" \in Done(m) <=> m >= 7
         /\ "tool_effect_revision" \in Done(m) <=> m >= 8
         /\ "tool_effect" \in Done(m) <=> m >= 9
         /\ "provenance_edge" \in Done(m) <=> m >= 10
         /\ "relation_revision" \in Done(m) <=> m >= 11
         /\ "relation" \in Done(m) <=> m >= 12
         /\ "assertion_revision" \in Done(m) <=> m >= 13
         /\ "assertion" \in Done(m) <=> m >= 14
         /\ "entity_evidence" \in Done(m) <=> m >= 15
         /\ "entity" \in Done(m) <=> m >= 16
         /\ "episode" \in Done(m) <=> m >= 17
<1>1. \A t : t \in Done(m) <=> \E k \in 1 .. m : Script[k] = t
  BY DEF Done
<1>2. \A k \in 1 .. 18 :
        \/ k = 1 \/ k = 2 \/ k = 3 \/ k = 4 \/ k = 5 \/ k = 6 \/ k = 7 \/ k = 8 \/ k = 9
        \/ k = 10 \/ k = 11 \/ k = 12 \/ k = 13 \/ k = 14 \/ k = 15 \/ k = 16 \/ k = 17
        \/ k = 18
  OBVIOUS
<1>3. \A k \in 1 .. 18 :
        /\ Script[k] = "job_input" => k = 1
        /\ Script[k] = "job" => k = 2
        /\ Script[k] = "checkpoint_reference" => k = 5
        /\ Script[k] = "checkpoint" => k = 6
        /\ Script[k] = "tool_effect_reference" => k = 7
        /\ Script[k] = "tool_effect_revision" => k = 8
        /\ Script[k] = "tool_effect" => k = 9
        /\ Script[k] = "provenance_edge" => k = 10
        /\ Script[k] = "relation_revision" => k = 11
        /\ Script[k] = "relation" => k = 12
        /\ Script[k] = "assertion_revision" => k = 13
        /\ Script[k] = "assertion" => k = 14
        /\ Script[k] = "entity_evidence" => k = 15
        /\ Script[k] = "entity" => k = 16
        /\ Script[k] = "episode" => k = 17
  BY <1>2, ScriptIs
<1>4. 1 .. m \subseteq 1 .. 18
  OBVIOUS
<1>. QED
  BY <1>1, <1>3, <1>4, ScriptIs

\* The last statement has cleared every table.
LEMMA AllDone == Table \subseteq Done(18)
  BY ScriptIs DEF Table, Done

\* Statement k clears one table.
LEMMA DoneNext ==
  ASSUME NEW k \in 1 .. 18
  PROVE  Done(k) = Done(k - 1) \cup {Script[k]}
<1>1. 1 .. k = (1 .. k - 1) \cup {k}
  OBVIOUS
<1>. QED
  BY <1>1 DEF Done

-------------------------------------------------------------------------------
(* What a purge leaves holds together *)

\* What a row needs is of its own object or of the one it refers to, and is cleared
\* only by statements that have cleared the row.
LEMMA NeedsInOrder ==
  ASSUME NEW m \in 0 .. 18, NEW r \in Row, Fits(r), NEW q \in Needs(r)
  PROVE  /\ q[2] \in {r[2], r[3]}
         /\ q[1] \in Done(m) => r[1] \in Done(m)
<1>1. CASE r[1] = "job_input"
  BY <1>1, DoneIs DEF Needs, Content, Fits
<1>2. CASE r[1] = "job"
  BY <1>2, DoneIs DEF Needs, Content, Fits
<1>3. CASE r[1] = "checkpoint"
  BY <1>3, DoneIs DEF Needs, Content, Fits
<1>4. CASE r[1] = "checkpoint_reference"
  BY <1>4, DoneIs DEF Needs, Content, Fits, Referred, Owning
<1>5. CASE r[1] = "tool_effect_revision"
  BY <1>5, DoneIs DEF Needs
<1>6. CASE r[1] = "tool_effect_reference"
  BY <1>6, DoneIs DEF Needs, Content, Fits, Referred, Owning
<1>7. CASE r[1] = "assertion_revision"
  BY <1>7, DoneIs DEF Needs
<1>8. CASE r[1] = "provenance_edge"
  BY <1>8, DoneIs DEF Needs, Content, Fits, Owning
<1>9. CASE r[1] = "relation"
  BY <1>9, DoneIs DEF Needs, Content, Fits
<1>10. CASE r[1] = "relation_revision"
  BY <1>10, DoneIs DEF Needs, Content, Fits
<1>11. CASE r[1] = "entity_evidence"
  BY <1>11, DoneIs DEF Needs, Content, Fits
<1>12. CASE r[1] \notin {"job_input", "job", "checkpoint", "checkpoint_reference",
                         "tool_effect_revision", "tool_effect_reference",
                         "assertion_revision", "provenance_edge", "relation",
                         "relation_revision", "entity_evidence"}
  BY <1>12 DEF Needs
<1>. QED
  BY <1>1, <1>2, <1>3, <1>4, <1>5, <1>6, <1>7, <1>8, <1>9, <1>10, <1>11, <1>12

\* A row is held by its table and its object.
LEMMA HeldHas ==
  ASSUME NEW R, NEW t, NEW x, NEW y, <<t, x, y>> \in R
  PROVE  <<t, x>> \in Held(R)
<1>1. \A r \in R : <<r[1], r[2]>> \in Held(R)
  BY DEF Held
<1>. QED
  BY <1>1

\* The rows that m statements leave, and the rows of a table of an object among them.
LEMMA LeftHolds ==
  ASSUME tx # None, Typed, Taken, Clean(tx.undo.rows, Tombs0, Invalid0, Sealed0),
         Whole(tx.undo.rows, Tombs0), NEW m \in 0 .. 18
  PROVE  Immediate(Left(m))
<1>. DEFINE R == tx.undo.rows
<1>1. R \subseteq Row /\ \A r \in R : Fits(r) /\ Needs(r) \subseteq Held(R)
  BY DEF Typed, TypeOK, Clean, Whole, Immediate
<1>2. SUFFICES ASSUME NEW r \in Left(m), NEW q \in Needs(r)
               PROVE  q \in Held(Left(m))
  BY DEF Immediate
<1>3. r \in R /\ ~(r[1] \in Done(m) /\ r[2] \in tx.targets)
  BY DEF Left
<1>4. PICK s \in R : q = <<s[1], s[2]>>
  BY <1>1, <1>3 DEF Held
<1>5. q[2] \in {r[2], r[3]} /\ (q[1] \in Done(m) => r[1] \in Done(m))
  BY <1>1, <1>3, NeedsInOrder
<1>6. q[2] = r[3] /\ q[2] \in tx.targets => r[2] \in tx.targets
  BY <1>1, <1>3 DEF Fits, Taken, Rows0
<1>7. ~(s[1] \in Done(m) /\ s[2] \in tx.targets)
  BY <1>3, <1>4, <1>5, <1>6
<1>8. s \in Left(m)
  BY <1>7 DEF Left
<1>. QED
  BY <1>4, <1>8 DEF Held

\* What all the deletions leave is whole without the targets and clean of them.
LEMMA LeftWhole ==
  ASSUME tx # None, Typed, Taken, Clean(tx.undo.rows, Tombs0, Invalid0, Sealed0),
         Whole(tx.undo.rows, Tombs0)
  PROVE  /\ Whole(Left(18), Tombs0 \cup tx.targets)
         /\ \A r \in Left(18) : r[2] \notin tx.targets /\ r[3] \notin tx.targets
<1>. DEFINE R == tx.undo.rows
<1>1. /\ R \subseteq Row
      /\ \A r \in R : Fits(r)
  BY DEF Typed, TypeOK, Clean
<1>2. \A r \in R : r[1] \in Done(18)
  BY <1>1, AllDone DEF Row
<1>3. Left(18) = {r \in R : r[2] \notin tx.targets}
  BY <1>2 DEF Left
<1>4. \A r \in Left(18) : r[2] \notin tx.targets /\ r[3] \notin tx.targets
  BY <1>1, <1>3 DEF Fits, Taken, Rows0
<1>5. Immediate(Left(18))
  BY LeftHolds
<1>6. Deferred(Left(18))
  <2>1. SUFFICES ASSUME NEW r \in Left(18), NEW q \in NeedsAtCommit(r)
                 PROVE  q \in Held(Left(18))
    BY DEF Deferred
  <2>2. PICK s \in R : q = <<s[1], s[2]>>
    BY <1>3, <2>1 DEF Whole, Deferred, Held
  <2>3. q[2] = r[2]
    BY <2>1 DEF NeedsAtCommit
  <2>. QED
    BY <1>3, <2>2, <2>3 DEF Held
<1>7. \A r \in Left(18) : r[1] = "assertion" /\ kind[r[2]] = "relation"
                            => <<"relation", r[2]>> \in Held(Left(18))
  <2>1. SUFFICES ASSUME NEW r \in Left(18), r[1] = "assertion", kind[r[2]] = "relation"
                 PROVE  <<"relation", r[2]>> \in Held(Left(18))
    OBVIOUS
  <2>2. PICK s \in R : <<"relation", r[2]>> = <<s[1], s[2]>>
    BY <1>3, <2>1 DEF Whole, Held
  <2>. QED
    BY <1>3, <2>2 DEF Held
<1>8. \A x \in DOMAIN kind : kind[x] = "effect" /\ x \notin Tombs0 \cup tx.targets
                               => <<"tool_effect", x, x>> \in Left(18)
  BY <1>3 DEF Whole
<1>. QED
  BY <1>4, <1>5, <1>6, <1>7, <1>8 DEF Whole

-------------------------------------------------------------------------------
(* The purge *)

\* The fields of the purge under way.
LEMMA PurgeFields ==
  ASSUME Typed, tx # None
  PROVE  /\ tx \in Purge
         /\ tx.targets \subseteq DOMAIN kind
         /\ tx.step \in 1 .. 19
         /\ tx.undo.rows \subseteq Row /\ tx.undo.tombs \subseteq DOMAIN kind
         /\ tx.undo.invalid \in SUBSET Branch /\ tx.undo.sealed \in BOOLEAN
  BY ScriptIs DEF Typed, TypeOK, Purge

\* What the next statement does to what m have done, while the membership is in
\* force: m + 1 have.
LEMMA DeletesNext ==
  ASSUME Sound, tx # None, tx.step <= 18, permitted
  PROVE  Effective(tx.step - 1) /\ DeleteVisible(tx.step) = Left(tx.step)
<1>. DEFINE k == tx.step
<1>1. Typed /\ k \in 1 .. 18
  BY PurgeFields DEF Sound
<1>2. Effective(k - 1)
  BY DEF Sound, Progress
<1>3. rows = Left(k - 1) /\ tombs = tx.undo.tombs
  BY <1>1, <1>2 DEF Effective
<1>4. \A x \in tx.targets : Visible(x)
  BY <1>3 DEF Sound, Taken, Tombs0, Visible
<1>5. Done(k) = Done(k - 1) \cup {Script[k]}
  BY <1>1, DoneNext
<1>. QED
  BY <1>2, <1>3, <1>4, <1>5 DEF DeleteVisible, Left

\* No key refuses a statement, or the commit of a purge that kept its membership.
LEMMA SoundNeverRefused == Sound => NeverRefused
<1>. SUFFICES ASSUME Sound, tx # None PROVE NeverRefused
  BY DEF NeverRefused
<1>1. /\ Typed /\ Taken /\ Clean(tx.undo.rows, Tombs0, Invalid0, Sealed0)
      /\ Whole(tx.undo.rows, Tombs0) /\ tx.step \in 1 .. 19 /\ Len(Script) = 18
  BY PurgeFields, ScriptIs DEF Sound, Rows0
<1>2. ASSUME tx.step <= 18 PROVE Immediate(DeleteVisible(tx.step))
  <2>1. CASE permitted
    BY <1>1, <1>2, <2>1, DeletesNext, LeftHolds
  <2>2. CASE ~permitted
    <3>1. PICK m \in 0 .. tx.step - 1 : rows = Left(m)
      BY DEF Sound, Progress, Effective
    <3>2. DeleteVisible(tx.step) = Left(m)
      BY <2>2, <3>1 DEF DeleteVisible
    <3>. QED
      BY <1>1, <3>1, <3>2, LeftHolds
  <2>. QED
    BY <2>1, <2>2 DEF Sound, Typed, TypeOK
<1>3. ASSUME tx.step > 18, permitted PROVE Deferred(rows)
  <2>1. tx.step - 1 = 18
    BY <1>1, <1>3
  <2>2. rows = Left(18)
    BY <1>3, <2>1 DEF Sound, Progress, Effective
  <2>. QED
    BY <1>1, <2>2, LeftWhole DEF Whole
<1>. QED
  BY <1>1, <1>2, <1>3 DEF NeverRefused

\* Whole is about rows and kinds.
LEMMA WholeStays ==
  ASSUME Whole(Rows0, Tombs0), kind' = kind, Rows0' = Rows0, Tombs0' = Tombs0
  PROVE  Whole(Rows0, Tombs0)'
<1>1. \A r : Needs(r)' = Needs(r) /\ NeedsAtCommit(r)' = NeedsAtCommit(r)
  BY DEF Needs, NeedsAtCommit, Content
<1>2. Held(Rows0)' = Held(Rows0)
  BY DEF Held
<1>3. Immediate(Rows0)' /\ Deferred(Rows0)'
  BY <1>1, <1>2 DEF Whole, Immediate, Deferred
<1>. QED
  BY <1>2, <1>3 DEF Whole

\* A statement keeps the invariant.
LEMMA StatementSound == Sound /\ Statement => Sound'
<1>. SUFFICES ASSUME Sound, Statement PROVE Sound'
  OBVIOUS
<1>0. PICK k \in 1 .. 18 : k = tx.step
  BY PurgeFields, ScriptIs DEF Statement, Sound
<1>1. /\ tx # None /\ k = tx.step /\ k \in 1 .. 18 /\ tx \in Purge /\ Typed
      /\ UNCHANGED <<kind, head, epoch, receipts, permitted>>
      /\ rows' = DeleteVisible(k) /\ tx' = [tx EXCEPT !.step = k + 1]
  BY <1>0, PurgeFields, ScriptIs DEF Statement, Sound
<1>2. tx' \in Purge /\ tx'.step = k + 1 /\ tx'.targets = tx.targets /\ tx'.undo = tx.undo
  BY <1>1, ScriptIs DEF Purge
<1>3. tx' # None
  BY <1>2
<1>4. rows' \subseteq rows
  BY <1>1 DEF DeleteVisible
<1>5. /\ sealed' = (sealed \/ (k = 3 /\ permitted /\ Runs \cap tx.targets # {}))
      /\ invalid' = invalid \cup (IF k = 4 /\ permitted THEN Branches ELSE {})
      /\ tombs' = tombs \cup (IF k = 18 /\ permitted THEN tx.targets ELSE {})
  <2>1. /\ Script[k] = "checkpoint_run" <=> k = 3
        /\ Script[k] = "checkpoint_branch" <=> k = 4
        /\ Script[k] = "object_tombstone" <=> k = 18
    BY <1>1, ScriptIs
  <2>. QED
    BY <1>1, <2>1 DEF Statement
<1>6. Typed'
  <2>1. Branches \subseteq Branch /\ tx.targets \subseteq DOMAIN kind
    BY <1>1, PurgeFields DEF Branches
  <2>2. TypeOK'
    BY <1>1, <1>2, <1>4, <1>5, <2>1 DEF Typed, TypeOK
  <2>. QED
    BY <1>1, <1>2, <2>2 DEF Typed, Row
<1>7. /\ Rows0' = Rows0 /\ Tombs0' = Tombs0 /\ Invalid0' = Invalid0 /\ Sealed0' = Sealed0
  BY <1>1, <1>2, <1>3 DEF Rows0, Tombs0, Invalid0, Sealed0
<1>8. Clean(Rows0, Tombs0, Invalid0, Sealed0)'
  BY <1>1, <1>7 DEF Sound, Clean, Fits
<1>9. Whole(Rows0, Tombs0)'
  BY <1>1, <1>7, WholeStays DEF Sound
<1>10. Taken' /\ (permitted' => \A t \in receipts' : t.targets \subseteq Tombs0')
  BY <1>1, <1>2, <1>7 DEF Sound, Taken
<1>11. \A m \in 0 .. 18 : Left(m)' = Left(m)
  BY <1>2 DEF Left, Done
<1>12. Branches' = Branches
  BY <1>1, <1>2 DEF Branches
<1>13. Progress'
  <2>1. CASE permitted
    <3>1. Effective(k - 1) /\ DeleteVisible(k) = Left(k)
      BY <1>1, <2>1, DeletesNext
    <3>2. rows' = Left(k)'
      BY <1>1, <1>11, <3>1
    <3>3. k = 3 => (Runs \cap tx.targets # {} <=>
                      \E x \in tx.targets : <<"tool_effect", x, x>> \in tx.undo.rows)
      <4>1. ASSUME k = 3 PROVE \A x : <<"tool_effect", x, x>> \in rows <=>
                                        <<"tool_effect", x, x>> \in tx.undo.rows
        <5>1. rows = Left(2)
          BY <3>1, <4>1 DEF Effective
        <5>2. "tool_effect" \notin Done(2)
          BY DoneIs
        <5>. QED
          BY <5>1, <5>2 DEF Left
      <4>. QED
        BY <1>1, <4>1, PurgeFields DEF Runs
    <3>4. sealed' = (tx'.undo.sealed \/ (k >= 3 /\ \E x \in tx'.targets :
                                           <<"tool_effect", x, x>> \in tx'.undo.rows))
      <4>. DEFINE Lost == \E x \in tx.targets : <<"tool_effect", x, x>> \in tx.undo.rows
      <4>1. sealed = (tx.undo.sealed \/ (k - 1 >= 3 /\ Lost))
        BY <1>1, <3>1 DEF Effective
      <4>2. sealed' = (sealed \/ (k = 3 /\ Lost))
        BY <1>5, <2>1, <3>3
      <4>3. k >= 3 <=> (k - 1 >= 3 \/ k = 3)
        BY <1>1
      <4>4. sealed' = (tx.undo.sealed \/ (k >= 3 /\ Lost))
        <5>. HIDE DEF Lost
        <5>. QED  BY <4>1, <4>2, <4>3
      <4>. QED
        BY <1>2, <4>4
    <3>5. invalid' = tx'.undo.invalid \cup (IF k >= 4 THEN Branches' ELSE {})
      BY <1>1, <1>2, <1>5, <1>12, <2>1, <3>1 DEF Effective
    <3>6. tombs' = tx'.undo.tombs \cup (IF k >= 18 THEN tx'.targets ELSE {})
      BY <1>1, <1>2, <1>5, <2>1, <3>1 DEF Effective
    <3>7. Effective(k)'
      BY <3>2, <3>4, <3>5, <3>6 DEF Effective
    <3>. QED
      BY <1>1, <1>2, <3>7 DEF Progress
  <2>2. CASE ~permitted
    <3>1. PICK m \in 0 .. k - 1 : Effective(m)
      BY <1>1 DEF Sound, Progress
    <3>2. rows' = rows /\ sealed' = sealed /\ invalid' = invalid /\ tombs' = tombs
      <4>1. sealed' = (sealed \/ FALSE)
        BY <1>5, <2>2
      <4>2. sealed \in BOOLEAN
        BY <1>1 DEF Typed, TypeOK
      <4>. QED
        BY <1>1, <1>5, <2>2, <4>1, <4>2 DEF DeleteVisible
    <3>3. Effective(m)'
      BY <1>1, <1>2, <1>11, <1>12, <3>1, <3>2 DEF Effective
    <3>4. m \in 0 .. tx'.step - 1
      BY <1>1, <1>2, <3>1
    <3>. QED
      BY <1>1, <2>2, <3>3, <3>4 DEF Progress
  <2>. QED
    BY <2>1, <2>2, <1>1 DEF Typed, TypeOK
<1>. QED
  BY <1>6, <1>8, <1>9, <1>10, <1>13 DEF Sound

\* The closure of visible roots takes along what refers to it and nothing that an
\* earlier purge took.
LEMMA ClosureCloses ==
  ASSUME Typed, Clean(rows, tombs, invalid, sealed),
         NEW roots \in SUBSET {x \in DOMAIN kind : Visible(x)}
  PROVE  /\ Closure(roots) \subseteq DOMAIN kind
         /\ \A r \in rows : r[1] \in EdgeTables /\ r[3] \in Closure(roots) => r[2] \in Closure(roots)
         /\ \A x, c \in DOMAIN kind :
              <<"tool_effect", x, x>> \in rows /\ x \in Closure(roots)
                /\ <<"checkpoint", c, c>> \in rows => c \in Closure(roots)
         /\ Closure(roots) \cap tombs = {}
<1>. DEFINE Closed(S) == roots \subseteq S /\ \A e \in Edges : e[1] \in S => e[2] \in S
<1>1. rows \subseteq Row
  BY DEF Typed, TypeOK, Row
<1>2. \A x : x \in Closure(roots) <=>
        x \in DOMAIN kind /\ \A S \in SUBSET (DOMAIN kind) : Closed(S) => x \in S
  BY DEF Closure
<1>3. ASSUME NEW e \in Edges, e[2] \in DOMAIN kind, e[1] \in Closure(roots)
      PROVE  e[2] \in Closure(roots)
  BY <1>2, <1>3
<1>4. \A r \in rows : r[2] \in DOMAIN kind /\ r[3] \in DOMAIN kind
  BY <1>1 DEF Row
<1>5. ASSUME NEW r \in rows, r[1] \in EdgeTables, r[3] \in Closure(roots)
      PROVE  r[2] \in Closure(roots)
  <2>1. <<r[3], r[2]>> \in Edges
    BY <1>5 DEF Edges
  <2>. QED
    BY <1>3, <1>4, <1>5, <2>1
<1>6. ASSUME NEW x \in DOMAIN kind, NEW c \in DOMAIN kind, <<"tool_effect", x, x>> \in rows,
             x \in Closure(roots), <<"checkpoint", c, c>> \in rows
      PROVE  c \in Closure(roots)
  <2>1. <<x, c>> \in Edges
    BY <1>6 DEF Edges, Runs, Saved
  <2>. QED
    BY <1>3, <1>6, <2>1
<1>7. Closure(roots) \cap tombs = {}
  <2>. DEFINE S == DOMAIN kind \ tombs
  <2>1. roots \subseteq S
    BY DEF Visible
  <2>2. \A e \in Edges : e[2] \in S
    <3>1. \A c \in Saved : c \in S
      BY DEF Clean, Saved
    <3>2. \A r \in rows : r[2] \in S
      BY <1>4 DEF Clean
    <3>. QED
      BY <3>1, <3>2 DEF Edges
  <2>3. Closed(S) /\ S \in SUBSET (DOMAIN kind)
    BY <2>1, <2>2
  <2>. QED
    BY <1>2, <2>3
<1>. QED
  BY <1>2, <1>5, <1>6, <1>7

\* A purge begins with all its targets there.
LEMMA BeginSound == Sound /\ Begin => Sound'
<1>. SUFFICES ASSUME Sound, Begin PROVE Sound'
  OBVIOUS
<1>1. PICK roots \in SUBSET {x \in DOMAIN kind : Visible(x)} :
        tx' = [targets |-> Closure(roots), step |-> 1,
               undo |-> [rows |-> rows, tombs |-> tombs, invalid |-> invalid,
                         sealed |-> sealed]]
  BY DEF Begin
<1>2. /\ tx = None /\ permitted /\ Typed
      /\ UNCHANGED <<kind, rows, tombs, head, invalid, sealed, epoch, receipts, permitted>>
  BY DEF Begin, Sound, data
<1>3. /\ Clean(rows, tombs, invalid, sealed) /\ Whole(rows, tombs)
      /\ \A t \in receipts : t.targets \subseteq tombs
  BY <1>2 DEF Sound, Rows0, Tombs0, Invalid0, Sealed0
<1>4. /\ tx'.targets = Closure(roots) /\ tx'.step = 1 /\ tx'.undo.rows = rows
      /\ tx'.undo.tombs = tombs /\ tx'.undo.invalid = invalid /\ tx'.undo.sealed = sealed
  BY <1>1
<1>5. DOMAIN kind \subseteq Object
  BY <1>2 DEF Typed, TypeOK, Object
<1>6. tx' \in Purge
  <2>1. Closure(roots) \subseteq Object /\ tombs \subseteq Object
    BY <1>2, <1>3, <1>5, ClosureCloses DEF Typed, TypeOK
  <2>2. rows \subseteq Table \X Object \X Object
    BY <1>2, <1>5 DEF Typed, TypeOK
  <2>3. invalid \in SUBSET Branch /\ sealed \in BOOLEAN
    BY <1>2 DEF Typed, TypeOK
  <2>4. 1 \in 1 .. Len(Script) + 1
    BY ScriptIs
  <2>. QED
    BY <1>1, <2>1, <2>2, <2>3, <2>4 DEF Purge
<1>7. tx' # None
  BY <1>6
<1>8. Typed'
  <2>1. TypeOK'
    BY <1>2, <1>6 DEF Typed, TypeOK
  <2>2. rows \subseteq Row /\ tombs \subseteq DOMAIN kind
    BY <1>2 DEF Typed, TypeOK, Row
  <2>. QED
    BY <1>2, <1>3, <1>4, <2>1, <2>2, ClosureCloses DEF Typed, Row
<1>9. /\ Rows0' = rows /\ Tombs0' = tombs /\ Invalid0' = invalid /\ Sealed0' = sealed
      /\ Rows0 = rows /\ Tombs0 = tombs /\ Invalid0 = invalid /\ Sealed0 = sealed
  BY <1>2, <1>4, <1>7 DEF Rows0, Tombs0, Invalid0, Sealed0
<1>10. Clean(Rows0, Tombs0, Invalid0, Sealed0)'
  BY <1>2, <1>3, <1>9 DEF Clean, Fits
<1>11. Whole(Rows0, Tombs0)'
  BY <1>2, <1>3, <1>9, WholeStays
<1>12. Taken'
  BY <1>2, <1>3, <1>4, <1>9, ClosureCloses DEF Taken
<1>13. Progress'
  <2>1. Done(0) = {}
    BY DEF Done
  <2>2. Left(0)' = rows
    BY <1>4, <2>1 DEF Left, Done
  <2>3. Effective(0)'
    <3>1. ~(0 >= 3) /\ ~(0 >= 4) /\ ~(0 >= 18)
      OBVIOUS
    <3>2. sealed \in BOOLEAN
      BY <1>2 DEF Typed, TypeOK
    <3>3. sealed' = (tx'.undo.sealed \/ (0 >= 3 /\ \E x \in tx'.targets :
                                           <<"tool_effect", x, x>> \in tx'.undo.rows))
      BY <1>2, <1>4, <3>1, <3>2
    <3>. QED
      BY <1>2, <1>4, <2>2, <3>1, <3>3 DEF Effective
  <2>. QED
    BY <1>4, <2>3 DEF Progress
<1>. QED
  BY <1>2, <1>3, <1>8, <1>9, <1>10, <1>11, <1>12, <1>13 DEF Sound

\* A purge that fails leaves what was there before it.
LEMMA RollbackSound == Sound /\ Fail => Sound'
<1>. SUFFICES ASSUME Sound, tx # None, Rollback PROVE Sound'
  BY DEF Fail
<1>1. /\ tx' = None /\ rows' = tx.undo.rows /\ tombs' = tx.undo.tombs
      /\ invalid' = tx.undo.invalid /\ sealed' = tx.undo.sealed
      /\ UNCHANGED <<kind, head, epoch, receipts, permitted>>
  BY DEF Rollback
<1>2. Typed'
  <2>1. TypeOK'
    BY <1>1, PurgeFields DEF Sound, Typed, TypeOK, Row
  <2>. QED
    BY <1>1, <2>1 DEF Typed
<1>3. /\ Rows0' = Rows0 /\ Tombs0' = Tombs0 /\ Invalid0' = Invalid0 /\ Sealed0' = Sealed0
  BY <1>1 DEF Rows0, Tombs0, Invalid0, Sealed0
<1>4. Clean(Rows0, Tombs0, Invalid0, Sealed0)'
  BY <1>1, <1>3 DEF Sound, Clean, Fits
<1>5. Whole(Rows0, Tombs0)'
  BY <1>1, <1>3, WholeStays DEF Sound
<1>. QED
  BY <1>1, <1>2, <1>3, <1>4, <1>5 DEF Sound, Taken, Progress

\* A commit.  With all its statements the purge took its targets from everywhere;
\* without the last ones the membership has expired and tombs is as it was.
LEMMA CommitSound == Sound /\ Commit => Sound'
<1>. SUFFICES ASSUME Sound, Commit PROVE Sound'
  OBVIOUS
<1>1. /\ tx # None /\ tx.step = 19 /\ tx' = None /\ epoch' = epoch + 1
      /\ receipts' = receipts \cup {[targets |-> tx.targets, epoch |-> epoch + 1]}
      /\ UNCHANGED <<kind, rows, tombs, head, invalid, sealed, permitted>>
      /\ Typed
  BY ScriptIs DEF Commit, Sound, data
<1>2. PICK m \in 0 .. 18 : (permitted => m = 18) /\ Effective(m)
  BY <1>1 DEF Sound, Progress
<1>3. Typed'
  <2>1. \A r \in receipts' : r.targets \subseteq DOMAIN kind /\ r.epoch \in 1 .. epoch + 1
    BY <1>1, PurgeFields DEF Typed, TypeOK
  <2>2. TypeOK'
    BY <1>1, <2>1 DEF Typed, TypeOK
  <2>. QED
    BY <1>1, <2>2 DEF Typed
<1>4. /\ Rows0' = rows /\ Tombs0' = tombs /\ Invalid0' = invalid /\ Sealed0' = sealed
      /\ Rows0 = tx.undo.rows /\ Tombs0 = tx.undo.tombs
      /\ Invalid0 = tx.undo.invalid /\ Sealed0 = tx.undo.sealed
  BY <1>1 DEF Rows0, Tombs0, Invalid0, Sealed0
<1>5. /\ Clean(tx.undo.rows, tx.undo.tombs, tx.undo.invalid, tx.undo.sealed)
      /\ Whole(tx.undo.rows, tx.undo.tombs) /\ Taken
  BY <1>1, <1>4 DEF Sound
<1>6. rows \subseteq tx.undo.rows
  BY <1>2 DEF Effective, Left
<1>7. ASSUME m = 18
      PROVE  /\ Clean(rows, tombs, invalid, sealed) /\ Whole(rows, tombs)
             /\ permitted => \A t \in receipts' : t.targets \subseteq tombs
  <2>1. /\ rows = Left(18) /\ tombs = tx.undo.tombs \cup tx.targets
        /\ invalid = tx.undo.invalid \cup Branches
    BY <1>2, <1>7 DEF Effective
  <2>2. /\ Whole(rows, tombs)
        /\ \A r \in rows : r[2] \notin tx.targets /\ r[3] \notin tx.targets
    BY <1>1, <1>4, <1>5, <2>1, LeftWhole
  <2>3. ASSUME NEW x \in tombs, kind[x] = "effect"
        PROVE  sealed /\ \A c \in DOMAIN kind : <<"checkpoint", c, c>> \notin rows
    <3>1. CASE x \in tx.undo.tombs
      BY <1>2, <1>5, <1>6, <2>3, <3>1 DEF Effective, Clean
    <3>2. CASE x \in tx.targets /\ x \notin tx.undo.tombs
      <4>1. x \in DOMAIN kind
        BY <1>1, <3>2, PurgeFields
      <4>2. <<"tool_effect", x, x>> \in tx.undo.rows
        BY <1>5, <2>3, <3>2, <4>1 DEF Whole
      <4>3. sealed
        <5>1. \E y \in tx.targets : <<"tool_effect", y, y>> \in tx.undo.rows
          BY <3>2, <4>2
        <5>2. m >= 3
          BY <1>7
        <5>. QED
          BY <1>2, <5>1, <5>2 DEF Effective
      <4>4. \A c \in DOMAIN kind : <<"checkpoint", c, c>> \in tx.undo.rows => c \in tx.targets
        BY <1>1, <1>4, <1>5, <3>2, <4>1, <4>2 DEF Taken
      <4>5. \A c \in DOMAIN kind : <<"checkpoint", c, c>> \notin rows
        BY <1>6, <2>2, <4>4
      <4>. QED
        BY <4>3, <4>5
    <3>. QED
      BY <2>1, <3>1, <3>2
  <2>4. Clean(rows, tombs, invalid, sealed)
    <3>1. \A r \in rows : Fits(r) /\ r[2] \notin tombs /\ r[3] \notin tombs
      BY <1>5, <1>6, <2>1, <2>2 DEF Clean
    <3>2. \A b \in Branch : head[b] \in tombs => b \in invalid
      BY <1>5, <2>1 DEF Clean, Branches
    <3>. QED
      BY <2>3, <3>1, <3>2 DEF Clean
  <2>5. \A t \in receipts' : permitted => t.targets \subseteq tombs
    BY <1>1, <1>4, <2>1 DEF Sound
  <2>. QED
    BY <1>1, <2>2, <2>4, <2>5
<1>8. ASSUME m < 18
      PROVE  Clean(rows, tombs, invalid, sealed) /\ ~permitted
  <2>1. tombs = tx.undo.tombs /\ tx.undo.invalid \subseteq invalid /\ ~permitted
    BY <1>2, <1>8 DEF Effective
  <2>2. tx.undo.sealed => sealed
    BY <1>2 DEF Effective
  <2>. QED
    BY <1>5, <1>6, <2>1, <2>2 DEF Clean
<1>9. /\ Clean(rows, tombs, invalid, sealed)
      /\ permitted => Whole(rows, tombs) /\ \A t \in receipts' : t.targets \subseteq tombs
  BY <1>7, <1>8
<1>10. Clean(Rows0, Tombs0, Invalid0, Sealed0)'
  BY <1>1, <1>4, <1>9 DEF Clean, Fits
<1>11. permitted => Whole(Rows0, Tombs0)'
  <2>1. \A r : Needs(r)' = Needs(r) /\ NeedsAtCommit(r)' = NeedsAtCommit(r)
    BY <1>1 DEF Needs, NeedsAtCommit, Content
  <2>. QED
    BY <1>1, <1>4, <1>9, <2>1 DEF Whole, Immediate, Deferred, Held
<1>. QED
  BY <1>1, <1>3, <1>4, <1>9, <1>10, <1>11 DEF Sound, Taken, Progress

\* The membership expires between any two statements.
LEMMA ExpireSound == Sound /\ Expire => Sound'
<1>. SUFFICES ASSUME Sound, Expire PROVE Sound'
  OBVIOUS
<1>1. /\ permitted /\ permitted' = FALSE
      /\ UNCHANGED <<kind, rows, tombs, head, invalid, sealed, epoch, receipts, tx>>
  BY DEF Expire, data
<1>2. /\ Rows0' = Rows0 /\ Tombs0' = Tombs0 /\ Invalid0' = Invalid0 /\ Sealed0' = Sealed0
  BY <1>1 DEF Rows0, Tombs0, Invalid0, Sealed0
<1>3. Typed' /\ Clean(Rows0, Tombs0, Invalid0, Sealed0)' /\ Taken'
  BY <1>1, <1>2 DEF Sound, Typed, TypeOK, Row, Clean, Fits, Taken
<1>4. Whole(Rows0, Tombs0)'
  BY <1>1, <1>2, WholeStays DEF Sound
<1>5. \A m \in Nat : Effective(m)' <=> Effective(m)
  BY <1>1 DEF Effective, Left, Done, Branches
<1>6. Progress'
  BY <1>1, <1>5 DEF Sound, Progress
<1>. QED
  BY <1>1, <1>3, <1>4, <1>6 DEF Sound

-------------------------------------------------------------------------------
(* Creating objects *)

\* The tables that hold rows.
LEMMA TableHas ==
  {"job_input", "job", "checkpoint_reference", "checkpoint", "tool_effect_reference",
   "tool_effect_revision", "tool_effect", "provenance_edge", "relation_revision", "relation",
   "assertion_revision", "assertion", "entity_evidence", "entity", "episode"} \subseteq Table
<1>1. \A k \in 1 .. 18 : Script[k] \in Table \cup {"checkpoint_run", "checkpoint_branch",
                                                   "object_tombstone"}
  BY ScriptIs DEF Table
<1>2. 1 \in 1 .. 18 /\ 2 \in 1 .. 18 /\ 5 \in 1 .. 18 /\ 6 \in 1 .. 18 /\ 7 \in 1 .. 18
      /\ 8 \in 1 .. 18 /\ 9 \in 1 .. 18 /\ 10 \in 1 .. 18 /\ 11 \in 1 .. 18
      /\ 12 \in 1 .. 18 /\ 13 \in 1 .. 18 /\ 14 \in 1 .. 18 /\ 15 \in 1 .. 18
      /\ 16 \in 1 .. 18 /\ 17 \in 1 .. 18
  OBVIOUS
<1>. QED
  BY <1>1, <1>2, ScriptIs

\* A new object is after the others and has its kind.
LEMMA KindGrows ==
  ASSUME TypeOK, NEW k \in Kinds, Len(kind) < MaxId, kind' = Append(kind, k)
  PROVE  /\ kind' \in Seq(Kinds) /\ Len(kind') <= MaxId
         /\ New \in Object /\ New \notin DOMAIN kind
         /\ DOMAIN kind' = DOMAIN kind \cup {New}
         /\ kind'[New] = k /\ \A x \in DOMAIN kind : kind'[x] = kind[x]
  BY DEF TypeOK, New, Object

\* A row of an insert: of the new object or of one that is there, fitting its table,
\* and of nothing that was purged.
Joins(r) ==
  /\ r \in Table \X (DOMAIN kind') \X (DOMAIN kind')
  /\ Fits(r)'
  /\ r[2] \notin tombs /\ r[3] \notin tombs

\* With the rows R it has what it needs.
Grounded(r, R) ==
  /\ Needs(r)' \subseteq Held(R) /\ NeedsAtCommit(r) \subseteq Held(R)
  /\ r[1] = "assertion" /\ kind'[r[2]] = "relation" => <<"relation", r[2]>> \in Held(R)

\* What an insert has to see to for the invariant.
LEMMA InsertSound ==
  ASSUME Sound, NEW k \in Kinds, NEW new, Insert(k, new),
         head' \in [Branch -> Object \cup {None}], invalid' = invalid,
         \A b \in Branch : head'[b] \in tombs => head'[b] = head[b],
         \A r \in new : Joins(r),
         permitted => \A r \in new : Grounded(r, rows \cup new),
         k = "effect" => <<"tool_effect", New, New>> \in new,
         sealed => \A c : <<"checkpoint", c, c>> \notin new
  PROVE  Sound'
<1>1. /\ tx = None /\ Len(kind) < MaxId /\ kind' = Append(kind, k) /\ rows' = rows \cup new
      /\ UNCHANGED <<tombs, sealed, epoch, receipts, permitted, tx>> /\ TypeOK
  BY DEF Insert, Sound, Typed
<1>2. /\ kind' \in Seq(Kinds) /\ Len(kind') <= MaxId
      /\ New \in Object /\ New \notin DOMAIN kind
      /\ DOMAIN kind' = DOMAIN kind \cup {New}
      /\ kind'[New] = k /\ \A x \in DOMAIN kind : kind'[x] = kind[x]
  BY <1>1, KindGrows
<1>3. /\ Clean(rows, tombs, invalid, sealed)
      /\ permitted => Whole(rows, tombs)
  BY <1>1 DEF Sound, Rows0, Tombs0, Invalid0, Sealed0
<1>4. /\ Rows0' = rows' /\ Tombs0' = tombs /\ Invalid0' = invalid /\ Sealed0' = sealed
      /\ Tombs0 = tombs
  BY <1>1 DEF Rows0, Tombs0, Invalid0, Sealed0
<1>5. \A r \in rows : r[2] \in DOMAIN kind /\ r[3] \in DOMAIN kind /\ r[1] \in Table
  BY <1>1 DEF TypeOK
<1>6. \A r \in rows : Needs(r)' = Needs(r) /\ NeedsAtCommit(r)' = NeedsAtCommit(r)
                      /\ (Fits(r) => Fits(r)')
  <2>1. SUFFICES ASSUME NEW r \in rows
                 PROVE  Needs(r)' = Needs(r) /\ (Fits(r) => Fits(r)')
    BY DEF NeedsAtCommit
  <2>2. kind'[r[2]] = kind[r[2]] /\ kind'[r[3]] = kind[r[3]]
    BY <1>2, <1>5
  <2>3. Content(r[2])' = Content(r[2]) /\ Content(r[3])' = Content(r[3])
    BY <2>2 DEF Content
  <2>. QED
    BY <2>2, <2>3 DEF Needs, Fits
<1>7. Typed'
  <2>1. rows' \subseteq Table \X (DOMAIN kind') \X (DOMAIN kind')
    <3>1. rows \subseteq Table \X (DOMAIN kind) \X (DOMAIN kind)
      BY <1>1 DEF TypeOK
    <3>. QED
      BY <1>1, <1>2, <3>1 DEF Joins
  <2>2. TypeOK'
    BY <1>1, <1>2, <2>1 DEF TypeOK
  <2>. QED
    BY <1>1, <2>2 DEF Typed
<1>8. Clean(Rows0, Tombs0, Invalid0, Sealed0)'
  <2>1. \A r \in rows' : Fits(r)' /\ r[2] \notin tombs /\ r[3] \notin tombs
    BY <1>1, <1>3, <1>6 DEF Clean, Joins
  <2>2. \A b \in Branch : head'[b] \in tombs => b \in invalid
    BY <1>3 DEF Clean
  <2>3. ASSUME NEW x \in tombs, kind'[x] = "effect"
        PROVE  sealed /\ \A c \in DOMAIN kind' : <<"checkpoint", c, c>> \notin rows'
    <3>1. kind[x] = "effect"
      BY <1>1, <1>2, <2>3 DEF TypeOK
    <3>2. sealed /\ \A c \in DOMAIN kind : <<"checkpoint", c, c>> \notin rows
      BY <1>3, <3>1 DEF Clean
    <3>3. <<"checkpoint", New, New>> \notin rows
      BY <1>1, <1>2 DEF TypeOK
    <3>. QED
      BY <1>1, <1>2, <3>2, <3>3
  <2>. QED
    BY <1>1, <1>4, <2>1, <2>2, <2>3 DEF Clean
<1>9. ASSUME permitted PROVE Whole(Rows0, Tombs0)'
  <2>1. Held(rows) \subseteq Held(rows')
    BY <1>1 DEF Held
  <2>2. Immediate(rows) /\ Deferred(rows)
    BY <1>3, <1>9 DEF Whole
  <2>3. \A r \in rows' : Needs(r)' \subseteq Held(rows')
    BY <1>1, <1>6, <1>9, <2>1, <2>2 DEF Immediate, Grounded
  <2>4. \A r \in rows' : NeedsAtCommit(r) \subseteq Held(rows')
    BY <1>1, <1>9, <2>1, <2>2 DEF Deferred, Grounded
  <2>5. \A r \in rows' : r[1] = "assertion" /\ kind'[r[2]] = "relation"
                           => <<"relation", r[2]>> \in Held(rows')
    <3>1. SUFFICES ASSUME NEW r \in rows, r[1] = "assertion", kind'[r[2]] = "relation"
                   PROVE  <<"relation", r[2]>> \in Held(rows)
      BY <1>1, <1>9, <2>1 DEF Grounded
    <3>2. kind[r[2]] = "relation"
      BY <1>2, <1>5, <3>1
    <3>. QED
      BY <1>3, <1>9, <3>1, <3>2 DEF Whole
  <2>6. \A x \in DOMAIN kind' : kind'[x] = "effect" /\ x \notin tombs
                                  => <<"tool_effect", x, x>> \in rows'
    BY <1>1, <1>2, <1>3, <1>9 DEF Whole
  <2>7. Held(Rows0)' = Held(rows')
    BY <1>4 DEF Held
  <2>8. Immediate(Rows0)'
    BY <1>4, <2>3, <2>7 DEF Immediate
  <2>9. Deferred(Rows0)'
    BY <1>4, <2>4, <2>7 DEF Deferred, NeedsAtCommit
  <2>. QED
    BY <1>4, <2>5, <2>6, <2>7, <2>8, <2>9 DEF Whole
<1>. QED
  BY <1>1, <1>4, <1>7, <1>8, <1>9 DEF Sound, Taken, Progress

\* What is there to refer to, outside a purge.
LEMMA Referents ==
  ASSUME Sound, tx = None
  PROVE  /\ TypeOK /\ rows \subseteq Row /\ tombs \subseteq DOMAIN kind
         /\ Clean(rows, tombs, invalid, sealed)
         /\ permitted => Whole(rows, tombs)
         /\ \A e \in Episodes : e \in DOMAIN kind \ tombs /\ kind[e] = "episode"
                                /\ Content(e) \in Held(rows)
         /\ \A x \in Entities : x \in DOMAIN kind \ tombs /\ kind[x] = "entity"
                                /\ Content(x) \in Held(rows)
         /\ \A x \in Assertions : x \in DOMAIN kind \ tombs /\ kind[x] \in Owning
                                  /\ (permitted => Content(x) \in Held(rows))
         /\ \A x \in Saved : x \in DOMAIN kind \ tombs /\ kind[x] = "checkpoint"
                             /\ Content(x) \in Held(rows)
<1>1. /\ TypeOK /\ rows \subseteq Row /\ tombs \subseteq DOMAIN kind
      /\ Clean(rows, tombs, invalid, sealed)
      /\ permitted => Whole(rows, tombs)
  BY DEF Sound, Typed, TypeOK, Row, Rows0, Tombs0, Invalid0, Sealed0
<1>2. \A x, t : <<t, x, x>> \in rows => x \notin tombs /\ <<t, x>> \in Held(rows)
                                        /\ Fits(<<t, x, x>>)
  BY <1>1 DEF Clean, Held
<1>3. \A e \in Episodes : e \in DOMAIN kind \ tombs /\ kind[e] = "episode"
                          /\ Content(e) \in Held(rows)
  BY <1>2 DEF Episodes, Content
<1>4. \A x \in Entities : x \in DOMAIN kind \ tombs /\ kind[x] = "entity"
                          /\ Content(x) \in Held(rows)
  BY <1>2 DEF Entities, Content
<1>5. \A x \in Assertions : x \in DOMAIN kind \ tombs /\ kind[x] \in Owning
                            /\ (permitted => Content(x) \in Held(rows))
  <2>1. SUFFICES ASSUME NEW x \in Assertions
                 PROVE  x \in DOMAIN kind \ tombs /\ kind[x] \in Owning
                        /\ (permitted => Content(x) \in Held(rows))
    OBVIOUS
  <2>2. x \in DOMAIN kind /\ <<"assertion", x, x>> \in rows
    BY DEF Assertions
  <2>3. x \notin tombs /\ kind[x] \in Owning
    BY <1>2, <2>2 DEF Fits
  <2>4. NeedsAtCommit(<<"assertion", x, x>>) = {<<"assertion_revision", x>>}
    BY DEF NeedsAtCommit
  <2>5. permitted => <<"assertion_revision", x>> \in Held(rows)
    BY <1>1, <2>2, <2>4 DEF Whole, Deferred
  <2>6. Content(x) = <<"assertion_revision", x>>
    BY <2>3 DEF Content, Owning
  <2>. QED
    BY <2>2, <2>3, <2>5, <2>6
<1>6. \A x \in Saved : x \in DOMAIN kind \ tombs /\ kind[x] = "checkpoint"
                       /\ Content(x) \in Held(rows)
  <2>1. SUFFICES ASSUME NEW x \in Saved
                 PROVE  x \in DOMAIN kind \ tombs /\ kind[x] = "checkpoint"
                        /\ Content(x) \in Held(rows)
    OBVIOUS
  <2>2. x \in DOMAIN kind /\ <<"checkpoint", x, x>> \in rows
    BY DEF Saved
  <2>3. kind[x] = "checkpoint"
    <3>1. Fits(<<"checkpoint", x, x>>)
      BY <1>2, <2>2
    <3>. QED
      BY <3>1 DEF Fits
  <2>. QED
    BY <1>2, <2>2, <2>3 DEF Content
<1>. QED
  BY <1>1, <1>3, <1>4, <1>5, <1>6

\* What checkpoints and effects refer to.
LEMMA ReferableIs ==
  ASSUME Sound, tx = None, NEW x \in Referable
  PROVE  /\ x \in DOMAIN kind \ tombs /\ kind[x] \in Referred
         /\ permitted => Content(x) \in Held(rows)
  BY Referents DEF Referable, Referred, Owning

\* A job that has an input has its row and the episode.
LEMMA InputsOfJobs ==
  ASSUME Sound, tx = None, NEW j \in DOMAIN kind, NEW e \in DOMAIN kind,
         <<"job", j, j>> \in rows, <<"job_input", j, e>> \in rows
  PROVE  /\ kind[j] = "job" /\ j \notin tombs
         /\ kind[e] = "episode" /\ e \notin tombs
         /\ permitted => Content(e) \in Held(rows)
<1>1. Fits(<<"job", j, j>>) /\ Fits(<<"job_input", j, e>>) /\ j \notin tombs /\ e \notin tombs
  BY Referents DEF Clean
<1>2. Content(e) \in Needs(<<"job_input", j, e>>)
  BY DEF Needs
<1>. QED
  BY <1>1, <1>2, Referents DEF Fits, Whole, Immediate

\* The content of what is there stays where it is.
LEMMA ContentStays ==
  ASSUME TypeOK, NEW k \in Kinds, NEW new, Insert(k, new)
  PROVE  /\ New \notin DOMAIN kind /\ New \in Object
         /\ DOMAIN kind' = DOMAIN kind \cup {New} /\ kind'[New] = k
         /\ \A x \in DOMAIN kind : kind'[x] = kind[x] /\ Content(x)' = Content(x)
         /\ tombs \subseteq DOMAIN kind => New \notin tombs
         /\ Held(rows) \subseteq Held(rows \cup new)
<1>1. /\ New \notin DOMAIN kind /\ New \in Object
      /\ DOMAIN kind' = DOMAIN kind \cup {New} /\ kind'[New] = k
      /\ \A x \in DOMAIN kind : kind'[x] = kind[x]
  BY KindGrows DEF Insert
<1>2. \A x \in DOMAIN kind : Content(x)' = Content(x)
  BY <1>1 DEF Content
<1>3. Held(rows) \subseteq Held(rows \cup new)
  BY DEF Held
<1>. QED
  BY <1>1, <1>2, <1>3

\* A fresh assertion on an episode that is there.
LEMMA AssertedJoins ==
  ASSUME Sound, tx = None, NEW k \in {"assertion", "relation"}, NEW new, Insert(k, new),
         NEW n, n = New,
         NEW e \in DOMAIN kind \ tombs, kind[e] = "episode", Asserted(n, e) \subseteq new,
         k = "relation" => \E x : <<"relation", n, x>> \in new
  PROVE  /\ \A r \in Asserted(n, e) : Joins(r)
         /\ Content(e) \in Held(rows) => \A r \in Asserted(n, e) : Grounded(r, rows \cup new)
<1>1. k \in Kinds /\ TypeOK /\ tombs \subseteq DOMAIN kind
  BY Referents DEF Kinds
<1>2. /\ n \notin DOMAIN kind /\ n \notin tombs
      /\ DOMAIN kind' = DOMAIN kind \cup {n} /\ kind'[n] = k
      /\ kind'[e] = kind[e] /\ Content(e)' = Content(e)
      /\ Held(rows) \subseteq Held(rows \cup new)
  BY <1>1, ContentStays
<1>3. /\ <<"assertion", n>> \in Held(rows \cup new)
      /\ <<"assertion_revision", n>> \in Held(rows \cup new)
      /\ k = "relation" => <<"relation", n>> \in Held(rows \cup new)
  <2>1. /\ <<"assertion", n, n>> \in rows \cup new
        /\ <<"assertion_revision", n, n>> \in rows \cup new
    BY DEF Asserted
  <2>2. k = "relation" => \E x : <<"relation", n, x>> \in rows \cup new
    OBVIOUS
  <2>. QED
    BY <2>1, <2>2, HeldHas
<1>4. Content(n)' = <<"assertion_revision", n>>
  BY <1>2 DEF Content
<1>5. Joins(<<"assertion", n, n>>) /\ Joins(<<"assertion_revision", n, n>>)
  BY <1>2, TableHas DEF Joins, Fits, Owning
<1>6. Joins(<<"provenance_edge", n, e>>)
  BY <1>2, TableHas DEF Joins, Fits, Owning, EdgeTables
<1>7. Grounded(<<"assertion", n, n>>, rows \cup new)
  BY <1>2, <1>3 DEF Grounded, Needs, NeedsAtCommit
<1>8. Grounded(<<"assertion_revision", n, n>>, rows \cup new)
  BY <1>2, <1>3 DEF Grounded, Needs, NeedsAtCommit
<1>9. Content(e) \in Held(rows) => Grounded(<<"provenance_edge", n, e>>, rows \cup new)
  BY <1>2, <1>3, <1>4 DEF Grounded, Needs, NeedsAtCommit
<1>. QED
  BY <1>5, <1>6, <1>7, <1>8, <1>9 DEF Asserted

\* An episode.
LEMMA ObserveSound == Sound /\ Observe => Sound'
<1>. SUFFICES ASSUME Sound, Observe PROVE Sound'
  OBVIOUS
<1>1. PICK n : n = New
  OBVIOUS
<1>. DEFINE new == {<<"episode", n, n>>}
<1>2. /\ Insert("episode", new) /\ head' = head /\ invalid' = invalid /\ "episode" \in Kinds
      /\ tx = None /\ TypeOK /\ tombs \subseteq DOMAIN kind
  BY <1>1, Referents DEF Observe, Insert, Kinds
<1>3. n \notin DOMAIN kind /\ DOMAIN kind' = DOMAIN kind \cup {n} /\ n \notin tombs
  BY <1>1, <1>2, ContentStays
<1>4. \A r \in new : Joins(r) /\ Grounded(r, rows \cup new)
  BY <1>3, TableHas DEF Joins, Fits, Grounded, Needs, NeedsAtCommit
<1>5. \A c : <<"checkpoint", c, c>> \notin new
  OBVIOUS
<1>. QED
  BY <1>2, <1>4, <1>5, InsertSound DEF TypeOK

\* An assertion.
LEMMA RememberSound == Sound /\ Remember => Sound'
<1>. SUFFICES ASSUME Sound, Remember PROVE Sound'
  OBVIOUS
<1>1. PICK n : n = New
  OBVIOUS
<1>2. PICK e \in Episodes : Insert("assertion", Asserted(n, e))
  BY <1>1 DEF Remember
<1>3. /\ head' = head /\ invalid' = invalid /\ "assertion" \in Kinds
      /\ tx = None /\ TypeOK
  BY <1>2, Referents DEF Remember, Insert, Kinds
<1>4. e \in DOMAIN kind \ tombs /\ kind[e] = "episode" /\ Content(e) \in Held(rows)
  BY <1>3, Referents
<1>5. \A r \in Asserted(n, e) : Joins(r) /\ Grounded(r, rows \cup Asserted(n, e))
  BY <1>1, <1>2, <1>3, <1>4, AssertedJoins
<1>6. \A c : <<"checkpoint", c, c>> \notin Asserted(n, e)
  BY DEF Asserted
<1>. QED
  BY <1>2, <1>3, <1>5, <1>6, InsertSound DEF TypeOK

\* An entity.
LEMMA CreateEntitySound == Sound /\ CreateEntity => Sound'
<1>. SUFFICES ASSUME Sound, CreateEntity PROVE Sound'
  OBVIOUS
<1>1. PICK n : n = New
  OBVIOUS
<1>2. PICK e \in Episodes : Insert("entity", {<<"entity", n, n>>, <<"entity_evidence", n, e>>})
  BY <1>1 DEF CreateEntity
<1>. DEFINE new == {<<"entity", n, n>>, <<"entity_evidence", n, e>>}
<1>3. /\ head' = head /\ invalid' = invalid /\ "entity" \in Kinds
      /\ tx = None /\ TypeOK /\ tombs \subseteq DOMAIN kind
  BY <1>2, Referents DEF CreateEntity, Insert, Kinds
<1>4. e \in DOMAIN kind \ tombs /\ kind[e] = "episode" /\ Content(e) \in Held(rows)
  BY <1>3, Referents
<1>5. /\ n \notin DOMAIN kind /\ DOMAIN kind' = DOMAIN kind \cup {n} /\ n \notin tombs
      /\ kind'[e] = kind[e] /\ Content(e)' = Content(e)
      /\ Held(rows) \subseteq Held(rows \cup new)
  BY <1>1, <1>2, <1>3, <1>4, ContentStays
<1>6. <<"entity", n>> \in Held(rows \cup new)
  <2>1. <<"entity", n, n>> \in rows \cup new
    OBVIOUS
  <2>. QED
    BY <2>1, HeldHas
<1>7. Joins(<<"entity", n, n>>) /\ Grounded(<<"entity", n, n>>, rows \cup new)
  BY <1>5, TableHas DEF Joins, Fits, Grounded, Needs, NeedsAtCommit
<1>8. Joins(<<"entity_evidence", n, e>>)
  BY <1>4, <1>5, TableHas DEF Joins, Fits, EdgeTables
<1>9. Grounded(<<"entity_evidence", n, e>>, rows \cup new)
  BY <1>4, <1>5, <1>6 DEF Grounded, Needs, NeedsAtCommit
<1>10. \A c : <<"checkpoint", c, c>> \notin new
  OBVIOUS
<1>. QED
  BY <1>2, <1>3, <1>7, <1>8, <1>9, <1>10, InsertSound DEF TypeOK

\* A relation.
LEMMA CreateRelationSound == Sound /\ CreateRelation => Sound'
<1>. SUFFICES ASSUME Sound, CreateRelation PROVE Sound'
  OBVIOUS
<1>1. PICK n : n = New
  OBVIOUS
<1>2. PICK e \in Episodes, source \in Entities, target \in Entities :
        Insert("relation", Asserted(n, e) \cup
               {<<"relation", n, source>>, <<"relation_revision", n, target>>})
  BY <1>1 DEF CreateRelation
<1>. DEFINE new == Asserted(n, e) \cup
                     {<<"relation", n, source>>, <<"relation_revision", n, target>>}
<1>3. /\ head' = head /\ invalid' = invalid /\ "relation" \in Kinds
      /\ tx = None /\ TypeOK /\ tombs \subseteq DOMAIN kind
  BY <1>2, Referents DEF CreateRelation, Insert, Kinds
<1>4. /\ e \in DOMAIN kind \ tombs /\ kind[e] = "episode" /\ Content(e) \in Held(rows)
      /\ \A x \in {source, target} : x \in DOMAIN kind \ tombs /\ kind[x] = "entity"
                                     /\ Content(x) \in Held(rows)
  BY <1>3, Referents
<1>5. /\ n \notin DOMAIN kind /\ DOMAIN kind' = DOMAIN kind \cup {n} /\ n \notin tombs
      /\ kind'[n] = "relation"
      /\ \A x \in {source, target} : kind'[x] = kind[x] /\ Content(x)' = Content(x)
      /\ Held(rows) \subseteq Held(rows \cup new)
  BY <1>1, <1>2, <1>3, <1>4, ContentStays
<1>6. \A r \in Asserted(n, e) : Joins(r) /\ Grounded(r, rows \cup new)
  BY <1>1, <1>2, <1>3, <1>4, AssertedJoins
<1>7. /\ <<"relation", n>> \in Held(rows \cup new)
      /\ <<"assertion", n>> \in Held(rows \cup new)
      /\ <<"assertion_revision", n>> \in Held(rows \cup new)
  <2>1. /\ <<"relation", n, source>> \in rows \cup new
        /\ <<"assertion", n, n>> \in rows \cup new
        /\ <<"assertion_revision", n, n>> \in rows \cup new
    BY DEF Asserted
  <2>. QED
    BY <2>1, HeldHas
<1>8. Joins(<<"relation", n, source>>) /\ Joins(<<"relation_revision", n, target>>)
  BY <1>4, <1>5, TableHas DEF Joins, Fits, EdgeTables
<1>9. Grounded(<<"relation", n, source>>, rows \cup new)
  BY <1>4, <1>5, <1>7 DEF Grounded, Needs, NeedsAtCommit
<1>10. Grounded(<<"relation_revision", n, target>>, rows \cup new)
  <2>1. Content(n)' = <<"assertion_revision", n>>
    BY <1>5 DEF Content
  <2>. QED
    BY <1>4, <1>5, <1>7, <2>1 DEF Grounded, Needs, NeedsAtCommit
<1>11. \A c : <<"checkpoint", c, c>> \notin new
  BY DEF Asserted
<1>. QED
  BY <1>2, <1>3, <1>6, <1>8, <1>9, <1>10, <1>11, InsertSound DEF TypeOK

\* A revision adds links of an assertion that is there.
LEMMA ReviseSound == Sound /\ Revise => Sound'
<1>. SUFFICES ASSUME Sound, Revise PROVE Sound'
  OBVIOUS
<1>1. /\ tx = None
      /\ UNCHANGED <<kind, tombs, head, invalid, sealed, epoch, receipts, permitted, tx>>
      /\ TypeOK /\ rows \subseteq Row /\ Clean(rows, tombs, invalid, sealed)
      /\ permitted => Whole(rows, tombs)
  BY Referents DEF Revise
<1>2. PICK a \in Assertions, e \in Episodes :
        \/ kind[a] = "relation" /\ \E target \in Entities :
             rows' = rows \cup {<<"provenance_edge", a, e>>, <<"relation_revision", a, target>>}
        \/ rows' = rows \cup {<<"provenance_edge", a, e>>}
  BY DEF Revise
<1>3. PICK new : /\ rows' = rows \cup new
                 /\ \A r \in new : \/ r = <<"provenance_edge", a, e>>
                                   \/ kind[a] = "relation" /\ \E target \in Entities :
                                        r = <<"relation_revision", a, target>>
  BY <1>2
<1>4. /\ a \in DOMAIN kind \ tombs /\ kind[a] \in Owning
      /\ permitted => Content(a) \in Held(rows)
      /\ e \in DOMAIN kind \ tombs /\ kind[e] = "episode" /\ Content(e) \in Held(rows)
      /\ <<"assertion", a, a>> \in rows
  BY <1>1, Referents DEF Assertions
<1>5. ASSUME NEW r \in new
      PROVE  /\ r \in Row /\ Fits(r) /\ r[2] \notin tombs /\ r[3] \notin tombs
             /\ permitted => Needs(r) \subseteq Held(rows)
             /\ NeedsAtCommit(r) = {} /\ r[1] # "assertion" /\ r[1] # "checkpoint"
  <2>1. CASE r = <<"provenance_edge", a, e>>
    <3>1. r \in Row /\ Fits(r) /\ r[2] \notin tombs /\ r[3] \notin tombs
      BY <1>4, <2>1, TableHas DEF Row, Fits, EdgeTables
    <3>2. permitted => Needs(r) \subseteq Held(rows)
      BY <1>4, <2>1 DEF Needs
    <3>. QED
      BY <2>1, <3>1, <3>2 DEF NeedsAtCommit
  <2>2. ASSUME kind[a] = "relation", NEW target \in Entities,
               r = <<"relation_revision", a, target>>
        PROVE  /\ r \in Row /\ Fits(r) /\ r[2] \notin tombs /\ r[3] \notin tombs
               /\ permitted => Needs(r) \subseteq Held(rows)
               /\ NeedsAtCommit(r) = {} /\ r[1] # "assertion" /\ r[1] # "checkpoint"
    <3>1. target \in DOMAIN kind \ tombs /\ kind[target] = "entity"
          /\ Content(target) \in Held(rows)
      BY <1>1, Referents
    <3>2. r \in Row /\ Fits(r) /\ r[2] \notin tombs /\ r[3] \notin tombs
      BY <1>4, <2>2, <3>1, TableHas DEF Row, Fits, EdgeTables
    <3>3. permitted => <<"relation", a>> \in Held(rows)
      BY <1>1, <1>4, <2>2 DEF Whole
    <3>4. permitted => Needs(r) \subseteq Held(rows)
      BY <1>4, <2>2, <3>1, <3>3 DEF Needs
    <3>. QED
      BY <2>2, <3>2, <3>4 DEF NeedsAtCommit
  <2>. QED
    BY <1>3, <2>1, <2>2
<1>6. /\ Rows0' = rows' /\ Tombs0' = tombs /\ Invalid0' = invalid /\ Sealed0' = sealed
      /\ Tombs0 = tombs
  BY <1>1 DEF Rows0, Tombs0, Invalid0, Sealed0
<1>7. Typed'
  <2>1. rows' \subseteq Row
    BY <1>1, <1>3, <1>5
  <2>2. TypeOK'
    BY <1>1, <2>1 DEF TypeOK, Row
  <2>. QED
    BY <1>1, <2>2 DEF Typed
<1>8. Clean(Rows0, Tombs0, Invalid0, Sealed0)'
  <2>1. \A r \in rows' : Fits(r) /\ r[2] \notin tombs /\ r[3] \notin tombs
    BY <1>1, <1>3, <1>5 DEF Clean
  <2>2. \A c : <<"checkpoint", c, c>> \in rows' => <<"checkpoint", c, c>> \in rows
    BY <1>3, <1>5
  <2>3. \A r : Fits(r)' = Fits(r)
    BY <1>1 DEF Fits
  <2>. QED
    BY <1>1, <1>6, <2>1, <2>2, <2>3 DEF Clean
<1>9. ASSUME permitted PROVE Whole(Rows0, Tombs0)'
  <2>1. Held(rows) \subseteq Held(rows')
    BY <1>3 DEF Held
  <2>2. \A r : Needs(r)' = Needs(r) /\ NeedsAtCommit(r)' = NeedsAtCommit(r)
    BY <1>1 DEF Needs, NeedsAtCommit, Content
  <2>3. Held(Rows0)' = Held(rows')
    BY <1>6 DEF Held
  <2>4. Immediate(rows) /\ Deferred(rows)
    BY <1>1, <1>9 DEF Whole
  <2>5. \A r \in rows' : Needs(r) \subseteq Held(rows')
    BY <1>3, <1>5, <1>9, <2>1, <2>4 DEF Immediate
  <2>6. \A r \in rows' : NeedsAtCommit(r) \subseteq Held(rows')
    BY <1>3, <1>5, <2>1, <2>4 DEF Deferred
  <2>7. \A r \in rows' : r[1] = "assertion" /\ kind[r[2]] = "relation"
                           => <<"relation", r[2]>> \in Held(rows')
    BY <1>1, <1>3, <1>5, <1>9, <2>1 DEF Whole
  <2>8. \A x \in DOMAIN kind : kind[x] = "effect" /\ x \notin tombs
                                 => <<"tool_effect", x, x>> \in rows'
    BY <1>1, <1>3, <1>9 DEF Whole
  <2>. QED
    BY <1>1, <1>6, <2>2, <2>3, <2>5, <2>6, <2>7, <2>8 DEF Whole, Immediate, Deferred
<1>. QED
  BY <1>1, <1>6, <1>7, <1>8, <1>9 DEF Sound, Taken, Progress

\* A job, or the retry of one.
LEMMA EnqueueSound == Sound /\ Enqueue => Sound'
<1>. SUFFICES ASSUME Sound, Enqueue PROVE Sound'
  OBVIOUS
<1>1. PICK n : n = New
  OBVIOUS
<1>2. PICK e \in Episodes :
        \/ Insert("job", {<<"job", n, n>>, <<"job_input", n, e>>})
        \/ \E parent \in DOMAIN kind :
             /\ <<"job", parent, parent>> \in rows
             /\ Insert("job", {<<"job", n, n>>, <<"job_input", n, e>>, <<"job", n, parent>>})
  BY <1>1 DEF Enqueue
<1>3. PICK new :
        /\ Insert("job", new) /\ {<<"job", n, n>>, <<"job_input", n, e>>} \subseteq new
        /\ \A r \in new : r \in {<<"job", n, n>>, <<"job_input", n, e>>} \/
             \E parent \in DOMAIN kind : <<"job", parent, parent>> \in rows
                                         /\ r = <<"job", n, parent>>
  BY <1>2
<1>4. /\ head' = head /\ invalid' = invalid /\ "job" \in Kinds
      /\ tx = None /\ TypeOK /\ tombs \subseteq DOMAIN kind
  BY <1>3, Referents DEF Enqueue, Insert, Kinds
<1>5. e \in DOMAIN kind \ tombs /\ kind[e] = "episode" /\ Content(e) \in Held(rows)
  BY <1>4, Referents
<1>6. /\ n \notin DOMAIN kind /\ DOMAIN kind' = DOMAIN kind \cup {n} /\ n \notin tombs
      /\ kind'[n] = "job" /\ \A x \in DOMAIN kind : kind'[x] = kind[x]
      /\ Content(e)' = Content(e) /\ Held(rows) \subseteq Held(rows \cup new)
  BY <1>1, <1>3, <1>4, <1>5, ContentStays
<1>7. <<"job", n>> \in Held(rows \cup new)
  BY <1>3, HeldHas
<1>8. Joins(<<"job", n, n>>) /\ Grounded(<<"job", n, n>>, rows \cup new)
  BY <1>6, TableHas DEF Joins, Fits, Grounded, Needs, NeedsAtCommit
<1>9. Joins(<<"job_input", n, e>>) /\ Grounded(<<"job_input", n, e>>, rows \cup new)
  <2>1. Joins(<<"job_input", n, e>>)
    BY <1>5, <1>6, TableHas DEF Joins, Fits, EdgeTables
  <2>. QED
    BY <1>5, <1>6, <1>7, <2>1 DEF Grounded, Needs, NeedsAtCommit
<1>10. ASSUME NEW parent \in DOMAIN kind, <<"job", parent, parent>> \in rows
       PROVE  Joins(<<"job", n, parent>>) /\ Grounded(<<"job", n, parent>>, rows \cup new)
  <2>1. Fits(<<"job", parent, parent>>) /\ parent \notin tombs
    BY <1>4, <1>10, Referents DEF Clean
  <2>2. kind[parent] = "job"
    BY <2>1 DEF Fits
  <2>3. kind'[parent] = "job" /\ parent \in DOMAIN kind'
    BY <1>6, <2>2
  <2>4. Joins(<<"job", n, parent>>)
    BY <1>6, <2>1, <2>3, TableHas DEF Joins, Fits, EdgeTables
  <2>. QED
    BY <2>3, <2>4 DEF Grounded, Needs, NeedsAtCommit
<1>11. \A r \in new : Joins(r) /\ Grounded(r, rows \cup new)
  BY <1>3, <1>8, <1>9, <1>10
<1>12. \A c : <<"checkpoint", c, c>> \notin new
  BY <1>3
<1>. QED
  BY <1>3, <1>4, <1>11, <1>12, InsertSound DEF TypeOK

\* The result of a job.
LEMMA PublishSound == Sound /\ Publish => Sound'
<1>. SUFFICES ASSUME Sound, Publish PROVE Sound'
  OBVIOUS
<1>1. PICK n : n = New
  OBVIOUS
<1>2. PICK j \in DOMAIN kind, e \in DOMAIN kind :
        /\ <<"job", j, j>> \in rows /\ <<"job_input", j, e>> \in rows
        /\ Insert("assertion", Asserted(n, e) \cup {<<"job", j, n>>})
  BY <1>1 DEF Publish
<1>. DEFINE new == Asserted(n, e) \cup {<<"job", j, n>>}
<1>3. /\ head' = head /\ invalid' = invalid /\ "assertion" \in Kinds
      /\ tx = None /\ TypeOK /\ tombs \subseteq DOMAIN kind
  BY <1>2, Referents DEF Publish, Insert, Kinds
<1>4. /\ kind[j] = "job" /\ j \notin tombs
      /\ kind[e] = "episode" /\ e \notin tombs
      /\ permitted => Content(e) \in Held(rows)
  BY <1>2, <1>3, InputsOfJobs
<1>5. /\ n \notin DOMAIN kind /\ DOMAIN kind' = DOMAIN kind \cup {n} /\ n \notin tombs
      /\ kind'[n] = "assertion" /\ kind'[j] = kind[j]
  BY <1>1, <1>2, <1>3, ContentStays
<1>6. /\ \A r \in Asserted(n, e) : Joins(r)
      /\ permitted => \A r \in Asserted(n, e) : Grounded(r, rows \cup new)
  BY <1>1, <1>2, <1>3, <1>4, AssertedJoins
<1>7. <<"assertion", n>> \in Held(rows \cup new)
  <2>1. <<"assertion", n, n>> \in rows \cup new
    BY DEF Asserted
  <2>. QED
    BY <2>1, HeldHas
<1>8. Joins(<<"job", j, n>>)
  BY <1>4, <1>5, TableHas DEF Joins, Fits, EdgeTables
<1>9. Grounded(<<"job", j, n>>, rows \cup new)
  BY <1>5, <1>7 DEF Grounded, Needs, NeedsAtCommit
<1>10. \A c : <<"checkpoint", c, c>> \notin new
  BY DEF Asserted
<1>. QED
  BY <1>2, <1>3, <1>6, <1>8, <1>9, <1>10, InsertSound DEF TypeOK

\* A tool effect, which a run that lost one does not get.
LEMMA PlanEffectSound == Sound /\ PlanEffect => Sound'
<1>. SUFFICES ASSUME Sound, PlanEffect PROVE Sound'
  OBVIOUS
<1>1. PICK n : n = New
  OBVIOUS
<1>2. PICK refs \in SUBSET Referable :
        Insert("effect", {<<"tool_effect", n, n>>, <<"tool_effect_revision", n, n>>}
                         \cup {<<"tool_effect_reference", n, x>> : x \in refs})
  BY <1>1 DEF PlanEffect
<1>. DEFINE new == {<<"tool_effect", n, n>>, <<"tool_effect_revision", n, n>>}
                     \cup {<<"tool_effect_reference", n, x>> : x \in refs}
<1>3. /\ head' = head /\ invalid' = invalid /\ "effect" \in Kinds
      /\ tx = None /\ TypeOK /\ tombs \subseteq DOMAIN kind
  BY <1>2, Referents DEF PlanEffect, Insert, Kinds
<1>4. /\ n \notin DOMAIN kind /\ DOMAIN kind' = DOMAIN kind \cup {n} /\ n \notin tombs
      /\ kind'[n] = "effect" /\ Held(rows) \subseteq Held(rows \cup new)
      /\ \A x \in DOMAIN kind : kind'[x] = kind[x] /\ Content(x)' = Content(x)
  BY <1>1, <1>2, <1>3, ContentStays
<1>5. /\ <<"tool_effect", n>> \in Held(rows \cup new)
      /\ <<"tool_effect_revision", n>> \in Held(rows \cup new)
  <2>1. <<"tool_effect", n, n>> \in rows \cup new /\ <<"tool_effect_revision", n, n>> \in rows \cup new
    OBVIOUS
  <2>. QED
    BY <2>1, HeldHas
<1>6. Joins(<<"tool_effect", n, n>>) /\ Joins(<<"tool_effect_revision", n, n>>)
  BY <1>4, TableHas DEF Joins, Fits
<1>7. /\ Grounded(<<"tool_effect", n, n>>, rows \cup new)
      /\ Grounded(<<"tool_effect_revision", n, n>>, rows \cup new)
  BY <1>5 DEF Grounded, Needs, NeedsAtCommit
<1>8. ASSUME NEW x \in refs
      PROVE  /\ Joins(<<"tool_effect_reference", n, x>>)
             /\ permitted => Grounded(<<"tool_effect_reference", n, x>>, rows \cup new)
  <2>1. /\ x \in DOMAIN kind \ tombs /\ kind[x] \in Referred
        /\ permitted => Content(x) \in Held(rows)
    BY <1>3, ReferableIs
  <2>2. Joins(<<"tool_effect_reference", n, x>>)
    BY <1>4, <2>1, TableHas DEF Joins, Fits, EdgeTables
  <2>. QED
    BY <1>4, <1>5, <2>1, <2>2 DEF Grounded, Needs, NeedsAtCommit
<1>9. \A c : <<"checkpoint", c, c>> \notin new
  OBVIOUS
<1>10. \A r \in new : Joins(r) /\ (permitted => Grounded(r, rows \cup new))
  BY <1>6, <1>7, <1>8
<1>. QED
  BY <1>1, <1>2, <1>3, <1>9, <1>10, InsertSound DEF TypeOK

\* A checkpoint of a branch whose new head it is.
LEMMA CheckpointSound ==
  ASSUME Sound, NEW b \in Branch, NEW parents \in SUBSET Saved, Checkpoint(parents),
         head' = [head EXCEPT ![b] = New], invalid' = invalid
  PROVE  Sound'
<1>1. PICK n : n = New
  OBVIOUS
<1>2. PICK refs \in SUBSET Referable :
        Insert("checkpoint", {<<"checkpoint", n, n>>}
                             \cup {<<"checkpoint", n, x>> : x \in parents}
                             \cup {<<"checkpoint_reference", n, x>> : x \in refs})
  BY <1>1 DEF Checkpoint
<1>. DEFINE new == {<<"checkpoint", n, n>>} \cup {<<"checkpoint", n, x>> : x \in parents}
                     \cup {<<"checkpoint_reference", n, x>> : x \in refs}
<1>3. /\ "checkpoint" \in Kinds /\ tx = None /\ TypeOK /\ tombs \subseteq DOMAIN kind
  BY <1>2, Referents DEF Insert, Kinds
<1>4. /\ n \notin DOMAIN kind /\ DOMAIN kind' = DOMAIN kind \cup {n} /\ n \notin tombs
      /\ n \in Object
      /\ kind'[n] = "checkpoint" /\ Held(rows) \subseteq Held(rows \cup new)
      /\ \A x \in DOMAIN kind : kind'[x] = kind[x] /\ Content(x)' = Content(x)
  BY <1>1, <1>2, <1>3, ContentStays
<1>5. <<"checkpoint", n>> \in Held(rows \cup new)
  <2>1. <<"checkpoint", n, n>> \in rows \cup new
    OBVIOUS
  <2>. QED
    BY <2>1, HeldHas
<1>6. Content(n)' = <<"checkpoint", n>>
  BY <1>4 DEF Content
<1>7. Joins(<<"checkpoint", n, n>>) /\ Grounded(<<"checkpoint", n, n>>, rows \cup new)
  BY <1>4, <1>5, <1>6, TableHas DEF Joins, Fits, Grounded, Needs, NeedsAtCommit
<1>8. ASSUME NEW x \in parents
      PROVE  Joins(<<"checkpoint", n, x>>) /\ Grounded(<<"checkpoint", n, x>>, rows \cup new)
  <2>1. x \in DOMAIN kind \ tombs /\ kind[x] = "checkpoint" /\ Content(x) \in Held(rows)
    BY <1>3, Referents
  <2>2. Joins(<<"checkpoint", n, x>>)
    BY <1>4, <2>1, TableHas DEF Joins, Fits, EdgeTables
  <2>. QED
    BY <1>4, <2>1, <2>2 DEF Grounded, Needs, NeedsAtCommit
<1>9. ASSUME NEW x \in refs
      PROVE  /\ Joins(<<"checkpoint_reference", n, x>>)
             /\ permitted => Grounded(<<"checkpoint_reference", n, x>>, rows \cup new)
  <2>1. /\ x \in DOMAIN kind \ tombs /\ kind[x] \in Referred
        /\ permitted => Content(x) \in Held(rows)
    BY <1>3, ReferableIs
  <2>2. Joins(<<"checkpoint_reference", n, x>>)
    BY <1>4, <2>1, TableHas DEF Joins, Fits, EdgeTables
  <2>. QED
    BY <1>4, <1>5, <2>1, <2>2 DEF Grounded, Needs, NeedsAtCommit
<1>10. \A r \in new : Joins(r) /\ (permitted => Grounded(r, rows \cup new))
  BY <1>7, <1>8, <1>9
<1>11. /\ head' \in [Branch -> Object \cup {None}]
       /\ \A c \in Branch : head'[c] \in tombs => head'[c] = head[c]
  BY <1>1, <1>3, <1>4 DEF TypeOK
<1>12. ~sealed
  BY DEF Checkpoint
<1>. QED
  BY <1>2, <1>3, <1>10, <1>11, <1>12, InsertSound

\* The next checkpoint of a branch, or the first of a restored one.
LEMMA CheckpointsSound ==
  ASSUME Sound, NEW b \in Branch, CreateCheckpoint(b) \/ Restore(b)
  PROVE  Sound'
<1>1. CASE CreateCheckpoint(b)
  BY <1>1, CheckpointSound DEF CreateCheckpoint
<1>2. CASE Restore(b)
  <2>1. PICK c \in Saved : Checkpoint({c})
    BY <1>2 DEF Restore
  <2>. QED
    BY <1>2, <2>1, CheckpointSound DEF Restore
<1>. QED
  BY <1>1, <1>2

-------------------------------------------------------------------------------
(* The theorems *)

\* Nothing is there at first.
LEMMA InitSound == Init => Sound
<1>. SUFFICES ASSUME Init PROVE Sound
  OBVIOUS
<1>1. TypeOK
  <2>1. kind \in Seq(Kinds) /\ Len(kind) <= MaxId
    BY DEF Init
  <2>2. head \in [Branch -> Object \cup {None}]
    BY DEF Init
  <2>. QED
    BY <2>1, <2>2 DEF Init, TypeOK
<1>2. Rows0 = {} /\ Tombs0 = {} /\ tx = None /\ DOMAIN kind = {} /\ receipts = {}
  BY DEF Init, Rows0, Tombs0
<1>. QED
  BY <1>1, <1>2
  DEF Sound, Typed, Clean, Whole, Immediate, Deferred, Taken, Progress

\* Every step keeps the invariant.
LEMMA StepSound == Sound /\ [Next]_vars => Sound'
<1>. SUFFICES ASSUME Sound, [Next]_vars PROVE Sound'
  OBVIOUS
<1>1. CASE Observe \/ Remember \/ CreateEntity \/ CreateRelation \/ Revise
  BY <1>1, ObserveSound, RememberSound, CreateEntitySound, CreateRelationSound, ReviseSound
<1>2. CASE Enqueue \/ Publish \/ PlanEffect
  BY <1>2, EnqueueSound, PublishSound, PlanEffectSound
<1>3. CASE \E b \in Branch : CreateCheckpoint(b) \/ Restore(b)
  BY <1>3, CheckpointsSound
<1>4. CASE Begin \/ Statement \/ Commit \/ Fail \/ Expire
  BY <1>4, BeginSound, StatementSound, CommitSound, RollbackSound, ExpireSound
<1>5. CASE UNCHANGED vars
  <2>1. /\ Rows0' = Rows0 /\ Tombs0' = Tombs0 /\ Invalid0' = Invalid0 /\ Sealed0' = Sealed0
        /\ UNCHANGED <<kind, rows, tombs, head, invalid, sealed, epoch, receipts, permitted, tx>>
    BY <1>5 DEF vars, data, Rows0, Tombs0, Invalid0, Sealed0
  <2>2. Typed' /\ Clean(Rows0, Tombs0, Invalid0, Sealed0)' /\ Taken'
    BY <2>1 DEF Sound, Typed, TypeOK, Row, Clean, Fits, Taken
  <2>3. permitted \/ tx # None => Whole(Rows0, Tombs0)'
    BY <2>1, WholeStays DEF Sound
  <2>4. \A m \in Nat : Effective(m)' <=> Effective(m)
    BY <2>1 DEF Effective, Left, Done, Branches
  <2>5. Progress'
    BY <2>1, <2>4 DEF Sound, Progress
  <2>. QED
    BY <2>1, <2>2, <2>3, <2>5 DEF Sound
<1>. QED
  BY <1>1, <1>2, <1>3, <1>4, <1>5 DEF Next

\* The invariant is one.
LEMMA AlwaysSound == Spec => []Sound
  BY InitSound, StepSound, PTL DEF Spec

\* Outside a purge nothing refers to what was purged, and its receipts are true
\* while the membership lasts.
LEMMA SoundOutlives == Sound => NothingOutlives /\ ReceiptsAreTrueUntilExpiry
<1>. SUFFICES ASSUME Sound PROVE NothingOutlives /\ ReceiptsAreTrueUntilExpiry
  OBVIOUS
<1>1. ASSUME tx = None
      PROVE  /\ TypeOK /\ Clean(rows, tombs, invalid, sealed)
             /\ permitted => \A t \in receipts : t.targets \subseteq tombs
  BY <1>1 DEF Sound, Typed, Rows0, Tombs0, Invalid0, Sealed0
<1>2. NothingOutlives
  BY <1>1 DEF NothingOutlives, Clean, Saved
<1>3. ReceiptsAreTrueUntilExpiry
  BY <1>1 DEF ReceiptsAreTrueUntilExpiry, ReceiptsAreTrue, Clean
<1>. QED
  BY <1>2, <1>3

\* The types of the tables (memory.object and what 001 to 006 hang on it).
THEOREM TablesTyped == Spec => []TypeOK
  BY AlwaysSound, PTL DEF Sound, Typed

\* No statement of a purge, and no commit of one that kept its membership, is refused
\* by a foreign key: forget's order suits the keys whatever was stored.
THEOREM PurgeIsNeverRefused == Spec => []NeverRefused
  BY AlwaysSound, SoundNeverRefused, PTL

\* Nothing that remains refers to what was purged, however far from the roots.
THEOREM NothingOutlivesAPurge == Spec => []NothingOutlives
  BY AlwaysSound, SoundOutlives, PTL

\* A receipt of a purge is true, unless the membership of the caller expires.
THEOREM ReceiptsHold == Spec => []ReceiptsAreTrueUntilExpiry
  BY AlwaysSound, SoundOutlives, PTL
=================================================================================
