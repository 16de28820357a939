------------------------------- MODULE RunsProofs -------------------------------
(***************************************************************************)
(* The ledger of tool effects, for any number of operations, branches and  *)
(* checkpoints: an operation is handed out once, receipts stand, and a     *)
(* checkpoint that says it may be resumed is right.  The branches: each is *)
(* a chain whose head continues once, whatever is forked and purged.       *)
(***************************************************************************)
EXTENDS Runs, FiniteSetTheorems, WellFoundedInduction, TLAPS

\* The inductive invariant holds at the start.
LEMMA InitInductive == Init => Inductive
<1> SUFFICES ASSUME Init PROVE Inductive
  OBVIOUS
<1>1. \A o \in Operation : effects[o] = NoEffect /\ dispatches[o] = 0
  BY DEF Init
<1>2. LedgerTypes
  BY DEF Init, LedgerTypes
<1>3. NoEffect.status = "none"
  BY DEF NoEffect
<1>4. LedgerAccounts
  BY <1>1, <1>3 DEF Init, LedgerAccounts, Tracked
<1> QED
  BY <1>1, <1>2, <1>4 DEF Inductive, OperationOnce

\* An effect with a status is a row of the ledger.
LEMMA TrackedEffect ==
  ASSUME LedgerTypes, NEW o \in Tracked
  PROVE  /\ o \in Operation
         /\ effects[o] \in [status : Status, revision : 1 .. 4]
  BY DEF LedgerTypes, Tracked, NoEffect

\* A step that leaves the ledger and the seal alone preserves the invariant.
LEMMA LedgerUnchanged ==
  ASSUME Inductive, UNCHANGED <<sealed, ledgerVars>>
  PROVE  Inductive'
  BY DEF Inductive, LedgerTypes, OperationOnce, LedgerAccounts, Tracked, ledgerVars

\* Every request preserves the inductive invariant.
LEMMA StepInductive == Inductive /\ [Next]_vars => Inductive'
<1> SUFFICES ASSUME Inductive, [Next]_vars PROVE Inductive'
  OBVIOUS
<1>1. ASSUME NEW o \in Operation, Plan(o) PROVE Inductive'
  BY <1>1 DEF Plan, Inductive, LedgerTypes, OperationOnce, LedgerAccounts, Tracked,
     NoEffect, Status
<1>2. ASSUME NEW o \in Operation, NEW expected \in 1 .. 4, NEW new \in Status,
             Transition(o, expected, new)
      PROVE  Inductive'
  <2>1. /\ effects[o] \in [status : Status, revision : 1 .. 4]
        /\ expected = effects[o].revision
        /\ new \in TRANSITIONS[effects[o].status]
        /\ effects' = [effects EXCEPT ![o] = [status |-> new, revision |-> expected + 1]]
        /\ dispatches' = [dispatches EXCEPT ![o] = IF new = "dispatched" THEN @ + 1 ELSE @]
        /\ planned' = planned /\ sealed' = sealed
    BY <1>2, TrackedEffect DEF Transition, Inductive
  <2>2. \/ effects[o].status = "planned" /\ new \in {"dispatched", "unknown"}
        \/ effects[o].status = "dispatched" /\ new \in {"unknown", "confirmed", "failed"}
        \/ effects[o].status = "unknown" /\ new \in {"confirmed", "failed"}
    BY <2>1 DEF TRANSITIONS, Status
  <2>3. expected + 1 \in 1 .. 4 /\ new \in Status
    BY <2>1, <2>2 DEF Inductive, LedgerAccounts
  <2>4. LedgerTypes'
    BY <2>1, <2>3 DEF Inductive, LedgerTypes
  <2>5. OperationOnce'
    BY <2>1, <2>2 DEF Inductive, LedgerTypes, OperationOnce, LedgerAccounts
  <2>6. LedgerAccounts'
    BY <1>2, <2>1, <2>2 DEF Transition, Inductive, LedgerTypes, LedgerAccounts, Tracked,
       NoEffect, Status
  <2> QED
    BY <2>4, <2>5, <2>6 DEF Inductive
<1>3. ASSUME NEW b, NEW h, NEW expected, NEW mark, NEW hints,
             Create(b, h, expected, mark, hints)
      PROVE  Inductive'
  BY <1>3, LedgerUnchanged DEF Create
<1>4. ASSUME NEW b, NEW h, NEW c, Restore(b, h, c) PROVE Inductive'
  <2>1. /\ effects' = [o \in Operation |-> FencedEffect(effects[o])]
        /\ planned' = planned /\ sealed' = sealed /\ dispatches' = dispatches
    BY <1>4 DEF Restore
  <2>2. \A o \in Operation :
          effects[o].status # "dispatched" => effects'[o] = effects[o]
    BY <2>1 DEF FencedEffect
  <2>3. \A o \in Operation :
          effects[o].status = "dispatched" =>
            effects'[o] = [status |-> "unknown", revision |-> 3]
    BY <2>1 DEF FencedEffect, Inductive, LedgerAccounts
  <2>4. LedgerTypes'
    BY <2>1, <2>2, <2>3 DEF Inductive, LedgerTypes, Status
  <2>5. LedgerAccounts'
    BY <2>1, <2>2, <2>3 DEF Inductive, LedgerAccounts, Tracked
  <2> QED
    BY <2>1, <2>4, <2>5 DEF Inductive, OperationOnce
<1>5. ASSUME NEW os \in SUBSET Tracked, NEW cs, Purge(os, cs) PROVE Inductive'
  BY <1>5 DEF Purge, Inductive, LedgerTypes, OperationOnce, LedgerAccounts, Tracked, NoEffect
<1>6. CASE UNCHANGED vars
  BY <1>6, LedgerUnchanged DEF vars
<1> QED
  BY <1>1, <1>2, <1>3, <1>4, <1>5, <1>6 DEF Next

\* The inductive invariant of the ledger.
THEOREM LedgerInductive == Spec => []Inductive
  BY InitInductive, StepInductive, PTL DEF Spec

\* No operation is handed out for execution twice (ToolEffects.transition and
\* the trigger adopt_tool_effect_revision).
THEOREM HandedOutOnce == Spec => []OperationOnce
  <1>1. Inductive => OperationOnce
    BY DEF Inductive
  <1> QED
    BY <1>1, LedgerInductive, PTL

\* resume_allowed in an envelope means that every operation ever handed out has
\* its receipt (Checkpoints.envelope, with the seal that forget leaves).
THEOREM ResumeAllowedIsRight == Spec => []ResumeIsSafe
  <1>1. Inductive => ResumeIsSafe
    <2> SUFFICES ASSUME Inductive, NEW c, ResumeAllowed(c),
                        NEW o \in Operation, dispatches[o] > 0
                 PROVE  effects[o].status \in Settled
      BY DEF ResumeIsSafe
    <2>1. o \in Tracked
      BY DEF ResumeAllowed, Inductive, LedgerAccounts, LedgerTypes
    <2>2. effects[o].status \in Status
      BY <2>1, TrackedEffect DEF Inductive
    <2>3. effects[o].status # "planned"
      BY DEF Inductive, LedgerAccounts, LedgerTypes
    <2>4. effects[o].status \notin {"dispatched", "unknown"}
      BY DEF ResumeAllowed, Unresolved
    <2> QED
      BY <2>2, <2>3, <2>4 DEF Status, Settled
  <1> QED
    BY <1>1, LedgerInductive, PTL

\* A settled operation stays settled, through transitions and restores, until
\* its row is purged.
THEOREM ReceiptsAreFinal == Spec => ReceiptsStand
  <1> DEFINE Stands == \A o \in Operation : effects[o].status \in Settled =>
                         effects'[o] \in {effects[o], NoEffect}
  <1>1. Inductive /\ [Next]_vars => [Stands]_vars
    <2> SUFFICES ASSUME Inductive, Next, NEW o \in Operation,
                        effects[o].status \in Settled
                 PROVE  effects'[o] \in {effects[o], NoEffect}
      OBVIOUS
    <2>1. ASSUME NEW p \in Operation, Plan(p) PROVE effects'[o] = effects[o]
      BY <2>1 DEF Plan, Inductive, LedgerTypes, LedgerAccounts, Tracked, Settled
    <2>2. ASSUME NEW p \in Operation, NEW expected, NEW new, Transition(p, expected, new)
          PROVE  effects'[o] = effects[o]
      BY <2>2 DEF Transition, TRANSITIONS, Inductive, LedgerTypes, Settled
    <2>3. ASSUME NEW b, NEW h, NEW expected, NEW mark, NEW hints,
                 Create(b, h, expected, mark, hints)
          PROVE  effects'[o] = effects[o]
      BY <2>3 DEF Create, ledgerVars
    <2>4. ASSUME NEW b, NEW h, NEW c, Restore(b, h, c) PROVE effects'[o] = effects[o]
      BY <2>4 DEF Restore, FencedEffect, Settled
    <2>5. ASSUME NEW os, NEW cs, Purge(os, cs)
          PROVE  effects'[o] \in {effects[o], NoEffect}
      BY <2>5 DEF Purge
    <2> QED
      BY <2>1, <2>2, <2>3, <2>4, <2>5 DEF Next
  <1> QED
    BY <1>1, LedgerInductive, PTL DEF Spec, ReceiptsStand

-------------------------------------------------------------------------------
(* Branches *)

\* The fork's hints are hints.
LEMMA FencedHintsAreHints ==
  ASSUME NEW hints \in HintMap
  PROVE  FencedHints(hints) \in HintMap
  BY DEF FencedHints, HintMap

\* Sequences.
LEMMA SeqFacts ==
  ASSUME NEW S, NEW s \in Seq(S)
  PROVE  /\ Len(s) \in Nat
         /\ DOMAIN s = 1 .. Len(s)
         /\ \A i \in DOMAIN s : s[i] \in S
  OBVIOUS

\* Appending an element keeps the others in their places.
LEMMA AppendFacts ==
  ASSUME NEW S, NEW s \in Seq(S), NEW x \in S
  PROVE  /\ Append(s, x) \in Seq(S)
         /\ DOMAIN Append(s, x) = 1 .. Len(s) + 1
         /\ Append(s, x)[Len(s) + 1] = x
         /\ \A i \in DOMAIN s : Append(s, x)[i] = s[i]
  OBVIOUS

\* What a row is made of.
LEMMA RowFacts ==
  ASSUME NEW r \in CheckpointRow
  PROVE  /\ r.branch \in Branch
         /\ r.seq \in Nat
         /\ r.parent \in Nat \cup {None}
         /\ r.mark \in Nat
         /\ r.hints \in HintMap
  BY DEF CheckpointRow

\* A new checkpoint that continues the head of its branch, or starts a branch
\* from a checkpoint of another one, preserves the invariant.
LEMMA InsertInductive ==
  ASSUME BranchInductive,
         NEW b \in Branch, NEW seq, NEW parent, NEW mark \in Nat, NEW hints \in HintMap,
         Insert(b, seq, parent, mark, hints),
         seq = sequence[b] + 1,
         \/ parent = head[b]
         \/ head[b] = None /\ parent \in DOMAIN checkpoints
  PROVE  BranchInductive'
<1> DEFINE new == [branch |-> b, seq |-> seq, parent |-> parent,
                   mark |-> mark, hints |-> hints]
<1> USE RunsAssumption
<1>1. /\ Len(checkpoints) \in Nat
      /\ DOMAIN checkpoints = 1 .. Len(checkpoints)
      /\ \A c \in DOMAIN checkpoints : checkpoints[c] \in CheckpointRow
  <2>1. checkpoints \in Seq(CheckpointRow)
    BY DEF BranchInductive, BranchTypes
  <2> QED
    BY <2>1, SeqFacts
<1>0. /\ sequence[b] \in Nat
      /\ head[b] \in Nat \cup {None}
      /\ \A c \in DOMAIN checkpoints :
           /\ checkpoints[c].branch \in Branch
           /\ checkpoints[c].seq \in Nat
           /\ checkpoints[c].parent \in Nat \cup {None}
  BY <1>1, RowFacts DEF BranchInductive, BranchTypes
<1> PICK n \in Nat : n = Len(checkpoints) + 1
  BY <1>1
<1>2. parent \in (1 .. n - 1) \cup {None}
  BY <1>1 DEF BranchInductive, HeadsAreLast
<1>3. new \in CheckpointRow
  BY <1>0, <1>1, <1>2 DEF CheckpointRow
<1>4. /\ checkpoints' = Append(checkpoints, new)
      /\ head' = [head EXCEPT ![b] = n]
      /\ sequence' = [sequence EXCEPT ![b] = seq]
  BY DEF Insert, NextNumber
<1>5. /\ checkpoints' \in Seq(CheckpointRow)
      /\ DOMAIN checkpoints' = 1 .. n
      /\ checkpoints'[n] = new
      /\ \A c \in DOMAIN checkpoints : checkpoints'[c] = checkpoints[c]
  <2>1. checkpoints \in Seq(CheckpointRow)
    BY DEF BranchInductive, BranchTypes
  <2> QED
    BY <1>3, <1>4, <2>1, AppendFacts
<1>6. BranchTypes'
  BY <1>0, <1>1, <1>4, <1>5 DEF BranchInductive, BranchTypes
<1>7. \A c \in DOMAIN checkpoints : checkpoints[c].branch = b => checkpoints[c].seq < seq
  BY <1>0, <1>1 DEF BranchInductive, HeadsAreLast
<1>8. HeadsAreLast'
  BY <1>0, <1>1, <1>4, <1>5 DEF BranchInductive, BranchTypes, HeadsAreLast
<1>9. \A c \in DOMAIN checkpoints' :
        Follows(c)' /\ checkpoints'[c].parent \in (1 .. c - 1) \cup {None}
  <2>1. ASSUME NEW c \in DOMAIN checkpoints
        PROVE  Follows(c)' /\ checkpoints'[c].parent \in (1 .. c - 1) \cup {None}
    <3>1. Follows(c) /\ checkpoints[c].parent \in (1 .. c - 1) \cup {None}
      BY DEF BranchInductive
    <3>2. checkpoints'[c] = checkpoints[c]
      BY <1>5
    <3>3. CASE checkpoints[c].parent = None
      BY <3>1, <3>2, <3>3 DEF Follows
    <3>4. CASE checkpoints[c].parent \in 1 .. c - 1
      <4>1. /\ checkpoints[c].parent \in DOMAIN checkpoints
            /\ checkpoints[c].parent \in DOMAIN checkpoints'
        BY <1>1, <1>5, <3>4
      <4> QED
        BY <1>5, <3>1, <3>2, <4>1 DEF Follows
    <3> QED
      BY <3>1, <3>3, <3>4
  <2>2. head[b] = None => \A c \in DOMAIN checkpoints : checkpoints[c].branch # b
    BY <1>0, <1>1, <1>7 DEF BranchInductive, HeadsAreLast
  <2>3. Follows(n)'
    BY <1>0, <1>1, <1>2, <1>5, <2>2 DEF BranchInductive, HeadsAreLast, Follows
  <2> QED
    BY <1>0, <1>1, <1>2, <1>5, <2>1, <2>3
<1>10. HeadsAreExclusive'
  <2> SUFFICES ASSUME NEW c \in 1 .. n - 1,
                      checkpoints[c].branch = b,
                      checkpoints[c].parent = parent \/ checkpoints[c].seq = seq
               PROVE  FALSE
    <3> SUFFICES ASSUME NEW c \in DOMAIN checkpoints', NEW d \in DOMAIN checkpoints',
                        checkpoints'[c].branch = checkpoints'[d].branch,
                        \/ checkpoints'[c].parent = checkpoints'[d].parent
                        \/ checkpoints'[c].seq = checkpoints'[d].seq,
                        c # d
                 PROVE  FALSE
      BY DEF HeadsAreExclusive
    <3>1. CASE c # n /\ d # n
      <4>1. c \in DOMAIN checkpoints /\ d \in DOMAIN checkpoints
        BY <1>1, <1>5, <3>1
      <4> QED
        BY <1>5, <4>1 DEF BranchInductive, HeadsAreExclusive
    <3>2. CASE d = n
      BY <1>1, <1>5, <3>2
    <3>3. CASE c = n
      BY <1>1, <1>5, <3>3
    <3> QED
      BY <3>1, <3>2, <3>3
  <2>1. head[b] # None
    BY <1>0, <1>1, <1>7 DEF BranchInductive, HeadsAreLast
  <2>2. parent = head[b] /\ parent \in DOMAIN checkpoints /\ checkpoints[parent].branch = b
    BY <2>1 DEF BranchInductive, HeadsAreLast
  <2>3. checkpoints[parent].seq = sequence[b]
    BY <2>1, <2>2 DEF BranchInductive, HeadsAreLast
  <2>4. checkpoints[c].parent = parent
    BY <1>0, <1>1, <1>7
  <2>5. checkpoints[c].seq = sequence[b] + 1
    BY <1>0, <1>1, <2>1, <2>2, <2>3, <2>4 DEF BranchInductive, Follows
  <2> QED
    BY <1>0, <1>1, <1>7, <2>5
<1> QED
  BY <1>6, <1>8, <1>9, <1>10 DEF BranchInductive

\* Every request preserves it.
LEMMA StepBranchInductive == BranchInductive /\ [Next]_vars => BranchInductive'
<1> SUFFICES ASSUME BranchInductive, [Next]_vars PROVE BranchInductive'
  OBVIOUS
<1> USE RunsAssumption
<1>1. ASSUME UNCHANGED branchVars PROVE BranchInductive'
  BY <1>1 DEF branchVars, BranchInductive, BranchTypes, HeadsAreLast, HeadsAreExclusive, Follows
<1>2. ASSUME NEW b \in Branch, NEW h, NEW expected, NEW mark \in 0 .. MaxMark,
             NEW hints \in Hints, Create(b, h, expected, mark, hints)
      PROVE  BranchInductive'
  BY <1>2, InsertInductive DEF Create, ExpectedHead, Hints
<1>3. ASSUME NEW b \in Branch, NEW h, NEW c \in DOMAIN checkpoints, Restore(b, h, c)
      PROVE  BranchInductive'
  <2>1. /\ checkpoints[c].mark \in Nat
        /\ FencedHints(checkpoints[c].hints) \in HintMap
    BY SeqFacts, RowFacts, FencedHintsAreHints DEF BranchInductive, BranchTypes
  <2>2. head[b] = None /\ sequence[b] + 1 = 1
    BY <1>3 DEF Restore, BranchInductive, HeadsAreLast
  <2>3. Insert(b, 1, c, checkpoints[c].mark, FencedHints(checkpoints[c].hints))
    BY <1>3 DEF Restore
  <2> QED
    BY <2>1, <2>2, <2>3, InsertInductive
<1> QED
  BY <1>1, <1>2, <1>3 DEF Next, Plan, Transition, Purge, vars

\* Branches stay as they should.
LEMMA BranchesStayInductive == Spec => []BranchInductive
<1>1. Init => BranchInductive
  BY DEF Init, BranchInductive, BranchTypes, HeadsAreLast, HeadsAreExclusive, Follows
<1> QED
  BY <1>1, StepBranchInductive, PTL DEF Spec

\* Two clients never both continue one head (Checkpoints.create and the trigger
\* adopt_checkpoint), however many checkpoints were purged since.
THEOREM HeadsContinueOnce == Spec => []HeadsAreExclusive
  <1>1. BranchInductive => HeadsAreExclusive
    BY DEF BranchInductive
  <1> QED
    BY <1>1, BranchesStayInductive, PTL

\* Nothing is under way after a restore, in the ledger or in the fork's hints
\* (Checkpoints.restore with ToolEffects.fence_restore).
THEOREM RestoreStartsFenced == Spec => RestoreFences
  <1> DEFINE Fenced == \A b \in Branch :
        (head[b] = None /\ head'[b] # None /\ checkpoints'[head'[b]].parent # None) =>
          \A o \in Operation : /\ effects'[o].status # "dispatched"
                               /\ checkpoints'[head'[b]].hints[o] # "dispatched"
  <1>1. BranchInductive /\ [Next]_vars => [Fenced]_vars
    <2> SUFFICES ASSUME BranchInductive, Next, NEW b \in Branch,
                        head[b] = None, head'[b] # None,
                        checkpoints'[head'[b]].parent # None,
                        NEW o \in Operation
                 PROVE  /\ effects'[o].status # "dispatched"
                        /\ checkpoints'[head'[b]].hints[o] # "dispatched"
      OBVIOUS
    <2>1. checkpoints \in Seq(CheckpointRow) /\ head \in [Branch -> Nat \cup {None}]
      BY DEF BranchInductive, BranchTypes
    <2>2. ASSUME NEW a \in Branch, NEW seq, NEW parent, NEW mark, NEW hints,
                 Insert(a, seq, parent, mark, hints)
          PROVE  a = b /\ checkpoints'[head'[b]].parent = parent
                       /\ checkpoints'[head'[b]].hints = hints
      <3>1. head' = [head EXCEPT ![a] = Len(checkpoints) + 1]
        BY <2>2 DEF Insert, NextNumber
      <3>2. a = b /\ head'[b] = Len(checkpoints) + 1
        BY <2>1, <3>1
      <3>3. checkpoints'[Len(checkpoints) + 1] =
              [branch |-> a, seq |-> seq, parent |-> parent, mark |-> mark, hints |-> hints]
        BY <2>1, <2>2 DEF Insert
      <3> QED
        BY <3>2, <3>3
    <2>3. ASSUME NEW a \in Branch, NEW h, NEW expected, NEW mark, NEW hints,
                 Create(a, h, expected, mark, hints)
          PROVE  FALSE
      BY <2>2, <2>3 DEF Create, ExpectedHead
    <2>4. ASSUME NEW a \in Branch, NEW h, NEW c, Restore(a, h, c)
          PROVE  /\ effects'[o].status # "dispatched"
                 /\ checkpoints'[head'[b]].hints[o] # "dispatched"
      <3>1. checkpoints'[head'[b]].hints = FencedHints(checkpoints[c].hints)
        BY <2>2, <2>4 DEF Restore
      <3>2. effects'[o] = FencedEffect(effects[o])
        BY <2>4 DEF Restore
      <3> QED
        BY <3>1, <3>2 DEF FencedHints, FencedEffect
    <2> QED
      BY <2>3, <2>4 DEF Next, Plan, Transition, Purge, branchVars
  <1> QED
    BY <1>1, BranchesStayInductive, PTL DEF Spec, RestoreFences

-------------------------------------------------------------------------------
(* Types *)

\* The bounds that only counting shows.
Counted ==
  /\ IsFiniteSet(Tracked)
  /\ \A b \in Branch : sequence[b] <= Len(checkpoints)

\* What a step of the ledger must show of the types: it leaves the branches alone.
LEMMA LedgerStepTyped ==
  ASSUME TypeOK, Counted, LedgerTypes', IsFiniteSet(Tracked'),
         Cardinality(Tracked') <= MaxEffects, UNCHANGED <<harness, branchVars>>,
         gone' \subseteq DOMAIN checkpoints, invalid' \subseteq Branch
  PROVE  (TypeOK /\ Counted)'
  BY DEF TypeOK, Counted, branchVars

\* A new checkpoint has the types of one, and its branch is not longer than all.
LEMMA InsertTyped ==
  ASSUME TypeOK, Counted, BranchInductive, LedgerTypes', IsFiniteSet(Tracked'),
         Cardinality(Tracked') <= MaxEffects, harness' \in Harness \cup {None},
         UNCHANGED <<gone, invalid>>,
         NEW b \in Branch, NEW seq, NEW parent \in DOMAIN checkpoints \cup {None},
         NEW mark \in 0 .. MaxMark, NEW hints \in Hints,
         Insert(b, seq, parent, mark, hints), seq = sequence[b] + 1
  PROVE  (TypeOK /\ Counted)'
<1> DEFINE new == [branch |-> b, seq |-> seq, parent |-> parent,
                   mark |-> mark, hints |-> hints]
<1> USE RunsAssumption
<1>1. /\ checkpoints \in Seq(CheckpointRow)
      /\ Len(checkpoints) \in Nat /\ DOMAIN checkpoints = 1 .. Len(checkpoints)
  <2>1. checkpoints \in Seq(CheckpointRow)
    BY DEF BranchInductive, BranchTypes
  <2> QED
    BY <2>1, SeqFacts
<1> PICK n \in Nat : n = Len(checkpoints) + 1
  BY <1>1
<1>2. /\ checkpoints' = Append(checkpoints, new)
      /\ head' = [head EXCEPT ![b] = n]
      /\ sequence' = [sequence EXCEPT ![b] = seq]
      /\ n <= MaxCheckpoints
  BY <1>1 DEF Insert, NextNumber
<1>3. sequence[b] \in Nat /\ sequence[b] + 1 <= n
  BY <1>1 DEF Counted, BranchInductive, BranchTypes
<1>4. new \in CheckpointRow
  BY <1>1, <1>3 DEF CheckpointRow, Hints
<1>5. /\ DOMAIN checkpoints' = 1 .. n /\ Len(checkpoints') = n
      /\ checkpoints'[n] = new
      /\ \A c \in DOMAIN checkpoints : checkpoints'[c] = checkpoints[c]
  BY <1>1, <1>2, <1>4, AppendFacts, SeqFacts
<1>6. new \in [branch : Branch, seq : 1 .. MaxCheckpoints, parent : (1 .. n - 1) \cup {None},
               mark : 0 .. MaxMark, hints : Hints]
  BY <1>1, <1>2, <1>3
<1>7. \A c \in 1 .. n - 1 :
        checkpoints[c] \in [branch : Branch, seq : 1 .. MaxCheckpoints,
                            parent : (1 .. c - 1) \cup {None}, mark : 0 .. MaxMark,
                            hints : Hints]
  BY <1>1 DEF TypeOK
<1>8. \A c \in DOMAIN checkpoints' :
        checkpoints'[c] \in [branch : Branch, seq : 1 .. MaxCheckpoints,
                             parent : (1 .. c - 1) \cup {None}, mark : 0 .. MaxMark,
                             hints : Hints]
  <2> TAKE c \in DOMAIN checkpoints'
  <2>1. CASE c = n
    BY <1>5, <1>6, <2>1
  <2>2. CASE c \in 1 .. n - 1
    BY <1>1, <1>5, <1>7, <2>2
  <2> QED
    BY <1>5, <2>1, <2>2
<1>9. /\ head' \in [Branch -> DOMAIN checkpoints' \cup {None}]
      /\ sequence' \in [Branch -> 0 .. MaxCheckpoints]
      /\ \A a \in Branch : (head'[a] = None) <=> (sequence'[a] = 0)
  BY <1>1, <1>2, <1>3, <1>5 DEF TypeOK
<1>10. gone' \subseteq DOMAIN checkpoints' /\ invalid' \subseteq Branch
  BY <1>1, <1>5 DEF TypeOK
<1>11. \A a \in Branch : sequence'[a] <= Len(checkpoints')
  BY <1>1, <1>2, <1>3, <1>5 DEF Counted, BranchInductive, BranchTypes
<1> QED
  BY <1>8, <1>9, <1>10, <1>11 DEF TypeOK, Counted

\* Fencing hints changes which they are, not for which operations there are some.
LEMMA FencedHintsFit ==
  ASSUME NEW hints \in Hints
  PROVE  FencedHints(hints) \in Hints
<1>1. FencedHints(hints) \in HintMap
  BY FencedHintsAreHints DEF Hints
<1>2. \A o \in Operation : FencedHints(hints)[o] # "none" <=> hints[o] # "none"
  BY DEF FencedHints
<1>3. {o \in Operation : FencedHints(hints)[o] # "none"} = {o \in Operation : hints[o] # "none"}
  BY <1>2
<1> QED
  BY <1>1, <1>3 DEF Hints

\* Every request preserves the types and what they count.
LEMMA StepTyped ==
  Inductive /\ Inductive' /\ BranchInductive /\ TypeOK /\ Counted /\ [Next]_vars
    => (TypeOK /\ Counted)'
<1> SUFFICES ASSUME Inductive, Inductive', BranchInductive, TypeOK, Counted, [Next]_vars
             PROVE  (TypeOK /\ Counted)'
  OBVIOUS
<1> USE RunsAssumption
<1>0. LedgerTypes' /\ IsFiniteSet(Tracked) /\ Cardinality(Tracked) <= MaxEffects
      /\ gone \subseteq DOMAIN checkpoints /\ invalid \subseteq Branch
      /\ harness \in Harness \cup {None}
  BY DEF Inductive, TypeOK, Counted
<1>1. ASSUME NEW o \in Operation, Plan(o) PROVE (TypeOK /\ Counted)'
  <2>1. Tracked' = Tracked \cup {o} /\ o \notin Tracked
    BY <1>1 DEF Plan, Inductive, LedgerTypes, LedgerAccounts, Tracked, NoEffect
  <2>2. Cardinality(Tracked) \in Nat /\ Cardinality(Tracked) < MaxEffects
    BY <1>0, <1>1, FS_CardinalityType DEF Plan
  <2>3. IsFiniteSet(Tracked') /\ Cardinality(Tracked') = Cardinality(Tracked) + 1
    BY <1>0, <2>1, FS_AddElement
  <2> QED
    BY <1>0, <1>1, <2>2, <2>3, LedgerStepTyped DEF Plan
<1>2. ASSUME NEW o \in Operation, NEW expected, NEW new \in Status, Transition(o, expected, new)
      PROVE  (TypeOK /\ Counted)'
  <2>1. Tracked' = Tracked
    BY <1>2 DEF Transition, Inductive, LedgerTypes, Tracked, Status
  <2> QED
    BY <1>0, <1>2, <2>1, LedgerStepTyped DEF Transition
<1>3. ASSUME NEW b \in Branch, NEW h \in Harness, NEW expected \in DOMAIN checkpoints \cup {None},
             NEW mark \in 0 .. MaxMark, NEW hints \in Hints,
             Create(b, h, expected, mark, hints)
      PROVE  (TypeOK /\ Counted)'
  <2>1. Tracked' = Tracked
    BY <1>3 DEF Create, ledgerVars, Tracked
  <2> QED
    BY <1>0, <1>3, <2>1, InsertTyped DEF Create
<1>4. ASSUME NEW b \in Branch, NEW h \in Harness, NEW c \in DOMAIN checkpoints, Restore(b, h, c)
      PROVE  (TypeOK /\ Counted)'
  <2>1. Tracked' = Tracked
    BY <1>4 DEF Restore, FencedEffect, Tracked
  <2>2. checkpoints[c].mark \in 0 .. MaxMark /\ FencedHints(checkpoints[c].hints) \in Hints
    BY FencedHintsFit DEF TypeOK
  <2>3. 1 = sequence[b] + 1
    BY <1>4 DEF Restore, BranchInductive, HeadsAreLast
  <2> QED
    BY <1>0, <1>4, <2>1, <2>2, <2>3, InsertTyped DEF Restore
<1>5. ASSUME NEW os \in SUBSET Tracked, NEW cs \in SUBSET Saved, Purge(os, cs)
      PROVE  (TypeOK /\ Counted)'
  <2>1. Tracked' \subseteq Tracked
    BY <1>5 DEF Purge, Tracked, NoEffect
  <2>2. IsFiniteSet(Tracked') /\ Cardinality(Tracked') <= MaxEffects
    BY <1>0, <2>1, FS_Subset, FS_CardinalityType
  <2>3. gone' \subseteq DOMAIN checkpoints /\ invalid' \subseteq Branch
    BY <1>0, <1>5 DEF Purge, Saved
  <2> QED
    BY <1>0, <1>5, <2>2, <2>3, LedgerStepTyped DEF Purge
<1>6. CASE UNCHANGED vars
  <2>1. Tracked' = Tracked
    BY <1>6 DEF vars, ledgerVars, Tracked
  <2> QED
    BY <1>0, <1>6, <2>1, LedgerStepTyped DEF vars
<1> QED
  BY <1>1, <1>2, <1>3, <1>4, <1>5, <1>6 DEF Next

\* The limits of the schema hold: so many effects, hints, checkpoints, and revisions
\* from 1 to 4, and a branch has a head exactly when it has a sequence number.
THEOREM RunsTyped == Spec => []TypeOK
<1>1. Init => TypeOK /\ Counted
  <2> SUFFICES ASSUME Init PROVE TypeOK /\ Counted
    OBVIOUS
  <2>1. Tracked = {} /\ LedgerTypes
    BY DEF Init, Tracked, NoEffect, LedgerTypes
  <2> QED
    BY <2>1, FS_EmptySet, RunsAssumption DEF Init, TypeOK, Counted
<1> QED
  BY <1>1, StepTyped, LedgerInductive, BranchesStayInductive, PTL DEF Spec

-------------------------------------------------------------------------------
(* Chains *)

\* A set of numbers that is not empty has a least one.
LEMMA LeastNumber ==
  ASSUME NEW T \in SUBSET Nat, T # {}
  PROVE  \E x \in T : \A y \in T : x <= y
<1>1. PICK R : IsWellFoundedOn(R, Nat) /\ \A x, y \in Nat : x < y => <<x, y>> \in R
  <2>1. IsWellFoundedOn(OpToRel(<, Nat), Nat)
    BY NatLessThanWellFounded, Zenon
  <2>2. \A x, y \in Nat : x < y => <<x, y>> \in OpToRel(<, Nat)
    BY Zenon DEF OpToRel
  <2> QED
    BY <2>1, <2>2, Zenon
<1>2. IsWellFoundedOn(R, Nat) /\ T \subseteq Nat
  BY <1>1, Zenon
<1>3. PICK x \in T : \A y \in T : ~(<<y, x>> \in R)
  BY <1>2, WFMin, Zenon
<1>4. \A y \in T : ~(y < x)
  BY <1>1, <1>2, <1>3, Zenon
<1>5. \A y \in T : x <= y
  BY <1>2, <1>4
<1> QED
  BY <1>5

\* The numbers of the checkpoints of a branch that can be loaded.
Numbers(b) == {checkpoints[c].seq : c \in {d \in Saved : checkpoints[d].branch = b}}

\* Parents can be loaded, and valid branches are whole and have their head.
Chained ==
  /\ \A c \in Saved : checkpoints[c].parent # None =>
       /\ checkpoints[c].parent \in Saved
       /\ checkpoints[checkpoints[c].parent].mark <= checkpoints[c].mark
  /\ \A b \in Branch \ invalid : head[b] # None =>
       Numbers(b) = 1 .. sequence[b] /\ head[b] \in Saved

\* A new checkpoint at the end of a whole branch, after a parent that can be loaded.
LEMMA InsertChained ==
  ASSUME TypeOK, BranchInductive, Chained, UNCHANGED <<gone, invalid>>,
         NEW b \in Branch, NEW seq, NEW parent \in Saved \cup {None}, NEW mark \in Nat,
         NEW hints \in HintMap, Insert(b, seq, parent, mark, hints),
         seq = sequence[b] + 1,
         b \notin invalid \/ head[b] = None,
         parent # None => checkpoints[parent].mark <= mark
  PROVE  Chained'
<1> DEFINE new == [branch |-> b, seq |-> seq, parent |-> parent,
                   mark |-> mark, hints |-> hints]
<1> USE RunsAssumption
<1>1. /\ checkpoints \in Seq(CheckpointRow)
      /\ Len(checkpoints) \in Nat /\ DOMAIN checkpoints = 1 .. Len(checkpoints)
      /\ \A c \in DOMAIN checkpoints : checkpoints[c] \in CheckpointRow
  <2>1. checkpoints \in Seq(CheckpointRow)
    BY DEF BranchInductive, BranchTypes
  <2> QED
    BY <2>1, SeqFacts
<1> PICK n \in Nat : n = Len(checkpoints) + 1
  BY <1>1
<1>2. /\ checkpoints' = Append(checkpoints, new)
      /\ head' = [head EXCEPT ![b] = n]
      /\ sequence' = [sequence EXCEPT ![b] = seq]
  BY <1>1 DEF Insert, NextNumber
<1>3. sequence[b] \in Nat /\ parent \in Nat \cup {None}
  BY <1>1 DEF BranchInductive, BranchTypes, Saved
<1>4. new \in CheckpointRow
  BY <1>3 DEF CheckpointRow
<1>5. /\ DOMAIN checkpoints' = 1 .. n
      /\ checkpoints'[n] = new
      /\ \A c \in DOMAIN checkpoints : checkpoints'[c] = checkpoints[c]
  BY <1>1, <1>2, <1>4, AppendFacts
<1>6. gone \subseteq DOMAIN checkpoints
  BY DEF TypeOK
<1>7. Saved' = Saved \cup {n} /\ n \notin Saved /\ Saved \subseteq DOMAIN checkpoints
  BY <1>1, <1>5, <1>6 DEF Saved
<1>8. \A c \in Saved' : checkpoints'[c].parent # None =>
        /\ checkpoints'[c].parent \in Saved'
        /\ checkpoints'[checkpoints'[c].parent].mark <= checkpoints'[c].mark
  BY <1>5, <1>7 DEF Chained
<1>9. Numbers(b)' = Numbers(b) \cup {seq}
  BY <1>5, <1>7 DEF Numbers
<1>10. \A a \in Branch : a # b => Numbers(a)' = Numbers(a)
  BY <1>5, <1>7 DEF Numbers
<1>11. Numbers(b) = 1 .. sequence[b]
  <2>1. CASE head[b] = None
    <3>1. sequence[b] = 0 /\ \A c \in DOMAIN checkpoints : checkpoints[c].branch # b
      BY <1>1, <2>1, RowFacts DEF BranchInductive, HeadsAreLast
    <3> QED
      BY <1>7, <3>1 DEF Numbers
  <2>2. CASE head[b] # None
    BY <2>2 DEF Chained
  <2> QED
    BY <2>1, <2>2
<1>12. ASSUME NEW a \in Branch \ invalid, head'[a] # None
       PROVE  Numbers(a)' = 1 .. sequence'[a] /\ head'[a] \in Saved'
  <2>1. CASE a = b
    <3>1. head'[b] = n /\ sequence'[b] = seq
      BY <1>2 DEF TypeOK
    <3>2. (1 .. sequence[b]) \cup {sequence[b] + 1} = 1 .. sequence[b] + 1
      BY <1>3
    <3>3. Numbers(b)' = 1 .. seq
      BY <1>9, <1>11, <3>2
    <3> QED
      BY <1>7, <2>1, <3>1, <3>3
  <2>2. CASE a # b
    <3>1. head'[a] = head[a] /\ sequence'[a] = sequence[a]
      BY <1>2, <2>2 DEF TypeOK
    <3> QED
      BY <1>7, <1>10, <1>12, <2>2, <3>1 DEF Chained
  <2> QED
    BY <2>1, <2>2
<1> QED
  BY <1>8, <1>12 DEF Chained

\* A purge that takes a checkpoint of a branch takes all that follow it there, its
\* head at last: of the checkpoints it takes, none is the last one of those.
LEMMA PurgeTakesHead ==
  ASSUME TypeOK, BranchInductive, Chained, NEW os, NEW cs \in SUBSET Saved, Closed(os, cs),
         NEW b \in Branch \ invalid, NEW e \in cs, checkpoints[e].branch = b
  PROVE  head[b] \in cs
<1> USE RunsAssumption
<1>1. \A c \in DOMAIN checkpoints : checkpoints[c] \in CheckpointRow
  <2>1. checkpoints \in Seq(CheckpointRow)
    BY DEF BranchInductive, BranchTypes
  <2> QED
    BY <2>1, SeqFacts
<1>2. cs \subseteq DOMAIN checkpoints /\ Saved \subseteq DOMAIN checkpoints
  BY DEF Saved
<1>3. \A c \in DOMAIN checkpoints : checkpoints[c].branch = b =>
        checkpoints[c].seq \in 1 .. sequence[b]
  BY DEF BranchInductive, HeadsAreLast
<1>4. sequence[b] \in Nat
  BY DEF BranchInductive, BranchTypes
<1> DEFINE taken == {c \in cs : checkpoints[c].branch = b}
           T == {sequence[b] - checkpoints[c].seq : c \in taken}
<1>5. T \in SUBSET Nat
  <2>1. \A c \in taken : sequence[b] - checkpoints[c].seq \in Nat
    BY <1>2, <1>3, <1>4
  <2> QED
    BY <2>1
<1>6. sequence[b] - checkpoints[e].seq \in T
  OBVIOUS
<1>7. PICK x \in T : \A y \in T : x <= y
  <2> HIDE DEF T
  <2> QED
    BY <1>5, <1>6, LeastNumber
<1>8. PICK c \in taken : x = sequence[b] - checkpoints[c].seq
  OBVIOUS
<1>9. \A d \in taken : checkpoints[d].seq <= checkpoints[c].seq
  <2>1. \A d \in taken : sequence[b] - checkpoints[c].seq <= sequence[b] - checkpoints[d].seq
    BY <1>7, <1>8
  <2> QED
    BY <1>2, <1>3, <1>4, <2>1
<1>10. /\ c \in cs /\ c \in DOMAIN checkpoints /\ checkpoints[c].branch = b
       /\ checkpoints[c].seq \in 1 .. sequence[b]
  BY <1>2, <1>3
<1>11. /\ head[b] # None /\ head[b] \in DOMAIN checkpoints
       /\ checkpoints[head[b]].branch = b /\ checkpoints[head[b]].seq = sequence[b]
  BY <1>4, <1>10 DEF BranchInductive, HeadsAreLast
<1>12. CASE checkpoints[c].seq = sequence[b]
  BY <1>10, <1>11, <1>12 DEF BranchInductive, HeadsAreExclusive
<1>13. CASE checkpoints[c].seq # sequence[b]
  <2> DEFINE m == checkpoints[c].seq + 1
  <2>1. m \in 1 .. sequence[b] /\ m # 1
    BY <1>4, <1>10, <1>13
  <2>2. PICK d \in Saved : checkpoints[d].branch = b /\ checkpoints[d].seq = m
    BY <1>11, <2>1 DEF Chained, Numbers
  <2>3. d \in DOMAIN checkpoints /\ Follows(d)
    BY <1>2 DEF BranchInductive
  <2> DEFINE p == checkpoints[d].parent
  <2>4. /\ p # None /\ p \in DOMAIN checkpoints
        /\ checkpoints[p].branch = b /\ checkpoints[p].seq + 1 = m
    BY <2>1, <2>2, <2>3 DEF Follows
  <2>5. checkpoints[p].seq = checkpoints[c].seq
    BY <1>1, <1>10, <2>4, RowFacts
  <2>6. p = c
    BY <1>10, <2>4, <2>5 DEF BranchInductive, HeadsAreExclusive
  <2>7. d \in cs
    BY <1>10, <2>2, <2>6 DEF Closed
  <2>8. checkpoints[d].seq <= checkpoints[c].seq
    BY <1>9, <2>2, <2>7
  <2> QED
    BY <1>10, <2>2, <2>8
<1> QED
  BY <1>12, <1>13

\* A purge leaves whole what it does not invalidate.
LEMMA PurgeChained ==
  ASSUME TypeOK, BranchInductive, Chained, NEW os \in SUBSET Tracked,
         NEW cs \in SUBSET Saved, Purge(os, cs)
  PROVE  Chained'
<1>1. /\ Closed(os, cs) /\ UNCHANGED <<checkpoints, head, sequence>>
      /\ gone' = gone \cup cs /\ invalid' = invalid \cup {b \in Branch : head[b] \in cs}
  BY DEF Purge, branchVars
<1>2. Saved' = Saved \ cs
  BY <1>1 DEF Saved
<1>3. \A c \in Saved' : checkpoints'[c].parent # None =>
        /\ checkpoints'[c].parent \in Saved'
        /\ checkpoints'[checkpoints'[c].parent].mark <= checkpoints'[c].mark
  BY <1>1, <1>2 DEF Chained, Closed
<1>4. ASSUME NEW b \in Branch \ invalid', head'[b] # None
      PROVE  Numbers(b)' = 1 .. sequence'[b] /\ head'[b] \in Saved'
  <2>1. b \in Branch \ invalid /\ head[b] \notin cs /\ head[b] # None
    BY <1>1, <1>4
  <2>2. \A e \in cs : checkpoints[e].branch # b
    BY <1>1, <2>1, PurgeTakesHead
  <2>3. Numbers(b)' = Numbers(b)
    BY <1>1, <1>2, <2>2 DEF Numbers
  <2> QED
    BY <1>1, <1>2, <2>1, <2>3 DEF Chained
<1> QED
  BY <1>3, <1>4 DEF Chained

\* Every request keeps the branches chained.
LEMMA StepChained == TypeOK /\ BranchInductive /\ Chained /\ [Next]_vars => Chained'
<1> SUFFICES ASSUME TypeOK, BranchInductive, Chained, [Next]_vars PROVE Chained'
  OBVIOUS
<1>1. ASSUME UNCHANGED <<branchVars, gone, invalid>> PROVE Chained'
  BY <1>1 DEF branchVars, Chained, Numbers, Saved
<1>2. ASSUME NEW b \in Branch, NEW h, NEW expected \in DOMAIN checkpoints \cup {None},
             NEW mark \in 0 .. MaxMark, NEW hints \in Hints,
             Create(b, h, expected, mark, hints)
      PROVE  Chained'
  BY <1>2, RunsAssumption, InsertChained DEF Create, ExpectedHead, Hints
<1>3. ASSUME NEW b \in Branch, NEW h, NEW c \in DOMAIN checkpoints, Restore(b, h, c)
      PROVE  Chained'
  <2>1. /\ checkpoints[c].mark \in Nat
        /\ FencedHints(checkpoints[c].hints) \in HintMap
    BY SeqFacts, RowFacts, FencedHintsAreHints DEF BranchInductive, BranchTypes
  <2>2. head[b] = None /\ sequence[b] + 1 = 1
    BY <1>3 DEF Restore, BranchInductive, HeadsAreLast
  <2> QED
    BY <1>3, <2>1, <2>2, InsertChained DEF Restore
<1>4. ASSUME NEW os \in SUBSET Tracked, NEW cs \in SUBSET Saved, Purge(os, cs)
      PROVE  Chained'
  BY <1>4, PurgeChained
<1> QED
  BY <1>1, <1>2, <1>3, <1>4 DEF Next, Plan, Transition, vars, branchVars

\* A branch is a chain: what can be loaded has its parent, and a head that can be
\* continued accounts for its whole sequence, whatever was forked and purged
\* (Checkpoints.create and restore, the trigger adopt_checkpoint, forget).
THEOREM BranchesStayChains == Spec => []BranchesAreChains
<1>1. Init => Chained
  BY DEF Init, Chained, Saved
<1>2. Chained => BranchesAreChains
  BY DEF Chained, BranchesAreChains, Numbers
<1> QED
  BY <1>1, <1>2, StepChained, RunsTyped, BranchesStayInductive, PTL DEF Spec
===============================================================================
