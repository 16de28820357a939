------------------------------ MODULE JobsProofs ------------------------------
(***************************************************************************)
(* Theorems about Jobs for every set of jobs, workers, principals, intents *)
(* and episodes and every value of the bounds.                             *)
(***************************************************************************)
EXTENDS Jobs, FiniteSetTheorems, TLAPS

\* The types hold at first,
LEMMA InitType == Init => TypeOK
  BY JobsAssumption DEF Init, TypeOK, States, Phases

\* and every step preserves them.
LEMMA NextType == TypeOK /\ [Next]_vars => TypeOK'
<1> SUFFICES ASSUME TypeOK, [Next]_vars PROVE TypeOK'
  OBVIOUS
<1> USE JobsAssumption DEF TypeOK, rowVars, tenantVars, factVars, workerVars, States, Phases
<1>1. ASSUME NEW p \in Principal, NEW i \in Intent, NEW parent \in Job \cup {None},
             Enqueue(p, i, parent)
      PROVE  TypeOK'
  BY <1>1 DEF Enqueue, Enqueued
<1>2. ASSUME NEW p \in Principal, NEW j \in Job, Cancel(p, j)
      PROVE  TypeOK'
  BY <1>2 DEF Cancel
<1>3. ASSUME NEW w \in Worker, WorkerStep(w)
      PROVE  TypeOK'
  <2> USE DEF Goto, Leave, Release
  <2>1. CASE Claim(w)
    <3>1. PICK j \in Job : ClaimJob(w, j) \/ ClaimSpent(j)
      BY <2>1 DEF Claim, Due
    <3>2. CASE ClaimJob(w, j)
      <4>1. attempt[j] + 1 \in 1 .. MaxAttempt
        BY <3>2 DEF ClaimJob
      <4>2. UNCHANGED <<owner, intent, retryOf, delay, accessEpoch, deletionEpoch, may,
                        published, live, erased, holder>>
        BY <2>1 DEF Claim
      <4>3. CASE UNCHANGED workerVars
        BY <3>2, <4>1, <4>2, <4>3 DEF ClaimJob
      <4>4. CASE ~ UNCHANGED workerVars
        <5>1. /\ pc' = [pc EXCEPT ![w] = "prepared"]
              /\ heldJob' = [heldJob EXCEPT ![w] = j]
              /\ heldToken' = [heldToken EXCEPT ![w] = attempt[j] + 1]
              /\ retry' = [retry EXCEPT ![w] = TRUE]
          BY <3>2, <4>4 DEF ClaimJob
        <5>2. \A v \in Worker : pc'[v] \notin {"idle", "down"} =>
                heldJob'[v] \in Job /\ heldToken'[v] > 0
          BY <4>1, <5>1
        <5>. QED BY <3>2, <4>1, <4>2, <5>1, <5>2 DEF ClaimJob
      <4>. QED BY <4>3, <4>4
    <3>3. CASE ClaimSpent(j)
      BY <2>1, <3>3 DEF Claim, ClaimSpent
    <3>. QED BY <3>1, <3>2, <3>3
  <2>2. CASE BeginPublish(w)
    BY <2>2 DEF BeginPublish
  <2>3. CASE LeaseLost(w)
    BY <2>3 DEF LeaseLost
  <2>4. CASE StaleContext(w)
    BY <2>4 DEF StaleContext
  <2>5. CASE InvalidInput(w)
    BY <2>5 DEF InvalidInput, Refuse
  <2>6. CASE DependencyError(w)
    BY <2>6 DEF DependencyError
  <2>7. CASE CommitPublish(w)
    <3>1. heldJob[w] \in Job /\ heldToken[w] \in 1 .. MaxAttempt
      BY <2>7 DEF CommitPublish
    <3>2. CASE Leave(w, "idle")
      BY <2>7, <3>1, <3>2 DEF CommitPublish
    <3>3. CASE Goto(w, "failing")
      BY <2>7, <3>1, <3>3 DEF CommitPublish
    <3>. QED BY <2>7, <3>2, <3>3 DEF CommitPublish
  <2>8. CASE AbortPublish(w)
    <3>1. CASE Leave(w, "idle")
      BY <2>8, <3>1 DEF AbortPublish
    <3>2. CASE Refuse(w)
      BY <2>8, <3>2 DEF AbortPublish, Refuse
    <3>. QED BY <2>8, <3>1, <3>2 DEF AbortPublish
  <2>9. CASE BeginFail(w)
    BY <2>9 DEF BeginFail
  <2>10. CASE CommitFail(w)
    <3>1. heldJob[w] \in Job /\ FailState(w) \in States
      BY <2>10 DEF CommitFail, FailState
    <3>. QED BY <2>10, <3>1 DEF CommitFail
  <2>11. CASE FailUnrecorded(w)
    BY <2>11 DEF FailUnrecorded
  <2>12. CASE Stop(w)
    BY <2>12 DEF Stop
  <2>13. CASE Restart(w)
    BY <2>13 DEF Restart
  <2>14. CASE Heartbeat(w)
    BY <2>14 DEF Heartbeat
  <2>. QED
    BY <1>3, <2>1, <2>2, <2>3, <2>4, <2>5, <2>6, <2>7, <2>8, <2>9, <2>10, <2>11,
       <2>12, <2>13, <2>14 DEF WorkerStep
<1>4. ASSUME NEW s \in Source, ForgetSource(s)
      PROVE  TypeOK'
  BY <1>4 DEF ForgetSource, Purge
<1>5. ASSUME NEW j \in Job, ForgetJob(j) \/ ForgetResult(j)
      PROVE  TypeOK'
  BY <1>5 DEF ForgetJob, ForgetResult, Purge
<1>6. ASSUME NEW p \in Principal, ChangeAccess(p) \/ Expire(p)
      PROVE  TypeOK'
  BY <1>6 DEF ChangeAccess, Expire
<1>7. CASE Tick
  <2>1. \A n \in Nat : \A m \in 0 .. n : Down(m) \in 0 .. n
    BY DEF Down
  <2>2. lease' \in [Job -> 0 .. LeaseSpan] /\ delay' \in [Job -> 0 .. MaxDelay]
    BY <1>7, <2>1 DEF Tick
  <2>. QED BY <1>7, <2>2 DEF Tick
<1>8. CASE UNCHANGED vars
  BY <1>8 DEF vars
<1>. QED
  BY <1>1, <1>2, <1>3, <1>4, <1>5, <1>6, <1>7, <1>8 DEF Next

-------------------------------------------------------------------------------
(* The inductive invariant *)

\* The inductive invariant holds at first.
LEMMA InitInductive == Init => Inductive
<1> SUFFICES ASSUME Init PROVE Inductive
  OBVIOUS
<1>1. RowsConsistent
  BY DEF Init, RowsConsistent
<1>2. LockProtects
  BY JobsAssumption DEF Init, LockProtects
<1>3. ResultOfLastClaim /\ NothingFromErased
  BY DEF Init, ResultOfLastClaim, NothingFromErased
<1>. QED BY InitType, <1>1, <1>2, <1>3 DEF Inductive

\* Steps of one worker that leave the rows, the epochs and the facts alone.
LEMMA QuietWorkerStep ==
  ASSUME Inductive, TypeOK', NEW w \in Worker,
         UNCHANGED <<rowVars, tenantVars, factVars>>,
         LockProtects'
  PROVE  Inductive'
  BY DEF Inductive, rowVars, tenantVars, factVars, RowsConsistent, ResultOfLastClaim,
         NothingFromErased, Row

\* Leaving the lock, or never having had it, keeps LockProtects.
LEMMA LockAfterLeaving ==
  ASSUME Inductive, TypeOK', NEW w \in Worker,
         UNCHANGED <<rowVars, tenantVars, factVars>>,
         holder' = (IF holder = w THEN None ELSE holder),
         NEW phase \in {"idle", "prepared", "failing", "down"},
         pc' = [pc EXCEPT ![w] = phase],
         \A v \in Worker \ {w} : heldJob'[v] = heldJob[v] /\ heldToken'[v] = heldToken[v]
  PROVE  LockProtects'
<1> SUFFICES ASSUME NEW v \in Worker
             PROVE  /\ pc'[v] \in {"publishing", "recording"} <=> holder' = v
                    /\ holder' = v => /\ state'[heldJob'[v]] = "running"
                                      /\ owner'[heldJob'[v]] = RunsAs[v]
                                      /\ token'[heldJob'[v]] = heldToken'[v]
                    /\ pc'[v] = "publishing" => EpochsUnchanged(heldJob[v])'
  BY DEF LockProtects
<1> USE JobsAssumption DEF Inductive, TypeOK, rowVars, tenantVars, LockProtects, EpochsUnchanged
<1>1. CASE v = w
  BY <1>1
<1>2. CASE v # w
  BY <1>2
<1>. QED BY <1>1, <1>2

\* Taking the lock after a successful lease check.
LEMMA LockAfterTaking ==
  ASSUME Inductive, TypeOK', NEW w \in Worker,
         UNCHANGED <<rowVars, tenantVars, factVars, heldJob, heldToken>>,
         pc[w] \in {"prepared", "failing"}, holder = None, holder' = w, Holds(w),
         NEW phase \in {"publishing", "recording"},
         phase = "publishing" => EpochsUnchanged(heldJob[w]),
         pc' = [pc EXCEPT ![w] = phase]
  PROVE  LockProtects'
<1> SUFFICES ASSUME NEW v \in Worker
             PROVE  /\ pc'[v] \in {"publishing", "recording"} <=> holder' = v
                    /\ holder' = v => /\ state'[heldJob'[v]] = "running"
                                      /\ owner'[heldJob'[v]] = RunsAs[v]
                                      /\ token'[heldJob'[v]] = heldToken'[v]
                    /\ pc'[v] = "publishing" => EpochsUnchanged(heldJob[v])'
  BY DEF LockProtects
<1> USE JobsAssumption DEF Inductive, TypeOK, rowVars, tenantVars, LockProtects,
                           EpochsUnchanged, Holds, LeaseHeld
<1>1. CASE v = w
  BY <1>1
<1>2. CASE v # w
  BY <1>2
<1>. QED BY <1>1, <1>2

\* A new row is pending, without a token or a result.
LEMMA EnqueueInductive ==
  ASSUME Inductive, TypeOK',
         NEW p \in Principal, NEW i \in Intent, NEW parent \in Job \cup {None},
         Enqueue(p, i, parent)
  PROVE  Inductive'
<1> USE JobsAssumption DEF Inductive, TypeOK
<1>1. PICK j \in Job \ Enqueued :
        /\ state' = [state EXCEPT ![j] = "pending"]
        /\ owner' = [owner EXCEPT ![j] = p]
        /\ intent' = [intent EXCEPT ![j] = i]
  BY DEF Enqueue
<1>2. state[j] = "absent"
  BY DEF Enqueued
<1>3. /\ UNCHANGED <<attempt, token, lease, published, live, erased, holder, pc,
                     heldJob, heldToken, accessEpoch, deletionEpoch>>
      /\ holder = None
      /\ EvidenceExists(i)
  BY DEF Enqueue, tenantVars, factVars, workerVars
<1>4. RowsConsistent'
  BY <1>1, <1>2, <1>3 DEF RowsConsistent
<1>5. LockProtects'
  BY <1>3 DEF LockProtects
<1>6. ResultOfLastClaim'
  BY <1>1, <1>2, <1>3 DEF ResultOfLastClaim
<1>7. NothingFromErased'
  BY <1>1, <1>2, <1>3 DEF NothingFromErased, RowsConsistent, Row, EvidenceExists
<1>. QED BY <1>4, <1>5, <1>6, <1>7

\* Nobody is inside a transaction while a job is cancelled.
LEMMA CancelInductive ==
  ASSUME Inductive, TypeOK', NEW p \in Principal, NEW j \in Job, Cancel(p, j)
  PROVE  Inductive'
<1> USE JobsAssumption DEF Inductive, TypeOK, Cancel, rowVars, tenantVars, factVars, workerVars
<1>1. RowsConsistent'
  BY DEF RowsConsistent
<1>2. LockProtects'
  BY DEF LockProtects
<1>3. ResultOfLastClaim'
  BY DEF ResultOfLastClaim
<1>4. NothingFromErased'
  BY DEF NothingFromErased, Row, Outcomes
<1>. QED BY <1>1, <1>2, <1>3, <1>4

\* A claim makes the token that of the new attempt.
LEMMA ClaimInductive ==
  ASSUME Inductive, TypeOK', NEW w \in Worker, Claim(w)
  PROVE  Inductive'
<1> USE JobsAssumption DEF Inductive, TypeOK
<1>1. PICK j \in Job : /\ state[j] \in {"pending", "running"}
                       /\ ClaimJob(w, j) \/ ClaimSpent(j)
  BY DEF Claim, Due
<1>2. /\ UNCHANGED <<owner, intent, published, live, erased, holder, accessEpoch,
                     deletionEpoch>>
      /\ holder = None
  BY DEF Claim, tenantVars, factVars
<1>3. RowsConsistent'
  <2>1. CASE ClaimJob(w, j)
    BY <1>1, <1>2, <2>1 DEF ClaimJob, RowsConsistent
  <2>2. CASE ClaimSpent(j)
    BY <1>1, <1>2, <2>2 DEF ClaimSpent, RowsConsistent
  <2>. QED BY <1>1, <2>1, <2>2
<1>4. LockProtects'
  <2>1. \A v \in Worker : pc'[v] \notin {"publishing", "recording"}
    <3>1. \A v \in Worker : pc[v] \notin {"publishing", "recording"}
      BY <1>2 DEF LockProtects
    <3>2. \/ pc' = pc
          \/ pc' = [pc EXCEPT ![w] = "prepared"]
      BY <1>1 DEF ClaimJob, ClaimSpent, workerVars
    <3>. QED BY <3>1, <3>2
  <2>. QED BY <1>2, <2>1 DEF LockProtects
<1>5. ResultOfLastClaim'
  <2>1. \A r \in published : r[1] # j
    BY <1>1 DEF ResultOfLastClaim
  <2>2. \A k \in Job \ {j} : state'[k] = state[k] /\ attempt'[k] = attempt[k]
    BY <1>1 DEF ClaimJob, ClaimSpent
  <2>. QED BY <1>2, <2>1, <2>2 DEF ResultOfLastClaim
<1>6. NothingFromErased'
  <2>1. \A k \in Job : Row(k)' => Row(k)
    BY <1>1 DEF ClaimJob, ClaimSpent, Row, Outcomes
  <2>. QED BY <1>2, <2>1 DEF NothingFromErased
<1>. QED BY <1>3, <1>4, <1>5, <1>6

\* The lock still protects what the publishing worker checked.
LEMMA CommitPublishInductive ==
  ASSUME Inductive, TypeOK', NEW w \in Worker, CommitPublish(w)
  PROVE  Inductive'
<1> DEFINE j == heldJob[w]
<1> USE JobsAssumption DEF Inductive, TypeOK
<1>1. /\ j \in Job
      /\ holder = w
      /\ state[j] = "running"
      /\ token[j] = heldToken[w]
      /\ EvidenceExists(intent[j])
  BY DEF CommitPublish, LockProtects, Publishable
<1>2. /\ state' = [state EXCEPT ![j] = "succeeded"]
      /\ token' = [token EXCEPT ![j] = 0]
      /\ published' = published \cup {<<j, heldToken[w]>>}
      /\ live' = live \cup {j}
      /\ holder' = None
      /\ UNCHANGED <<owner, intent, attempt, accessEpoch, deletionEpoch, erased>>
  BY <1>1 DEF CommitPublish, tenantVars, Release
<1>3. RowsConsistent'
  BY <1>1, <1>2 DEF RowsConsistent
<1>4. LockProtects'
  <2>1. \A v \in Worker : pc'[v] \notin {"publishing", "recording"}
    BY <1>1 DEF CommitPublish, LockProtects, Leave, Goto
  <2>. QED BY <1>2, <2>1 DEF LockProtects
<1>5. ResultOfLastClaim'
  BY <1>1, <1>2 DEF ResultOfLastClaim, RowsConsistent
<1>6. NothingFromErased'
  BY <1>1, <1>2 DEF NothingFromErased, EvidenceExists, Row, Outcomes
<1>. QED BY <1>3, <1>4, <1>5, <1>6

\* The lock still protects what the failing worker checked.
LEMMA CommitFailInductive ==
  ASSUME Inductive, TypeOK', NEW w \in Worker, CommitFail(w)
  PROVE  Inductive'
<1> DEFINE j == heldJob[w]
<1> USE JobsAssumption DEF Inductive, TypeOK
<1>1. /\ j \in Job
      /\ holder = w
      /\ state[j] = "running"
  BY DEF CommitFail, LockProtects
<1>2. /\ state' = [state EXCEPT ![j] = FailState(w)]
      /\ token' = [token EXCEPT ![j] = 0]
      /\ holder' = None
      /\ UNCHANGED <<owner, intent, attempt, accessEpoch, deletionEpoch, published,
                     live, erased>>
  BY <1>1 DEF CommitFail, tenantVars, factVars, Release
<1>3. FailState(w) \in {"pending", "failed"} /\ (FailState(w) = "pending" => attempt[j] < MaxAttempt)
  BY DEF FailState
<1>4. RowsConsistent'
  BY <1>1, <1>2, <1>3 DEF RowsConsistent
<1>5. LockProtects'
  <2>1. \A v \in Worker : pc'[v] \notin {"publishing", "recording"}
    BY <1>1 DEF CommitFail, LockProtects, Leave
  <2>. QED BY <1>2, <2>1 DEF LockProtects
<1>6. ResultOfLastClaim'
  BY <1>1, <1>2 DEF ResultOfLastClaim
<1>7. NothingFromErased'
  BY <1>1, <1>2, <1>3 DEF NothingFromErased, Row, Outcomes
<1>. QED BY <1>4, <1>5, <1>6, <1>7

\* What a purge needs to know of the closure it is given.
LEMMA PurgeInductive ==
  ASSUME Inductive, TypeOK', NEW jobs \in SUBSET Job, NEW results \in SUBSET Job,
         Purge(jobs, results),
         \A j \in jobs : Row(j),
         erased \subseteq erased',
         \A j \in Job : Cites[intent[j]] \cap (erased' \ erased) # {} =>
            (Row(j) => j \in jobs) /\ j \in results
  PROVE  Inductive'
<1> USE JobsAssumption DEF Inductive, TypeOK
<1>1. /\ state' = [j \in Job |-> IF j \in jobs THEN "purged" ELSE state[j]]
      /\ token' = [j \in Job |-> IF j \in jobs THEN 0 ELSE token[j]]
      /\ live' = live \ results
      /\ holder = None
      /\ UNCHANGED <<owner, intent, attempt, published, holder, pc, heldJob, heldToken>>
  BY DEF Purge, workerVars
<1>2. RowsConsistent'
  BY <1>1 DEF RowsConsistent
<1>3. LockProtects'
  BY <1>1 DEF LockProtects
<1>4. ResultOfLastClaim'
  <2>1. \A r \in published : r[1] \in Job
    OBVIOUS
  <2>. QED BY <1>1, <2>1 DEF ResultOfLastClaim
<1>5. NothingFromErased'
  <2> SUFFICES ASSUME NEW j \in Job, j \in live' \/ Row(j)'
               PROVE  Cites[intent[j]] \cap erased' = {}
    BY <1>1 DEF NothingFromErased
  <2>1. j \in live \/ Row(j)
    BY <1>1 DEF Row, Outcomes
  <2>2. Cites[intent[j]] \cap erased = {}
    BY <2>1 DEF NothingFromErased
  <2>3. Cites[intent[j]] \cap (erased' \ erased) = {}
    BY <1>1 DEF Row, Outcomes
  <2>. QED BY <2>2, <2>3
<1>. QED BY <1>2, <1>3, <1>4, <1>5

\* Every step of a worker preserves the invariant,
LEMMA WorkerInductive ==
  ASSUME Inductive, TypeOK', NEW w \in Worker, WorkerStep(w)
  PROVE  Inductive'
<1> TypeOK /\ LockProtects
  BY DEF Inductive
<1>1. CASE Claim(w)
  BY <1>1, ClaimInductive
<1>2. CASE BeginPublish(w)
  <2>. LockProtects'
    BY <1>2, LockAfterTaking DEF BeginPublish, Goto
  <2>. QED BY <1>2, QuietWorkerStep DEF BeginPublish
<1>3. CASE LeaseLost(w)
  <2>. pc[w] \in {"prepared", "failing"} /\ holder # w
    BY <1>3, JobsAssumption DEF LeaseLost
  <2>. LockProtects'
    BY <1>3, LockAfterLeaving DEF LeaseLost, Leave, TypeOK
  <2>. QED BY <1>3, QuietWorkerStep DEF LeaseLost
<1>4. CASE StaleContext(w)
  <2>. holder # w
    BY <1>4, JobsAssumption DEF StaleContext
  <2>. LockProtects'
    BY <1>4, LockAfterLeaving DEF StaleContext, Goto
  <2>. QED BY <1>4, QuietWorkerStep DEF StaleContext
<1>5. CASE InvalidInput(w)
  <2>. holder # w
    BY <1>5 DEF InvalidInput, Refuse, LockProtects
  <2>. LockProtects'
    BY <1>5, LockAfterLeaving DEF InvalidInput, Refuse
  <2>. QED BY <1>5, QuietWorkerStep DEF InvalidInput
<1>6. CASE DependencyError(w)
  <2>. LockProtects'
    BY <1>6, LockAfterLeaving DEF DependencyError, Goto, Release
  <2>. QED BY <1>6, QuietWorkerStep DEF DependencyError
<1>7. CASE CommitPublish(w)
  BY <1>7, CommitPublishInductive
<1>8. CASE AbortPublish(w)
  <2>. LockProtects'
    BY <1>8, LockAfterLeaving DEF AbortPublish, Leave, Refuse, Release, TypeOK
  <2>. QED BY <1>8, QuietWorkerStep DEF AbortPublish
<1>9. CASE BeginFail(w)
  <2>. LockProtects'
    BY <1>9, LockAfterTaking DEF BeginFail, Goto
  <2>. QED BY <1>9, QuietWorkerStep DEF BeginFail
<1>10. CASE CommitFail(w)
  BY <1>10, CommitFailInductive
<1>11. CASE FailUnrecorded(w)
  <2>. LockProtects'
    BY <1>11, LockAfterLeaving DEF FailUnrecorded, Leave, Release, TypeOK
  <2>. QED BY <1>11, QuietWorkerStep DEF FailUnrecorded
<1>12. CASE Stop(w)
  <2>. LockProtects'
    BY <1>12, LockAfterLeaving DEF Stop, Leave, Release, TypeOK
  <2>. QED BY <1>12, QuietWorkerStep DEF Stop
<1>13. CASE Restart(w)
  <2>. holder # w
    BY <1>13 DEF Restart, LockProtects
  <2>. LockProtects'
    BY <1>13, LockAfterLeaving DEF Restart, Leave, TypeOK
  <2>. QED BY <1>13, QuietWorkerStep DEF Restart
<1>14. CASE Heartbeat(w)
  BY <1>14 DEF Heartbeat, Inductive, tenantVars, factVars, workerVars, RowsConsistent,
               LockProtects, EpochsUnchanged, ResultOfLastClaim, NothingFromErased, Row
<1>. QED
  BY <1>1, <1>2, <1>3, <1>4, <1>5, <1>6, <1>7, <1>8, <1>9, <1>10, <1>11, <1>12,
     <1>13, <1>14 DEF WorkerStep

\* and so does every step.
LEMMA NextInductive == Inductive /\ [Next]_vars => Inductive'
<1> SUFFICES ASSUME Inductive, [Next]_vars PROVE Inductive'
  OBVIOUS
<1>0. TypeOK /\ TypeOK'
  BY NextType DEF Inductive
<1>1. ASSUME NEW p \in Principal, NEW i \in Intent, NEW parent \in Job \cup {None},
             Enqueue(p, i, parent)
      PROVE  Inductive'
  BY <1>0, <1>1, EnqueueInductive
<1>2. ASSUME NEW p \in Principal, NEW j \in Job, Cancel(p, j)
      PROVE  Inductive'
  BY <1>0, <1>2, CancelInductive
<1>3. ASSUME NEW w \in Worker, WorkerStep(w)
      PROVE  Inductive'
  BY <1>0, <1>3, WorkerInductive
<1>4. ASSUME NEW s \in Source, ForgetSource(s)
      PROVE  Inductive'
  <2> DEFINE jobs == {j \in Citing(s) : Row(j)}
  <2>1. jobs \in SUBSET Job /\ Citing(s) \in SUBSET Job
    BY DEF Citing
  <2>2. Purge(jobs, Citing(s)) /\ erased' = erased \cup {s}
    BY <1>4 DEF ForgetSource
  <2>3. \A j \in Job : Cites[intent[j]] \cap (erased' \ erased) # {} =>
           (Row(j) => j \in jobs) /\ j \in Citing(s)
    BY <2>2 DEF Citing
  <2>4. (\A j \in jobs : Row(j)) /\ erased \subseteq erased'
    BY <2>2
  <2> HIDE DEF jobs
  <2>. QED BY <1>0, <2>1, <2>2, <2>3, <2>4, PurgeInductive
<1>5. ASSUME NEW j \in Job, ForgetJob(j)
      PROVE  Inductive'
  <2> DEFINE jobs == {k \in Lineage(j) : Row(k)}
  <2>1. jobs \in SUBSET Job /\ Purge(jobs, {}) /\ erased' = erased
    BY <1>5 DEF ForgetJob, Lineage
  <2>2. \A k \in jobs : Row(k)
    OBVIOUS
  <2> HIDE DEF jobs
  <2>. QED BY <1>0, <2>1, <2>2, PurgeInductive
<1>6. ASSUME NEW j \in Job, ForgetResult(j)
      PROVE  Inductive'
  <2> DEFINE jobs == {k \in Lineage(j) : Row(j) /\ Row(k)}
  <2>1. jobs \in SUBSET Job /\ Purge(jobs, {j}) /\ erased' = erased
    BY <1>6 DEF ForgetResult, Lineage
  <2>2. \A k \in jobs : Row(k)
    OBVIOUS
  <2> HIDE DEF jobs
  <2>. QED BY <1>0, <2>1, <2>2, PurgeInductive
<1>7. ASSUME NEW p \in Principal, ChangeAccess(p)
      PROVE  Inductive'
  <2>1. /\ UNCHANGED <<rowVars, deletionEpoch, factVars, holder, workerVars>>
        /\ holder = None
    BY <1>7 DEF ChangeAccess
  <2>2. \A w \in Worker : pc[w] # "publishing" /\ pc[w] # "recording"
    BY <2>1, JobsAssumption DEF Inductive, LockProtects
  <2>3. LockProtects'
    BY <2>1, <2>2 DEF Inductive, LockProtects, workerVars, rowVars
  <2>. QED
    BY <1>0, <2>1, <2>3 DEF Inductive, rowVars, factVars, RowsConsistent,
                            ResultOfLastClaim, NothingFromErased, Row
<1>8. ASSUME NEW p \in Principal, Expire(p)
      PROVE  Inductive'
  BY <1>0, <1>8 DEF Expire, Inductive, rowVars, factVars, workerVars, RowsConsistent,
         LockProtects, EpochsUnchanged, ResultOfLastClaim, NothingFromErased, Row
<1>9. CASE Tick
  BY <1>0, <1>9 DEF Tick, Inductive, tenantVars, factVars, workerVars, RowsConsistent,
         LockProtects, EpochsUnchanged, ResultOfLastClaim, NothingFromErased, Row
<1>10. CASE UNCHANGED vars
  BY <1>0, <1>10 DEF vars, rowVars, tenantVars, factVars, workerVars, Inductive,
         RowsConsistent, LockProtects, EpochsUnchanged, ResultOfLastClaim,
         NothingFromErased, Row
<1>. QED
  BY <1>1, <1>2, <1>3, <1>4, <1>5, <1>6, <1>7, <1>8, <1>9, <1>10 DEF Next

\* Every reachable state satisfies the inductive invariant.
THEOREM InductiveInvariant == Spec => []Inductive
  BY InitInductive, NextInductive, PTL DEF Spec

-------------------------------------------------------------------------------
(* Theorems *)

\* The variables keep their types; in particular no job is ever claimed more
\* than MaxAttempt times.
THEOREM TypeCorrect == Spec => []TypeOK
<1>1. Inductive => TypeOK
  BY DEF Inductive
<1>. QED BY <1>1, InductiveInvariant, PTL

\* At most one committed result per job, and it is the last claim's.
THEOREM OneResult == Spec => []ResultOfLastClaim
<1>1. Inductive => ResultOfLastClaim
  BY DEF Inductive
<1>. QED BY <1>1, InductiveInvariant, PTL

\* No job and no result outlives an episode it cites.
THEOREM ErasureIsComplete == Spec => []NothingFromErased
<1>1. Inductive => NothingFromErased
  BY DEF Inductive
<1>. QED BY <1>1, InductiveInvariant, PTL

\* Which steps end a claim, and under which conditions.
LEMMA EndOfClaim ==
  ASSUME Inductive, [Next]_vars, NEW j \in Job,
         state[j] = "running", state'[j] \in {"pending", "succeeded", "failed"}
  PROVE  \/ /\ lease[j] = 0
            /\ attempt[j] = MaxAttempt
            /\ state'[j] = "failed"
         \/ \E w \in Worker : /\ heldJob[w] = j
                              /\ heldToken[w] = token[j]
                              /\ \/ CommitPublish(w)
                                 \/ CommitFail(w) /\ state'[j] # "succeeded"
<1> USE DEF Inductive, TypeOK
<1>1. ASSUME NEW w \in Worker, CommitPublish(w) \/ CommitFail(w)
      PROVE  /\ heldJob[w] = j
             /\ heldToken[w] = token[j]
             /\ CommitFail(w) => state'[j] # "succeeded"
  BY <1>1 DEF CommitPublish, CommitFail, FailState, LockProtects
<1>2. ASSUME NEW w \in Worker, Claim(w)
      PROVE  lease[j] = 0 /\ attempt[j] = MaxAttempt /\ state'[j] = "failed"
  BY <1>2 DEF Claim, ClaimJob, ClaimSpent, Due
<1>3. ASSUME NEW w \in Worker, WorkerStep(w), ~Claim(w), ~CommitPublish(w), ~CommitFail(w)
      PROVE  FALSE
  <2>1. state' = state
    BY <1>3 DEF WorkerStep, BeginPublish, LeaseLost, StaleContext, InvalidInput,
                DependencyError, AbortPublish, BeginFail, FailUnrecorded, Stop,
                Restart, Heartbeat, rowVars
  <2>. QED BY <2>1
<1>4. ASSUME NEW p \in Principal, NEW i \in Intent, NEW parent \in Job \cup {None},
             Enqueue(p, i, parent)
      PROVE  FALSE
  BY <1>4 DEF Enqueue, Enqueued
<1>5. ASSUME NEW p \in Principal, NEW k \in Job, Cancel(p, k)
      PROVE  FALSE
  BY <1>5 DEF Cancel
<1>6. ASSUME NEW jobs, NEW results, Purge(jobs, results)
      PROVE  FALSE
  BY <1>6 DEF Purge
<1>7. CASE \/ UNCHANGED vars
           \/ Tick
           \/ \E p \in Principal : ChangeAccess(p) \/ Expire(p)
  BY <1>7 DEF vars, rowVars, Tick, ChangeAccess, Expire
<1>. QED
  BY <1>1, <1>2, <1>3, <1>4, <1>5, <1>6, <1>7
     DEF Next, ForgetSource, ForgetJob, ForgetResult

\* A late worker decides nothing: see OnlyLeaseholderDecides.
THEOREM LeaseholderDecides == Spec => OnlyLeaseholderDecides
<1> DEFINE P == \A j \in Job :
       (state[j] = "running" /\ state'[j] \in {"pending", "succeeded", "failed"}) =>
         \/ \E w \in Worker : /\ pc[w] \in {"publishing", "recording"}
                              /\ heldJob[w] = j
                              /\ heldToken[w] = token[j]
         \/ lease[j] = 0 /\ attempt[j] = MaxAttempt
<1>1. Inductive /\ [Next]_vars => P
  BY EndOfClaim DEF CommitPublish, CommitFail
<1>2. Inductive /\ [Next]_vars => [P]_vars
  BY <1>1
<1>. QED BY <1>2, InductiveInvariant, PTL DEF Spec, OnlyLeaseholderDecides

\* No publication crosses a forget or an access change: see PublishesInItsEpoch.
THEOREM PublishesFresh == Spec => PublishesInItsEpoch
<1> DEFINE P == \A j \in Job : (state[j] = "running" /\ state'[j] = "succeeded") =>
       seenAccess[j] = accessEpoch' /\ seenDeletion[j] = deletionEpoch'
<1>1. ASSUME Inductive, [Next]_vars, NEW j \in Job,
             state[j] = "running", state'[j] = "succeeded"
      PROVE  seenAccess[j] = accessEpoch' /\ seenDeletion[j] = deletionEpoch'
  <2>1. PICK w \in Worker : heldJob[w] = j /\ CommitPublish(w)
    BY <1>1, EndOfClaim
  <2>2. EpochsUnchanged(j)
    BY <1>1, <2>1 DEF CommitPublish, Inductive, LockProtects
  <2>. QED BY <2>1, <2>2 DEF CommitPublish, EpochsUnchanged, tenantVars
<1>2. Inductive /\ [Next]_vars => [P]_vars
  BY <1>1
<1>. QED BY <1>2, InductiveInvariant, PTL DEF Spec, PublishesInItsEpoch

-------------------------------------------------------------------------------
(* Identities, retries and the queue *)

\* The queue is bounded, an identity has one job, and retries hang together.
QueueSound ==
  /\ IsFiniteSet(Open)
  /\ WithinQuota
  /\ OneJobPerIdentity
  /\ RetryLineage

\* Every step but an admission keeps who asked for what, opens nothing, and brings
\* nothing back; a failed job goes only with what was retried from it.
Settles ==
  /\ UNCHANGED <<owner, intent, retryOf>>
  /\ Enqueued' = Enqueued
  /\ Open' \subseteq Open
  /\ \A j \in Job : Row(j)' => Row(j)
  /\ \A j \in Job : Row(j)' /\ retryOf[j] # None /\ state[retryOf[j]] = "failed" =>
       state'[retryOf[j]] = "failed"

\* One job that was open is open or ended afterwards.
LEMMA EndSettles ==
  ASSUME TypeOK, RetryLineage, UNCHANGED <<owner, intent, retryOf>>, NEW j \in Job,
         state[j] \in {"pending", "running"},
         NEW new \in {"pending", "running", "succeeded", "failed", "cancelled"},
         state' = [state EXCEPT ![j] = new]
  PROVE  Settles
<1>1. Enqueued' = Enqueued /\ Open' \subseteq Open
  BY DEF TypeOK, Enqueued, Open
<1>2. \A k \in Job : Row(k)' => Row(k)
  BY DEF TypeOK, Row, Outcomes
<1>3. \A k \in Job : state[k] = "failed" => state'[k] = "failed"
  BY DEF TypeOK
<1>4. \A k \in Job : retryOf[k] \in Job \cup {None}
  BY DEF TypeOK
<1> QED
  BY <1>1, <1>2, <1>3, <1>4 DEF Settles

\* The closure of one job has everything retried from what it has.
LEMMA LineageIsClosed ==
  ASSUME NEW j \in Job, NEW a \in Lineage(j), NEW b \in Enqueued, retryOf[b] = a
  PROVE  b \in Lineage(j)
  BY DEF Lineage, Enqueued

\* A purge that takes with a job everything retried from it.
LEMMA PurgeSettles ==
  ASSUME TypeOK, RetryLineage, NEW jobs \in SUBSET Job, NEW results, Purge(jobs, results),
         \A j \in jobs : Row(j),
         \A j \in Job : Row(j) /\ retryOf[j] \in jobs => j \in jobs
  PROVE  Settles
<1>1. /\ state' = [j \in Job |-> IF j \in jobs THEN "purged" ELSE state[j]]
      /\ UNCHANGED <<owner, intent, retryOf>>
  BY DEF Purge
<1>2. Enqueued' = Enqueued /\ Open' \subseteq Open
  BY <1>1 DEF TypeOK, Enqueued, Open, Row, Outcomes
<1>3. \A j \in Job : Row(j)' => Row(j) /\ j \notin jobs
  BY <1>1 DEF TypeOK, Row, Outcomes
<1>4. \A j \in Job : retryOf[j] \in Job \cup {None}
  BY DEF TypeOK
<1>5. \A j \in Job : Row(j)' /\ retryOf[j] # None /\ state[retryOf[j]] = "failed" =>
        state'[retryOf[j]] = "failed"
  BY <1>1, <1>3, <1>4
<1> QED
  BY <1>1, <1>2, <1>3, <1>5 DEF Settles

\* Forgetting an episode, a job or a result purges such a set.
LEMMA ForgetSettles ==
  ASSUME Inductive, RetryLineage,
         \/ \E s \in Source : ForgetSource(s)
         \/ \E j \in Job : ForgetJob(j) \/ ForgetResult(j)
  PROVE  Settles
<1> USE DEF Inductive
<1>1. ASSUME NEW s \in Source, ForgetSource(s) PROVE Settles
  <2> DEFINE jobs == {j \in Citing(s) : Row(j)}
  <2>1. Purge(jobs, Citing(s)) /\ jobs \in SUBSET Job
    BY <1>1 DEF ForgetSource, Citing
  <2>2. \A j \in Job : Row(j) /\ retryOf[j] \in jobs => j \in jobs
    BY JobsAssumption DEF Citing, RetryLineage
  <2> QED
    BY <2>1, <2>2, PurgeSettles
<1>2. ASSUME NEW j \in Job, NEW results, NEW jobs \in SUBSET Job, Purge(jobs, results),
             jobs = {k \in Lineage(j) : Row(k)} \/ jobs = {}
      PROVE  Settles
  <2>1. \A k \in Job : Row(k) => k \in Enqueued
    BY DEF Row, Enqueued, Outcomes
  <2>2. \A k \in Job : Row(k) /\ retryOf[k] \in jobs => k \in jobs
    BY <1>2, <2>1, LineageIsClosed
  <2> QED
    BY <1>2, <2>2, PurgeSettles
<1>3. ASSUME NEW j \in Job, ForgetJob(j) PROVE Settles
  BY <1>2, <1>3 DEF ForgetJob, Lineage
<1>4. ASSUME NEW j \in Job, ForgetResult(j) PROVE Settles
  <2>1. {k \in Lineage(j) : Row(j) /\ Row(k)} \in SUBSET Job
    BY DEF Lineage
  <2>2. \/ {k \in Lineage(j) : Row(j) /\ Row(k)} = {k \in Lineage(j) : Row(k)}
        \/ {k \in Lineage(j) : Row(j) /\ Row(k)} = {}
    OBVIOUS
  <2> QED
    BY <1>2, <1>4, <2>1, <2>2 DEF ForgetResult
<1> QED
  BY <1>1, <1>3, <1>4

\* Every step but an admission settles, or leaves the rows as they are.
LEMMA StepSettles ==
  ASSUME Inductive, RetryLineage, [Next]_vars,
         \A p \in Principal, i \in Intent, parent \in Job \cup {None} : ~Enqueue(p, i, parent)
  PROVE  Settles
<1> USE DEF Inductive
<1>0. ASSUME UNCHANGED <<state, owner, intent, retryOf>> PROVE Settles
  BY <1>0 DEF Settles, Enqueued, Open, Row
<1>1. ASSUME NEW p \in Principal, NEW j \in Job, Cancel(p, j) PROVE Settles
  BY <1>1, EndSettles DEF Cancel
<1>2. ASSUME NEW w \in Worker, WorkerStep(w) PROVE Settles
  <2>1. CASE Claim(w)
    <3>1. PICK j \in Due(RunsAs[w]) : ClaimJob(w, j) \/ ClaimSpent(j)
      BY <2>1 DEF Claim
    <3>2. j \in Job /\ state[j] \in {"pending", "running"}
      BY DEF Due
    <3>3. UNCHANGED <<owner, intent, retryOf>>
      BY <2>1 DEF Claim
    <3>4. CASE ClaimJob(w, j)
      BY <3>2, <3>3, <3>4, EndSettles DEF ClaimJob
    <3>5. CASE ClaimSpent(j)
      BY <3>2, <3>3, <3>5, EndSettles DEF ClaimSpent
    <3> QED
      BY <3>1, <3>4, <3>5
  <2>2. CASE CommitPublish(w)
    BY <2>2, EndSettles DEF CommitPublish, GuardEnd, TypeOK
  <2>3. CASE CommitFail(w)
    BY <2>3, EndSettles DEF CommitFail, GuardEnd, FailState, TypeOK
  <2>4. ASSUME ~Claim(w), ~CommitPublish(w), ~CommitFail(w)
        PROVE  UNCHANGED <<state, owner, intent, retryOf>>
    BY <1>2, <2>4 DEF WorkerStep, BeginPublish, LeaseLost, StaleContext, InvalidInput,
       DependencyError, AbortPublish, BeginFail, FailUnrecorded, Stop, Restart, Heartbeat,
       rowVars
  <2> QED
    BY <1>0, <2>1, <2>2, <2>3, <2>4
<1>3. ASSUME \/ Tick \/ UNCHANGED vars
             \/ \E p \in Principal : ChangeAccess(p) \/ Expire(p)
      PROVE  UNCHANGED <<state, owner, intent, retryOf>>
  BY <1>3 DEF Tick, ChangeAccess, Expire, vars, rowVars
<1> QED
  BY <1>0, <1>1, <1>2, <1>3, ForgetSettles DEF Next

\* An admission finds no job of the identity, room in the queue and a failed parent.
LEMMA AdmissionSound ==
  ASSUME Inductive, QueueSound, NEW p \in Principal, NEW i \in Intent,
         NEW parent \in Job \cup {None}, Enqueue(p, i, parent)
  PROVE  QueueSound'
<1> USE JobsAssumption DEF Inductive, TypeOK
<1>1. PICK j \in Job \ Enqueued :
        /\ state' = [state EXCEPT ![j] = "pending"]
        /\ owner' = [owner EXCEPT ![j] = p]
        /\ intent' = [intent EXCEPT ![j] = i]
        /\ retryOf' = [retryOf EXCEPT ![j] = parent]
  BY DEF Enqueue
<1>2. state[j] = "absent"
  BY DEF Enqueued
<1>3. Open' = Open \cup {j} /\ j \notin Open
  BY <1>1, <1>2 DEF Open
<1>4. IsFiniteSet(Open') /\ WithinQuota'
  <2>1. IsFiniteSet(Open) /\ Cardinality(Open) < Quota
    BY DEF Enqueue, Accepting, QueueSound
  <2>2. IsFiniteSet(Open') /\ Cardinality(Open') = Cardinality(Open) + 1
        /\ Cardinality(Open) \in Nat
    BY <1>3, <2>1, FS_AddElement, FS_CardinalityType
  <2> QED
    BY <2>1, <2>2 DEF WithinQuota
<1>5. OneJobPerIdentity'
  <2>1. \A k \in Enqueued : ~(owner[k] = p /\ intent[k] = i /\ retryOf[k] = parent)
    BY DEF Enqueue, Identity
  <2>2. Enqueued' = Enqueued \cup {j}
    BY <1>1 DEF Enqueued
  <2>3. \A k \in Enqueued : k \in Job /\ k # j
    BY DEF Enqueued
  <2>4. /\ owner'[j] = p /\ intent'[j] = i /\ retryOf'[j] = parent
        /\ \A k \in Enqueued : owner'[k] = owner[k] /\ intent'[k] = intent[k]
                               /\ retryOf'[k] = retryOf[k]
    BY <1>1, <2>3
  <2> QED
    BY <2>1, <2>2, <2>4 DEF OneJobPerIdentity, QueueSound
<1>6. RetryLineage'
  <2> SUFFICES ASSUME NEW k \in Job, Row(k)', retryOf'[k] # None
               PROVE  /\ state'[retryOf'[k]] = "failed"
                      /\ owner'[retryOf'[k]] = owner'[k]
                      /\ intent'[retryOf'[k]] = intent'[k]
    BY DEF RetryLineage
  <2>1. CASE k = j
    <3>1. parent \in Job /\ state[parent] = "failed" /\ owner[parent] = p /\ intent[parent] = i
      BY <1>1, <2>1 DEF Enqueue
    <3> QED
      BY <1>1, <1>2, <2>1, <3>1
  <2>2. CASE k # j
    <3>1. retryOf'[k] = retryOf[k] /\ Row(k)
      BY <1>1, <2>2 DEF Row, Outcomes
    <3>2. /\ state[retryOf[k]] = "failed" /\ owner[retryOf[k]] = owner[k]
          /\ intent[retryOf[k]] = intent[k] /\ retryOf[k] \in Job
      BY <3>1 DEF QueueSound, RetryLineage
    <3> QED
      BY <1>1, <1>2, <2>2, <3>1, <3>2
  <2> QED
    BY <2>1, <2>2
<1> QED
  BY <1>4, <1>5, <1>6 DEF QueueSound

\* The queue, the identities and the retries stay sound.
LEMMA QueueStaysSound == Spec => []QueueSound
<1>1. Init => QueueSound
  <2> SUFFICES ASSUME Init PROVE QueueSound
    OBVIOUS
  <2>1. Open = {} /\ Enqueued = {} /\ \A j \in Job : ~Row(j)
    BY DEF Init, Open, Enqueued, Row, Outcomes
  <2> QED
    BY <2>1, JobsAssumption, FS_EmptySet
    DEF QueueSound, WithinQuota, OneJobPerIdentity, RetryLineage
<1>2. ASSUME Inductive, QueueSound, Settles PROVE QueueSound'
  <2>1. IsFiniteSet(Open') /\ Cardinality(Open') <= Cardinality(Open)
        /\ Cardinality(Open) \in Nat /\ Cardinality(Open') \in Nat
    BY <1>2, FS_Subset, FS_CardinalityType DEF QueueSound, Settles
  <2>2. WithinQuota'
    BY <1>2, <2>1, JobsAssumption DEF QueueSound, WithinQuota
  <2>3. OneJobPerIdentity' /\ RetryLineage'
    BY <1>2 DEF QueueSound, Settles, OneJobPerIdentity, RetryLineage
  <2> QED
    BY <2>1, <2>2, <2>3 DEF QueueSound
<1>3. Inductive /\ QueueSound /\ [Next]_vars => QueueSound'
  <2> SUFFICES ASSUME Inductive, QueueSound, [Next]_vars PROVE QueueSound'
    OBVIOUS
  <2>1. CASE \E p \in Principal, i \in Intent, parent \in Job \cup {None} : Enqueue(p, i, parent)
    BY <2>1, AdmissionSound
  <2>2. CASE \A p \in Principal, i \in Intent, parent \in Job \cup {None} : ~Enqueue(p, i, parent)
    BY <1>2, <2>2, StepSettles DEF QueueSound
  <2> QED
    BY <2>1, <2>2
<1> QED
  BY <1>1, <1>3, InductiveInvariant, PTL DEF Spec

\* One job per owner, intent and retry parent, for ever: a purged or cancelled
\* request cannot be brought back by sending it again (Jobs.enqueue, job_identity).
THEOREM IdentitiesAreUnique == Spec => []OneJobPerIdentity
<1>1. QueueSound => OneJobPerIdentity
  BY DEF QueueSound
<1> QED
  BY <1>1, QueueStaysSound, PTL

\* A retry hangs off a failed job of the same owner and intent that still exists,
\* whatever is forgotten in whatever order (jobs.retry, forget).
THEOREM RetriesHangTogether == Spec => []RetryLineage
<1>1. QueueSound => RetryLineage
  BY DEF QueueSound
<1> QED
  BY <1>1, QueueStaysSound, PTL

\* The queue of a scope never exceeds its bound (Jobs.enqueue).
THEOREM QueueIsBounded == Spec => []WithinQuota
<1>1. QueueSound => WithinQuota
  BY DEF QueueSound
<1> QED
  BY <1>1, QueueStaysSound, PTL
-------------------------------------------------------------------------------
(* The contract *)

\* What a client can tell of the jobs.
ClientPhase == [j \in Job |-> IF j \in Open THEN "open" ELSE state[j]]

\* What a client can tell of one job changes with that job only.
LEMMA PhaseOfOne ==
  ASSUME TypeOK, NEW j \in Job, NEW new \in States, state' = [state EXCEPT ![j] = new]
  PROVE  ClientPhase' =
           [ClientPhase EXCEPT ![j] = IF new \in {"pending", "running"} THEN "open" ELSE new]
<1>1. \A k \in Job : k \in Open <=> state[k] \in {"pending", "running"}
  BY DEF Open
<1>2. \A k \in Job : k \in Open' <=> state'[k] \in {"pending", "running"}
  BY DEF Open
<1>3. \A k \in Job : state'[k] = IF k = j THEN new ELSE state[k]
  BY DEF TypeOK
<1> QED
  BY <1>1, <1>2, <1>3 DEF ClientPhase

\* A step that changes nothing of the jobs' states, results and episodes is none.
LEMMA NothingToTell ==
  ASSUME UNCHANGED <<state, intent, live, erased>>
  PROVE  UNCHANGED <<ClientPhase, intent, live, erased>>
  BY DEF ClientPhase, Open

\* A job that was open ends without a result, or stays open.
LEMMA EndGivesUp ==
  ASSUME TypeOK, NEW j \in Job, state[j] \in {"pending", "running"},
         NEW new \in {"pending", "running", "failed", "cancelled"},
         state' = [state EXCEPT ![j] = new], UNCHANGED <<intent, live, erased>>
  PROVE  [Contract!Next]_(Contract!vars)
<1>1. ClientPhase' =
        [ClientPhase EXCEPT ![j] = IF new \in {"pending", "running"} THEN "open" ELSE new]
  BY PhaseOfOne DEF States
<1>2. ClientPhase[j] = "open"
  BY DEF ClientPhase, Open
<1>3. CASE new \in {"pending", "running"}
  <2>1. ClientPhase' = ClientPhase
    BY <1>1, <1>2, <1>3 DEF ClientPhase
  <2> QED
    BY <2>1 DEF Contract!vars, ClientPhase
<1>4. CASE new \in {"failed", "cancelled"}
  <2>1. Contract!GiveUp(j, new)
    BY <1>1, <1>2, <1>4 DEF Contract!GiveUp, ClientPhase
  <2> QED
    BY <1>4, <2>1 DEF Contract!Next
<1> QED
  BY <1>3, <1>4

\* A purge of rows erases what the contract says it must.
LEMMA PurgeErases ==
  ASSUME TypeOK, NEW jobs \in SUBSET Job, NEW results \in SUBSET Job,
         NEW episodes \in SUBSET Source, Purge(jobs, results),
         erased' = erased \cup episodes,
         \A j \in jobs : Row(j),
         \A j \in Job : Cites[intent[j]] \cap episodes # {} =>
           (Row(j) => j \in jobs) /\ j \in results
  PROVE  Contract!Next
<1>1. /\ state' = [j \in Job |-> IF j \in jobs THEN "purged" ELSE state[j]]
      /\ live' = live \ results /\ intent' = intent
  BY DEF Purge
<1>2. ClientPhase' = [j \in Job |-> IF j \in jobs THEN "purged" ELSE ClientPhase[j]]
  BY <1>1 DEF ClientPhase, Open
<1>3. \A j \in jobs : ClientPhase[j] # "absent"
  BY DEF ClientPhase, Open, Row, Outcomes
<1>4. \A j \in Job : ~Row(j) => ClientPhase[j] \in {"absent", "purged"}
  BY DEF ClientPhase, Open, Row, Outcomes, TypeOK, States
<1>5. Contract!Erase(jobs, results, episodes)
  BY <1>1, <1>2, <1>3, <1>4 DEF Contract!Erase, ClientPhase
<1> QED
  BY <1>5 DEF Contract!Next

\* Forgetting an episode, a job or a result is an erasure.
LEMMA ForgetErases ==
  ASSUME TypeOK,
         \/ \E s \in Source : ForgetSource(s)
         \/ \E j \in Job : ForgetJob(j) \/ ForgetResult(j)
  PROVE  Contract!Next
<1>1. ASSUME NEW s \in Source, ForgetSource(s) PROVE Contract!Next
  <2>1. Purge({j \in Citing(s) : Row(j)}, Citing(s)) /\ erased' = erased \cup {s}
    BY <1>1 DEF ForgetSource
  <2>2. Citing(s) \in SUBSET Job /\ \A j \in Job : s \in Cites[intent[j]] => j \in Citing(s)
    BY DEF Citing
  <2> DEFINE jobs == {j \in Citing(s) : Row(j)}
             results == Citing(s)
             episodes == {s}
  <2>3. /\ jobs \in SUBSET Job /\ results \in SUBSET Job /\ episodes \in SUBSET Source
        /\ Purge(jobs, results) /\ erased' = erased \cup episodes
        /\ \A j \in jobs : Row(j)
    BY <2>1, <2>2
  <2>4. \A j \in Job : Cites[intent[j]] \cap episodes # {} =>
          (Row(j) => j \in jobs) /\ j \in results
    BY <2>2
  <2> HIDE DEF jobs, results, episodes
  <2> QED
    BY <2>3, <2>4, PurgeErases
<1>2. ASSUME NEW j \in Job, ForgetJob(j) \/ ForgetResult(j) PROVE Contract!Next
  <2>1. PICK jobs \in SUBSET Job, results \in SUBSET Job :
          Purge(jobs, results) /\ \A k \in jobs : Row(k)
    BY <1>2 DEF ForgetJob, ForgetResult, Lineage
  <2> DEFINE episodes == {}
  <2>2. episodes \in SUBSET Source /\ erased' = erased \cup episodes
    BY <1>2 DEF ForgetJob, ForgetResult
  <2>3. \A k \in Job : Cites[intent[k]] \cap episodes = {}
    OBVIOUS
  <2> HIDE DEF episodes
  <2> QED
    BY <2>1, <2>2, <2>3, PurgeErases
<1> QED
  BY <1>1, <1>2

\* A worker's step publishes a result, gives the job up, or shows the client nothing.
LEMMA WorkerKeepsContract ==
  ASSUME Inductive, NEW w \in Worker, WorkerStep(w)
  PROVE  [Contract!Next]_(Contract!vars)
<1> USE DEF Inductive
<1>1. CASE Claim(w)
  <2>1. PICK j \in Due(RunsAs[w]) : ClaimJob(w, j) \/ ClaimSpent(j)
    BY <1>1 DEF Claim
  <2>2. j \in Job /\ state[j] \in {"pending", "running"}
    BY DEF Due
  <2>3. UNCHANGED <<intent, live, erased>>
    BY <1>1 DEF Claim, factVars
  <2>4. CASE ClaimJob(w, j)
    BY <2>2, <2>3, <2>4, EndGivesUp DEF ClaimJob
  <2>5. CASE ClaimSpent(j)
    BY <2>2, <2>3, <2>5, EndGivesUp DEF ClaimSpent
  <2> QED
    BY <2>1, <2>4, <2>5
<1>2. CASE CommitPublish(w)
  <2> PICK j \in Job : j = heldJob[w]
    BY <1>2 DEF CommitPublish, TypeOK
  <2>1. state[j] = "running" /\ EvidenceExists(intent[j])
    BY <1>2 DEF CommitPublish, Publishable, TypeOK, GuardEnd
  <2>2. /\ state' = [state EXCEPT ![j] = "succeeded"]
        /\ live' = live \cup {j} /\ UNCHANGED <<intent, erased>>
    BY <1>2 DEF CommitPublish
  <2>3. ClientPhase' = [ClientPhase EXCEPT ![j] = "succeeded"]
    BY <2>1, <2>2, PhaseOfOne DEF States
  <2>4. ClientPhase[j] = "open"
    BY <2>1 DEF ClientPhase, Open
  <2>5. Contract!Succeed(j)
    BY <2>1, <2>2, <2>3, <2>4 DEF Contract!Succeed, ClientPhase, EvidenceExists
  <2> QED
    BY <2>5 DEF Contract!Next
<1>3. CASE CommitFail(w)
  <2> DEFINE j == heldJob[w]
  <2>1. j \in Job /\ state[j] = "running"
    BY <1>3 DEF CommitFail, TypeOK, GuardEnd, FailState
  <2>2. /\ state' = [state EXCEPT ![j] = FailState(w)]
        /\ UNCHANGED <<intent, live, erased>>
    BY <1>3 DEF CommitFail, factVars
  <2>3. FailState(w) \in {"pending", "failed"}
    BY DEF FailState
  <2> QED
    BY <2>1, <2>2, <2>3, EndGivesUp
<1>4. ASSUME ~Claim(w), ~CommitPublish(w), ~CommitFail(w)
      PROVE  UNCHANGED <<state, intent, live, erased>>
  BY <1>4 DEF WorkerStep, BeginPublish, LeaseLost, StaleContext, InvalidInput,
     DependencyError, AbortPublish, BeginFail, FailUnrecorded, Stop, Restart, Heartbeat,
     rowVars, factVars
<1> QED
  BY <1>1, <1>2, <1>3, <1>4, NothingToTell DEF Contract!vars, ClientPhase

\* An admission accepts a job.
LEMMA AdmissionAccepts ==
  ASSUME TypeOK, NEW p \in Principal, NEW i \in Intent, NEW parent \in Job \cup {None},
         Enqueue(p, i, parent)
  PROVE  Contract!Next
<1>1. PICK j \in Job \ Enqueued :
        state' = [state EXCEPT ![j] = "pending"] /\ intent' = [intent EXCEPT ![j] = i]
  BY DEF Enqueue
<1>2. Cites[i] \cap erased = {} /\ UNCHANGED <<live, erased>>
  BY DEF Enqueue, EvidenceExists, factVars
<1>3. ClientPhase[j] = "absent"
  BY <1>1 DEF ClientPhase, Enqueued, Open
<1>4. ClientPhase' = [ClientPhase EXCEPT ![j] = "open"]
  BY <1>1, PhaseOfOne DEF States
<1>5. Contract!Accept(j, i)
  BY <1>1, <1>2, <1>3, <1>4 DEF Contract!Accept, ClientPhase
<1> QED
  BY <1>1, <1>5 DEF Contract!Next

\* jobs.py and worker.py implement what their client is promised: a job is accepted
\* once, settles once, has a result exactly when it succeeded, and goes with what it
\* cites, for any number of jobs, workers, principals and episodes.
THEOREM JobsImplementContract == Spec => ContractSpec
<1>1. Init => Contract!Init
  <2> SUFFICES ASSUME Init PROVE Contract!Init
    OBVIOUS
  <2>1. Open = {} /\ state = [j \in Job |-> "absent"]
    BY DEF Init, Open
  <2>2. intent \in [Job -> Intent]
    BY JobsAssumption DEF Init
  <2> QED
    BY <2>1, <2>2 DEF Init, Contract!Init
<1>2. Inductive /\ [Next]_vars => [Contract!Next]_(Contract!vars)
  <2> SUFFICES ASSUME Inductive, [Next]_vars PROVE [Contract!Next]_(Contract!vars)
    OBVIOUS
  <2>0. TypeOK
    BY DEF Inductive
  <2>1. ASSUME NEW p \in Principal, NEW i \in Intent, NEW parent \in Job \cup {None},
               Enqueue(p, i, parent)
        PROVE  Contract!Next
    BY <2>0, <2>1, AdmissionAccepts
  <2>2. ASSUME NEW p \in Principal, NEW j \in Job, Cancel(p, j)
        PROVE  [Contract!Next]_(Contract!vars)
    BY <2>0, <2>2, EndGivesUp DEF Cancel, factVars
  <2>3. ASSUME NEW w \in Worker, WorkerStep(w) PROVE [Contract!Next]_(Contract!vars)
    BY <2>3, WorkerKeepsContract
  <2>4. ASSUME \/ \E s \in Source : ForgetSource(s)
               \/ \E j \in Job : ForgetJob(j) \/ ForgetResult(j)
        PROVE  Contract!Next
    BY <2>0, <2>4, ForgetErases
  <2>5. ASSUME \/ Tick \/ UNCHANGED vars
               \/ \E p \in Principal : ChangeAccess(p) \/ Expire(p)
        PROVE  UNCHANGED <<state, intent, live, erased>>
    BY <2>5 DEF Tick, ChangeAccess, Expire, vars, rowVars, factVars
  <2>6. UNCHANGED <<state, intent, live, erased>> => UNCHANGED Contract!vars
    BY NothingToTell DEF Contract!vars, ClientPhase
  <2> QED
    BY <2>1, <2>2, <2>3, <2>4, <2>5, <2>6 DEF Next
<1> QED
  BY <1>1, <1>2, InductiveInvariant, PTL DEF Spec, ContractSpec, Contract!Spec
===============================================================================
