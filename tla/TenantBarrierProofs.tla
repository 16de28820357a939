-------------------------- MODULE TenantBarrierProofs --------------------------
(***************************************************************************)
(* While sessions keep their connections, the lock makes every transaction *)
(* alone in its tenant until its answer is delivered, no answer under way  *)
(* is stale, and the barrier implements its contract, for any sessions and *)
(* items.                                                                  *)
(***************************************************************************)
EXTENDS TenantBarrier, TLAPS

USE BarrierAssumption

\* The inductive invariant holds at first.
LEMMA InitInductive == Init => Inductive
  BY DEF Init, Inductive, TypeOK, Alone, Fresh, Ops, Phases

\* What a commit does to the tenant is of the declared types.
LEMMA EffectType == TypeOK /\ (\E o \in Ops : Effect(o)) =>
        /\ exists' \in SUBSET Item
        /\ access' \in {"granted", "expired", "revoked"}
        /\ epoch' \in Nat
        /\ exists' \subseteq exists
  BY DEF TypeOK, Effect, dbVars

\* Giving the connection back keeps everything, whoever held the lock.
LEMMA CloseInductive ==
  ASSUME Inductive, NEW s \in Session, Close(s), UNCHANGED <<dbVars, op>>,
         seen' \in [Session -> Nat]
  PROVE  Inductive'
<1>1. TypeOK'
  BY DEF Inductive, TypeOK, Close, Goto, dbVars, Phases
<1>2. Alone'
  BY DEF Inductive, TypeOK, Alone, Close, Goto
<1>3. Fresh'
  BY DEF Inductive, TypeOK, Fresh, Close, Goto, dbVars
<1> QED BY <1>1, <1>2, <1>3 DEF Inductive

\* A change at commit cannot disturb anyone: its transaction is alone.
LEMMA EffectAlone ==
  ASSUME Inductive, NEW s \in Session, pc[s] = "reading", Effect(op[s])
  PROVE  /\ exists' \in SUBSET Item
         /\ access' \in {"granted", "expired", "revoked"}
         /\ epoch' \in Nat
         /\ \A t \in Session \ {s} : pc[t] \in {"idle", "waiting"}
<1>1. op[s] \in Ops
  BY DEF Inductive, TypeOK
<1>2. \A t \in Session \ {s} : pc[t] \in {"idle", "waiting"}
  BY DEF Inductive, TypeOK, Alone, Phases
<1> QED BY <1>1, <1>2, EffectType DEF Inductive

\* A commit, acknowledged or not: what was read before it by a reader is
\* untouched, and whoever changes something has read nothing.
LEMMA CommitInductive ==
  ASSUME Inductive, NEW s \in Session, Commit(s)
  PROVE  Inductive'
<1>0. pc[s] = "reading" /\ Effect(op[s]) /\ UNCHANGED <<holder, op, items>>
  BY DEF Commit
<1>1. TypeOK'
  BY <1>0, EffectAlone DEF Inductive, TypeOK, Commit, Goto, Phases
<1>2. Alone'
  BY DEF Inductive, TypeOK, Alone, Commit, Goto
<1>3. \A t \in Session \ {s} : pc'[t] = pc[t] /\ pc'[t] \notin {"reading", "sending"}
  BY <1>0, EffectAlone DEF Inductive, TypeOK, Commit, Goto
<1>4. /\ op[s] # "read" => items[s] = {}
      /\ items[s] \subseteq exists'
      /\ items[s] # {} => access' # "revoked"
  BY <1>0 DEF Inductive, Fresh, Effect, dbVars
<1>5. Fresh'
  BY <1>0, <1>3, <1>4 DEF Fresh
<1> QED BY <1>1, <1>2, <1>5 DEF Inductive

\* A commit without an acknowledgement closes the session at once.
LEMMA UnacknowledgedInductive ==
  ASSUME Inductive, NEW s \in Session, CommitUnacknowledged(s)
  PROVE  Inductive'
<1>0. pc[s] = "reading" /\ Effect(op[s]) /\ Close(s) /\ UNCHANGED <<op, seen>>
  BY DEF CommitUnacknowledged
<1>1. TypeOK'
  BY <1>0, EffectAlone DEF Inductive, TypeOK, Close, Goto, Phases
<1>2. Alone'
  BY <1>0 DEF Inductive, TypeOK, Alone, Close, Goto
<1>3. \A t \in Session : pc'[t] \notin {"reading", "sending"}
  BY <1>0, EffectAlone DEF Inductive, TypeOK, Close, Goto
<1>4. Fresh'
  BY <1>3 DEF Fresh
<1> QED BY <1>1, <1>2, <1>4 DEF Inductive

\* While sessions keep their connection every step preserves the invariant.
LEMMA NextInductive ==
  ASSUME ~SessionsDie, Inductive, [Next]_vars
  PROVE  Inductive'
<1>1. CASE UNCHANGED vars
  BY <1>1 DEF Inductive, TypeOK, Alone, Fresh, vars, dbVars
<1>2. CASE Expire
  BY <1>2 DEF Expire, Inductive, TypeOK, Alone, Fresh
<1>3. ASSUME NEW s \in Session, NEW o \in Ops, Arrive(s, o)  PROVE Inductive'
  BY <1>3 DEF Arrive, Goto, Inductive, TypeOK, Alone, Fresh, dbVars, Phases, Ops
<1>4. ASSUME NEW s \in Session, Lock(s)  PROVE Inductive'
  BY <1>4 DEF Lock, Goto, Inductive, TypeOK, Alone, Fresh, dbVars, Phases
<1>5. ASSUME NEW s \in Session, ReadItems(s)  PROVE Inductive'
  <2>1. TypeOK'
    BY <1>5 DEF ReadItems, Readable, Goto, Inductive, TypeOK, dbVars, Phases
  <2>2. Alone'
    BY <1>5 DEF ReadItems, Goto, Inductive, TypeOK, Alone
  <2>3. Fresh'
    BY <1>5 DEF ReadItems, Readable, Goto, Inductive, TypeOK, Fresh, dbVars
  <2> QED BY <2>1, <2>2, <2>3 DEF Inductive
<1>6. ASSUME NEW s \in Session,
             LockTimeout(s) \/ Abort(s) \/ Deliver(s) \/ SendTimeout(s)
      PROVE  Inductive'
  <2>1. Close(s) /\ UNCHANGED <<dbVars, op, seen>>
    BY <1>6 DEF LockTimeout, Abort, Deliver, SendTimeout
  <2> QED BY <2>1, CloseInductive DEF Inductive, TypeOK
<1>7. ASSUME NEW s \in Session, SessionLost(s)  PROVE Inductive'
  BY <1>7 DEF SessionLost
<1> QED
  BY <1>1, <1>2, <1>3, <1>4, <1>5, <1>6, <1>7, CommitInductive, UnacknowledgedInductive
     DEF Next, Step

\* While sessions keep their connections, each is alone in its tenant from its
\* lock to the end of its delivery, and what it read stays true until then.
THEOREM BarrierInductive ==
  ASSUME ~SessionsDie  PROVE Spec => []Inductive
<1>1. Inductive /\ [Next]_vars => Inductive'
  BY NextInductive
<1> QED BY <1>1, InitInductive, PTL DEF Spec

\* Mutual exclusion, through the delivery (the drain).
THEOREM DrainIsExclusive ==
  ASSUME ~SessionsDie  PROVE Spec => []Alone
<1>1. Inductive => Alone
  BY DEF Inductive
<1> QED BY <1>1, BarrierInductive, PTL

\* No answer under way is ever stale: docs/STATUS.md's drain guarantee, for
\* explicit changes and as long as no session is lost while it answers.
THEOREM DrainIsFresh ==
  ASSUME ~SessionsDie  PROVE Spec => []NoStaleDelivery
<1>1. Inductive => NoStaleDelivery
  BY DEF Inductive, Fresh, NoStaleDelivery
<1> QED BY <1>1, BarrierInductive, PTL

-------------------------------------------------------------------------------
(* Isolation does not need the connections to live: a session that is lost *)
(* before its commit takes its transaction with it.                        *)

InHand ==
  /\ TypeOK
  /\ \A s \in Session : pc[s] \in {"bound", "reading"} => holder = s

\* No two sessions are between lock and commit together, whoever dies.
LEMMA InHandInductive == InHand /\ [Next]_vars => InHand'
<1> SUFFICES ASSUME InHand, [Next]_vars  PROVE InHand'
  OBVIOUS
<1>0. CASE UNCHANGED vars
  BY <1>0 DEF TypeOK, InHand, vars, dbVars
<1>1. CASE Expire
  BY <1>1 DEF TypeOK, InHand, Expire
<1>2. ASSUME NEW s \in Session, NEW o \in Ops, Arrive(s, o) \/ Lock(s) \/ ReadItems(s)
      PROVE  InHand'
  BY <1>2 DEF Arrive, Lock, ReadItems, Readable, Goto, TypeOK, InHand, dbVars, Phases, Ops
<1>3. ASSUME NEW s \in Session, LockTimeout(s) \/ Abort(s) \/ Deliver(s) \/ SendTimeout(s)
      PROVE  InHand'
  <2>1. Close(s) /\ UNCHANGED <<dbVars, op, seen>>
    BY <1>3 DEF LockTimeout, Abort, Deliver, SendTimeout
  <2> QED BY <2>1 DEF Close, Goto, TypeOK, InHand, dbVars, Phases
<1>4. ASSUME NEW s \in Session, Commit(s) \/ CommitUnacknowledged(s)
      PROVE  InHand'
  <2>1. /\ exists' \in SUBSET Item
        /\ access' \in {"granted", "expired", "revoked"}
        /\ epoch' \in Nat
    BY <1>4, EffectType DEF Commit, CommitUnacknowledged, InHand, TypeOK
  <2>2. CASE Commit(s)
    BY <2>1, <2>2 DEF Commit, Goto, TypeOK, InHand, Phases
  <2>3. CASE CommitUnacknowledged(s)
    <3>1. Close(s) /\ op' = op /\ seen' = seen
      BY <2>3 DEF CommitUnacknowledged
    <3> QED BY <2>1, <3>1 DEF Close, Goto, TypeOK, InHand, Phases
  <2> QED BY <1>4, <2>2, <2>3
<1>5. ASSUME NEW s \in Session, SessionLost(s)  PROVE InHand'
  BY <1>5 DEF SessionLost, TypeOK, InHand, dbVars
<1> QED BY <1>0, <1>1, <1>2, <1>3, <1>4, <1>5 DEF Next, Step, Ops

\* The statements of one transaction agree with each other: the epochs only
\* move by the transaction's own commit.
THEOREM TransactionsAreIsolated == Spec => Isolated
<1>1. Init => InHand
  BY DEF Init, TypeOK, InHand, Ops, Phases
<1>2. ASSUME InHand, Next, NEW t \in Session,
             pc[t] \in {"bound", "reading"}, pc'[t] \in {"reading", "sending"},
             epoch' # epoch
      PROVE  pc[t] = "reading" /\ pc'[t] = "sending"
  <2>1. PICK s \in Session : Commit(s) \/ CommitUnacknowledged(s)
    BY <1>2 DEF Next, Step, Expire, Arrive, Lock, LockTimeout, ReadItems, Abort,
                Deliver, SendTimeout, SessionLost, dbVars
  <2>2. pc[s] = "reading" /\ holder = s /\ holder = t
    BY <1>2, <2>1 DEF Commit, CommitUnacknowledged, InHand
  <2>3. CASE Commit(s)
    BY <1>2, <2>2, <2>3 DEF Commit, Goto, InHand, TypeOK
  <2>4. CASE CommitUnacknowledged(s)
    BY <1>2, <2>2, <2>4 DEF CommitUnacknowledged, Close, Goto, InHand, TypeOK
  <2> QED BY <2>1, <2>3, <2>4
<1>3. InHand /\ [Next]_vars =>
        [\A s \in Session :
           (pc[s] \in {"bound", "reading"} /\ pc'[s] \in {"reading", "sending"}) =>
             epoch' = epoch \/ (pc[s] = "reading" /\ pc'[s] = "sending")]_vars
  BY <1>2
<1> QED BY <1>1, <1>3, InHandInductive, PTL DEF Spec, Isolated

-------------------------------------------------------------------------------
(* The barrier implements its contract *)

Sent == [s \in Session |->
           IF pc[s] = "sending" THEN [items |-> items[s], epoch |-> seen[s]] ELSE None]

\* A session has an answer under way exactly while it is sending.
LEMMA SentIsSomething ==
  ASSUME Inductive, NEW s \in Session
  PROVE  (Sent[s] = None) <=> (pc[s] # "sending")
  BY DEF Sent, Inductive, TypeOK

\* Initial states map to initial states of the contract,
LEMMA InitContract == Init => Contract!Init
  BY DEF Init, Contract!Init

\* An answer that ends, or a session that had none.
LEMMA CloseContract ==
  ASSUME Inductive, NEW s \in Session, Close(s), UNCHANGED <<dbVars, seen>>
  PROVE  [Contract!Next]_Contract!vars
<1>1. Sent' = [Sent EXCEPT ![s] = None]
  BY DEF Sent, Close, Goto, Inductive, TypeOK
<1>2. CASE pc[s] = "sending"
  <2>1. Sent[s] # None
    BY <1>2, SentIsSomething
  <2>2. Contract!Finish(s)
    BY <1>1, <2>1 DEF Contract!Finish, Sent, dbVars
  <2> QED BY <2>2 DEF Contract!Next
<1>3. CASE pc[s] # "sending"
  <2>1. Sent' = Sent
    BY <1>1, <1>3 DEF Sent
  <2> QED BY <2>1 DEF Contract!vars, Sent, dbVars
<1> QED BY <1>2, <1>3

\* While one session commits nobody answers: the contract's step is enabled.
LEMMA CommitContract ==
  ASSUME Inductive, NEW s \in Session, pc[s] = "reading", Effect(op[s]),
         \/ Sent' = [Sent EXCEPT ![s] = [items |-> items[s], epoch |-> epoch']]
         \/ Sent' = Sent
  PROVE  [Contract!Next]_Contract!vars
<1>1. \A t \in Session : Sent[t] = None
  BY EffectAlone, SentIsSomething
<1>2. Contract!Idle
  BY <1>1 DEF Contract!Idle, Sent
<1>3. CASE UNCHANGED dbVars
  <2>1. CASE Sent' = Sent
    BY <1>3, <2>1 DEF Contract!vars, Sent, dbVars
  <2>2. CASE Sent' = [Sent EXCEPT ![s] = [items |-> items[s], epoch |-> epoch']]
    <3>1. items[s] \subseteq exists /\ (items[s] # {} => access # "revoked")
      BY DEF Inductive, Fresh
    <3>2. Contract!Read(s)
      BY <1>2, <1>3, <2>2, <3>1 DEF Contract!Read, Contract!Answer, Sent, dbVars
    <3> QED BY <3>2 DEF Contract!Next
  <2> QED BY <2>1, <2>2
<1>4. CASE ~UNCHANGED dbVars
  <2>1. /\ op[s] # "read"
        /\ epoch' = epoch + 1
        /\ \/ \E i \in exists : exists' = exists \ {i} /\ access' = access
           \/ access' \in {"granted", "revoked"} /\ exists' = exists
    BY <1>4 DEF Effect, Readable, dbVars
  <2>2. items[s] = {}
    BY <2>1 DEF Inductive, Fresh
  <2>3. Contract!Answer(s, {}) \/ Sent' = Sent
    BY <2>2 DEF Contract!Answer, Sent
  <2>4. Contract!Change(s)
    BY <1>2, <2>1, <2>3 DEF Contract!Change, Sent
  <2> QED BY <2>4 DEF Contract!Next
<1> QED BY <1>3, <1>4

\* and steps to steps of the contract or stutters.
LEMMA NextContract ==
  ASSUME ~SessionsDie, Inductive, [Next]_vars
  PROVE  [Contract!Next]_Contract!vars
<1>1. CASE UNCHANGED vars
  BY <1>1 DEF vars, dbVars, Contract!vars
<1>2. CASE Expire
  BY <1>2 DEF Expire, Contract!Expire, Contract!Next
<1>3. ASSUME NEW s \in Session, NEW o \in Ops, Arrive(s, o) \/ Lock(s) \/ ReadItems(s)
      PROVE  [Contract!Next]_Contract!vars
  <2>1. Sent' = Sent
    BY <1>3 DEF Sent, Arrive, Lock, ReadItems, Goto, Inductive, TypeOK
  <2> QED BY <1>3, <2>1 DEF Arrive, Lock, ReadItems, Contract!vars, Sent, dbVars
<1>4. ASSUME NEW s \in Session,
             LockTimeout(s) \/ Abort(s) \/ Deliver(s) \/ SendTimeout(s)
      PROVE  [Contract!Next]_Contract!vars
  <2>1. Close(s) /\ UNCHANGED <<dbVars, seen>>
    BY <1>4 DEF LockTimeout, Abort, Deliver, SendTimeout
  <2> QED BY <2>1, CloseContract
<1>5. ASSUME NEW s \in Session, Commit(s)
      PROVE  [Contract!Next]_Contract!vars
  <2>1. Sent' = [Sent EXCEPT ![s] = [items |-> items[s], epoch |-> epoch']]
    BY <1>5 DEF Sent, Commit, Goto, Inductive, TypeOK
  <2>2. pc[s] = "reading" /\ Effect(op[s])
    BY <1>5 DEF Commit
  <2> QED BY <2>1, <2>2, CommitContract
<1>6. ASSUME NEW s \in Session, CommitUnacknowledged(s)
      PROVE  [Contract!Next]_Contract!vars
  <2>1. Sent' = Sent
    BY <1>6 DEF Sent, CommitUnacknowledged, Close, Goto, Inductive, TypeOK
  <2>2. pc[s] = "reading" /\ Effect(op[s])
    BY <1>6 DEF CommitUnacknowledged
  <2> QED BY <2>1, <2>2, CommitContract
<1>7. ASSUME NEW s \in Session, SessionLost(s)
      PROVE  [Contract!Next]_Contract!vars
  BY <1>7 DEF SessionLost
<1> QED
  BY <1>1, <1>2, <1>3, <1>4, <1>5, <1>6, <1>7 DEF Next, Step, Ops

\* Requests behind the lock are as good as atomic, answers included.
THEOREM BarrierImplementsContract ==
  ASSUME ~SessionsDie  PROVE Spec => ContractSpec
<1>1. Inductive /\ [Next]_vars => [Contract!Next]_Contract!vars
  BY NextContract
<1> QED BY <1>1, InitContract, BarrierInductive, PTL DEF Spec, ContractSpec, Contract!Spec
===============================================================================
