----------------------------- MODULE TenantBarrier -----------------------------
(***************************************************************************)
(* The session advisory lock of one tenant.  An API request                *)
(* (api.TransactionBoundary), a worker transaction (worker.run_once) and   *)
(* the scope-access command (scope_access.py) each open a connection, take *)
(* the lock, run one transaction, commit, deliver the answer, and close    *)
(* the connection, which is what gives the lock back.  The transaction     *)
(* runs at READ COMMITTED: each statement sees what is committed when it   *)
(* starts, so only the lock makes its reads agree with each other.         *)
(***************************************************************************)
EXTENDS Integers

CONSTANTS
  Session,      \* connections, each used for one request after another
  Item,         \* episodes, assertions, ... whose content answers carry
  None,
  SessionsDie,  \* whether PostgreSQL may end a session whose answer is under way
  MaxEpoch      \* bound on the number of purges and access changes

ASSUME BarrierAssumption ==
  /\ None \notin Session
  /\ None \notin [items : SUBSET Item, epoch : Nat]
  /\ SessionsDie \in BOOLEAN
  /\ MaxEpoch \in Nat

VARIABLES
  exists, access, epoch,   \* the committed state of the tenant
  holder,                  \* the session that holds the lock, or None
  pc,
  op,                      \* what the session was opened for
  items,                   \* the content its statements returned
  seen                     \* the epochs a later statement returned

dbVars   == <<exists, access, epoch>>
vars     == <<dbVars, holder, pc, op, items, seen>>

Ops    == {"read", "forget", "access"}
Phases == {"idle", "waiting", "bound", "reading", "sending"}

\* API requests and worker transactions; "access" is the command.
Served(s) == op[s] # "access"

TypeOK ==
  /\ exists \in SUBSET Item
  /\ access \in {"granted", "expired", "revoked"}
  /\ epoch \in Nat
  /\ holder \in Session \cup {None}
  /\ pc \in [Session -> Phases]
  /\ op \in [Session -> Ops]
  /\ items \in [Session -> SUBSET Item]
  /\ seen \in [Session -> Nat]
  /\ \A s \in Session : items[s] # {} => pc[s] \in {"reading", "sending"}

Init ==
  /\ exists = Item
  /\ access = "granted"
  /\ epoch = 0
  /\ holder = None
  /\ pc = [s \in Session |-> "idle"]
  /\ op = [s \in Session |-> "read"]
  /\ items = [s \in Session |-> {}]
  /\ seen = [s \in Session |-> 0]

Readable == IF access = "granted" THEN exists ELSE {}

Goto(s, phase) == pc' = [pc EXCEPT ![s] = phase]

\* The connection closes: an open transaction rolls back, the lock is free.
Close(s) ==
  /\ Goto(s, "idle")
  /\ items' = [items EXCEPT ![s] = {}]
  /\ holder' = IF holder = s THEN None ELSE holder

-------------------------------------------------------------------------------

\* Connect, look the subject up, ask for the lock.
Arrive(s, o) ==
  /\ pc[s] = "idle"
  /\ Goto(s, "waiting")
  /\ op' = [op EXCEPT ![s] = o]
  /\ UNCHANGED <<dbVars, holder, items, seen>>

LockAlways(s) ==                                        \* mutant: no lock is taken
  /\ pc[s] = "waiting"
  /\ Goto(s, "bound")
  /\ holder' = s
  /\ UNCHANGED <<dbVars, op, items, seen>>

\* pg_advisory_lock returns; BEGIN and bind_identity.
Lock(s) ==
  /\ pc[s] = "waiting"
  /\ holder = None
  /\ Goto(s, "bound")
  /\ holder' = s
  /\ UNCHANGED <<dbVars, op, items, seen>>

LockTimeoutNever(s) == FALSE                   \* mutant: the wait has no limit

\* lock_timeout or statement_timeout ends the wait: 503.
LockTimeout(s) ==
  /\ pc[s] = "waiting"
  /\ Close(s)
  /\ UNCHANGED <<dbVars, op, seen>>

\* The statements that return content.
ReadItems(s) ==
  /\ pc[s] = "bound"
  /\ Goto(s, "reading")
  /\ items' = [items EXCEPT ![s] = IF op[s] = "read" THEN Readable ELSE {}]
  /\ UNCHANGED <<dbVars, holder, op, seen>>

\* What the transaction changes: nothing (a read, a replay, a command that
\* finds nothing to do), a purge, or a membership.
Effect(o) ==
  \/ UNCHANGED dbVars
  \/ /\ epoch < MaxEpoch
     /\ epoch' = epoch + 1
     /\ \/ /\ o = "forget"
           /\ \E i \in Readable : exists' = exists \ {i}
           /\ UNCHANGED access
        \/ /\ o = "access"
           /\ \/ access' = "granted"
              \/ access # "revoked" /\ access' = "revoked"
           /\ UNCHANGED exists

CommitAndClose(s) ==       \* mutant: the lock is given back at commit (xact lock)
  /\ pc[s] = "reading"
  /\ Effect(op[s])
  /\ seen' = [seen EXCEPT ![s] = epoch']
  /\ Goto(s, "sending")
  /\ holder' = None
  /\ UNCHANGED <<op, items>>

\* The last statements and the commit.  The session lock outlives the commit.
Commit(s) ==
  /\ pc[s] = "reading"
  /\ Effect(op[s])
  /\ seen' = [seen EXCEPT ![s] = epoch']
  /\ Goto(s, "sending")
  /\ UNCHANGED <<holder, op, items>>

\* The transaction commits but the connection is lost before the
\* acknowledgement: the client gets a 503 and no content.
CommitUnacknowledged(s) ==
  /\ pc[s] = "reading"
  /\ Effect(op[s])
  /\ Close(s)
  /\ UNCHANGED <<op, seen>>

\* An error answer, a statement timeout or the death of the process before the
\* commit: rollback.
Abort(s) ==
  /\ pc[s] \in {"bound", "reading"}
  /\ Close(s)
  /\ UNCHANGED <<dbVars, op, seen>>

\* The last buffered message was sent; or the command's line was flushed.
Deliver(s) ==
  /\ pc[s] = "sending"
  /\ Close(s)
  /\ UNCHANGED <<dbVars, op, seen>>

\* asyncio.timeout(10) around the sends.  The command has no such limit.
SendTimeout(s) ==
  /\ pc[s] = "sending"
  /\ Served(s)
  /\ Close(s)
  /\ UNCHANGED <<dbVars, op, seen>>

\* PostgreSQL ends the session (a failover, pg_terminate_backend, a broken
\* connection) while the answer is being sent.  The sender does not use the
\* connection again before it closes it, and so goes on.
SessionLost(s) ==
  /\ SessionsDie
  /\ pc[s] = "sending"
  /\ holder = s
  /\ holder' = None
  /\ UNCHANGED <<dbVars, pc, op, items, seen>>

\* expires_at of the membership passes.
Expire ==
  /\ access = "granted"
  /\ access' = "expired"
  /\ UNCHANGED <<exists, epoch, holder, pc, op, items, seen>>

Step(s) ==
  \/ \E o \in Ops : Arrive(s, o)
  \/ Lock(s) \/ LockTimeout(s) \/ ReadItems(s) \/ Commit(s)
  \/ CommitUnacknowledged(s) \/ Abort(s) \/ Deliver(s) \/ SendTimeout(s)
  \/ SessionLost(s)

Next == Expire \/ \E s \in Session : Step(s)

Spec == Init /\ [][Next]_vars

(***************************************************************************)
(* Fairness.  statement_timeout and lock_timeout end every statement, the  *)
(* sends end within ten seconds.  Nothing is assumed of clients, nor of    *)
(* whoever reads the output of the scope-access command.                   *)
(***************************************************************************)
FairSpec ==
  /\ Spec
  /\ \A s \in Session :
       /\ WF_vars(Lock(s) \/ LockTimeout(s))
       /\ WF_vars(ReadItems(s))
       /\ WF_vars(Commit(s) \/ CommitUnacknowledged(s) \/ Abort(s))
       /\ WF_vars(SendTimeout(s))

-------------------------------------------------------------------------------
(* Properties *)

\* From its lock to its close a session that keeps its connection is alone.
Alone ==
  \A s \in Session : pc[s] \in {"bound", "reading", "sending"} <=> holder = s

\* What a transaction has read is still there, and still allowed; purges and
\* commands answer with no content at all.
Fresh ==
  \A s \in Session : pc[s] \in {"reading", "sending"} =>
    /\ op[s] # "read" => items[s] = {}
    /\ items[s] \subseteq exists
    /\ items[s] # {} => access # "revoked"

\* The inductive invariant behind the theorems, when sessions do not die.
Inductive == TypeOK /\ Alone /\ Fresh

\* No answer under way carries an item that was purged since, or content of a
\* scope that was revoked since (docs/STATUS.md, the drain guarantee).
NoStaleDelivery ==
  \A s \in Session : pc[s] = "sending" =>
    /\ items[s] \subseteq exists
    /\ items[s] # {} => access # "revoked"

\* What an answer carries and the epochs that come with it belong together:
\* nobody commits a change between the statements of a transaction.
Isolated ==
  [][\A s \in Session :
       (pc[s] \in {"bound", "reading"} /\ pc'[s] \in {"reading", "sending"}) =>
         epoch' = epoch \/ (pc[s] = "reading" /\ pc'[s] = "sending")]_vars

\* Every request ends, with an answer or a 503, although a command whose output
\* nobody reads holds the lock for ever.
EveryRequestEnds ==
  \A s \in Session : (pc[s] # "idle" /\ Served(s)) ~> pc[s] = "idle"

Contract == INSTANCE BarrierContract WITH
  answer <- [s \in Session |->
               IF pc[s] = "sending" THEN [items |-> items[s], epoch |-> seen[s]]
                                    ELSE None]

ContractSpec == Contract!Spec
===============================================================================
