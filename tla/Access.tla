-------------------------------- MODULE Access ---------------------------------
(***************************************************************************)
(* The scope-access command (scope_access.py): administrators read and     *)
(* change memberships of one scope, each change under the access epoch     *)
(* its administrator expects.  A command is a process of its own: it       *)
(* connects, takes the tenant's session lock, runs one transaction, prints *)
(* its line while it still holds the lock, and ends.  The connection may   *)
(* fail at every step; when it fails during COMMIT the session behind it   *)
(* commits or rolls back on its own and holds the lock until then.         *)
(* Expiry is part of a setting; that a setting's expiry has passed when it *)
(* is set is one of the refusals Fail stands for.                          *)
(***************************************************************************)
EXTENDS Integers, Outcomes

CONSTANTS
  Administrator,    \* commands, one process each
  Principal,
  Setting,          \* permissions with their expiry
  Provisioned,      \* the memberships that `provision` made
  MaxAccessEpoch    \* MAX_EPOCH, the largest bigint

Membership == Setting \cup {None}

AccessEvent == [epoch : 2..MaxAccessEpoch, principal : Principal, previous : Membership,
                next : Membership, by : Administrator]

ASSUME AccessAssumption ==
  /\ None \notin Setting \cup Administrator \cup AccessEvent
  /\ Provisioned \in [Principal -> Setting \cup {None}]
  /\ MaxAccessEpoch \in Nat \ {0}

VARIABLES
  members, accessEpoch, accessEvents,  \* scope_member, tenant, scope_access_event
  lockedBy,                            \* the command whose session has the lock
  adminPhase,
  command,
  change,      \* commit_attempted: the event its COMMIT would add, or None
  adminTold    \* how the command ended, or None

accessVars == <<members, accessEpoch, accessEvents, lockedBy, adminPhase, command,
                change, adminTold>>

AdminPhases == {"idle", "waiting", "deciding", "committing", "limbo", "printing", "ended"}

Commands ==
  [operation : {"get"}, principal : Principal, expected : {None}, setting : {None}]
    \cup [operation : {"set"}, principal : Principal, expected : 1..MaxAccessEpoch,
          setting : Setting]
    \cup [operation : {"revoke"}, principal : Principal, expected : 1..MaxAccessEpoch,
          setting : {None}]

\* The types of the command's state and of the tables it writes.
AccessTypeOK ==
  /\ members \in [Principal -> Membership]
  /\ accessEpoch \in 1..MaxAccessEpoch
  /\ accessEvents \subseteq AccessEvent
  /\ lockedBy \in Administrator \cup {None}
  /\ adminPhase \in [Administrator -> AdminPhases]
  /\ command \in [Administrator -> Commands \cup {None}]
  /\ change \in [Administrator -> AccessEvent \cup {None}]
  /\ adminTold \in [Administrator -> Verdicts \cup {None}]

AccessInit ==
  /\ members = Provisioned
  /\ accessEpoch = 1
  /\ accessEvents = {}
  /\ lockedBy = None
  /\ adminPhase = [a \in Administrator |-> "idle"]
  /\ command = [a \in Administrator |-> None]
  /\ change = [a \in Administrator |-> None]
  /\ adminTold = [a \in Administrator |-> None]

accessTables == <<members, accessEpoch, accessEvents>>

-------------------------------------------------------------------------------
Changes(c) ==
  CASE c.operation = "set"    -> members[c.principal] # c.setting
    [] c.operation = "revoke" -> members[c.principal] # None
    [] OTHER                  -> FALSE

ConflictingNever(c) == FALSE                          \* mutant: the epoch is not compared

Conflicting(c) == c.operation # "get" /\ accessEpoch # c.expected

\* The process ends with what it printed (None: it was killed) and its session
\* with it, which gives the lock back.
EndCommand(a, told) ==
  /\ adminPhase' = [adminPhase EXCEPT ![a] = "ended"]
  /\ adminTold' = [adminTold EXCEPT ![a] = told]
  /\ lockedBy' = IF lockedBy = a THEN None ELSE lockedBy
  /\ UNCHANGED <<accessTables, command, change>>

Ask(a, c) ==
  /\ adminPhase[a] = "idle"
  /\ adminPhase' = [adminPhase EXCEPT ![a] = "waiting"]
  /\ command' = [command EXCEPT ![a] = c]
  /\ UNCHANGED <<accessTables, lockedBy, change, adminTold>>

TakeLock(a) ==
  /\ adminPhase[a] = "waiting"
  /\ lockedBy = None
  /\ lockedBy' = a
  /\ adminPhase' = [adminPhase EXCEPT ![a] = "deciding"]
  /\ UNCHANGED <<accessTables, command, change, adminTold>>

\* Not admitted, out of patience for the lock, an unknown scope or principal, an
\* expiry that has passed, a statement that failed, or a killed process: whatever
\* the transaction had written rolls back.
Fail(a, told) ==
  /\ adminPhase[a] \in {"waiting", "deciding"}
  /\ told \in {"refused", None}
  /\ EndCommand(a, told)

\* access_epoch_conflict and access_epoch_exhausted.
Refuse(a) ==
  LET c == command[a] IN
  /\ adminPhase[a] = "deciding"
  /\ Conflicting(c) \/ (Changes(c) /\ accessEpoch = MaxAccessEpoch)
  /\ EndCommand(a, "refused")

\* The transaction has run all its statements and turns to COMMIT.
Decide(a) ==
  LET c == command[a] IN
  /\ adminPhase[a] = "deciding"
  /\ ~Conflicting(c)
  /\ adminPhase' = [adminPhase EXCEPT ![a] = "committing"]
  /\ IF Changes(c)
       THEN /\ accessEpoch < MaxAccessEpoch
            /\ change' = [change EXCEPT ![a] =
                 [epoch |-> accessEpoch + 1, principal |-> c.principal,
                  previous |-> members[c.principal], next |-> c.setting, by |-> a]]
       ELSE UNCHANGED change
  /\ UNCHANGED <<accessTables, lockedBy, command, adminTold>>

Publish(event) ==
  IF event = None
    THEN UNCHANGED accessTables
    ELSE /\ members' = [members EXCEPT ![event.principal] = event.next]
         /\ accessEpoch' = event.epoch
         /\ accessEvents' = accessEvents \cup {event}

CommitAccess(a) ==
  /\ adminPhase[a] = "committing"
  /\ Publish(change[a])
  /\ adminPhase' = [adminPhase EXCEPT ![a] = "printing"]
  /\ UNCHANGED <<lockedBy, command, change, adminTold>>

\* The error of a connection that fails during COMMIT.
Lost(a) == IF change[a] = None THEN "refused" ELSE "unknown"

\* The connection fails during COMMIT, or the process is killed: nobody knows
\* whether PostgreSQL got the message.
LoseCommit(a, told) ==
  /\ adminPhase[a] = "committing"
  /\ told \in {Lost(a), None}
  /\ adminPhase' = [adminPhase EXCEPT ![a] = "limbo"]
  /\ adminTold' = [adminTold EXCEPT ![a] = told]
  /\ UNCHANGED <<accessTables, lockedBy, command, change>>

\* The orphaned session commits after all, or finds its client gone.
SettleOrphan(a) ==
  /\ adminPhase[a] = "limbo"
  /\ Publish(change[a]) \/ UNCHANGED accessTables
  /\ adminPhase' = [adminPhase EXCEPT ![a] = "ended"]
  /\ lockedBy' = None
  /\ UNCHANGED <<command, change, adminTold>>

\* The line is printed, or the process dies before it.
PrintResult(a, told) ==
  /\ adminPhase[a] = "printing"
  /\ told \in {IF change[a] = None THEN "unchanged" ELSE "applied", None}
  /\ EndCommand(a, told)

AccessNext == \E a \in Administrator :
  \/ \E c \in Commands : Ask(a, c)
  \/ TakeLock(a)
  \/ Refuse(a)
  \/ Decide(a)
  \/ CommitAccess(a)
  \/ SettleOrphan(a)
  \/ \E told \in Verdicts \cup {None} :
       Fail(a, told) \/ LoseCommit(a, told) \/ PrintResult(a, told)

AccessSpec == AccessInit /\ [][AccessNext]_accessVars

-------------------------------------------------------------------------------
\* The membership of principal p after the events before epoch n.
Follows(p, n, m) ==
  LET past == {e \in accessEvents : e.principal = p /\ e.epoch < n} IN
  \/ past = {} /\ m = Provisioned[p]
  \/ \E e \in past : m = e.next /\ \A f \in past : f.epoch <= e.epoch

\* scope_access, scope_access_event: the log accounts for every membership.  It
\* has one event per epoch, each made by a command that expected the epoch before
\* it, each starting from what the last event of its principal left, and the
\* membership of now is what the last one left: no change of two administrators
\* who looked at the same state overwrites the other's, and no commit that nobody
\* saw is missing from the log.
LogIsComplete ==
  /\ {e.epoch : e \in accessEvents} = 2..accessEpoch
  /\ \A e \in accessEvents :
       /\ command[e.by].expected = e.epoch - 1
       /\ Follows(e.principal, e.epoch, e.previous)
       /\ e.previous # e.next
       /\ \A f \in accessEvents : f.epoch = e.epoch \/ f.by = e.by => f = e
  /\ \A p \in Principal : Follows(p, accessEpoch + 1, members[p])

\* ScopeAccessError.outcome_unknown: what the command printed is true.  A result
\* with changed means the event is there, an error without outcome_unknown means
\* that it is not and never will be, and outcome_unknown is only said of a command
\* that sent the COMMIT of a change.
AdministratorsAreToldTheTruth == \A a \in Administrator :
  /\ Honest(adminTold[a], \E e \in accessEvents : e.by = a,
            adminPhase[a] = "limbo" /\ change[a] # None)
  /\ adminTold[a] = "unknown" => change[a] # None

\* scope_access.main: every membership, every event and every printed line agree.
AccessIsAccounted == LogIsComplete /\ AdministratorsAreToldTheTruth
===============================================================================
