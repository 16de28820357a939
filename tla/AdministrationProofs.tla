--------------------------- MODULE AdministrationProofs ---------------------------
(***************************************************************************)
(* The commands of an administrator, for any number of administrators,     *)
(* principals, episodes, processes and versions.                           *)
(*                                                                         *)
(* The scope-access command: the log accounts for every membership, and    *)
(* what a command printed is true.  The argument: the change a command has *)
(* decided on follows the tables of now for as long as the command's       *)
(* session has the lock, and every event is the change of the command that *)
(* made it.                                                                *)
(*                                                                         *)
(* Migrations and reindexing: the lexical rows are those of the episodes   *)
(* there are, whatever is observed, forgotten, migrated or fails           *)
(* meanwhile.  The argument: from the moment the cursor is opened every    *)
(* episode is on it or has a row that DELETE did not take, and who may     *)
(* write while an older schema is migrated has been stopped.               *)
(***************************************************************************)
EXTENDS Access, Maintenance, FiniteSetTheorems, TLAPS

-------------------------------------------------------------------------------
(* Scope access *)

USE OutcomesAssumption, AccessAssumption

Locking == {"deciding", "committing", "limbo", "printing"}

\* The lock is held from its answer to the end of the session.
AccessLockHeld == \A a \in Administrator : lockedBy = a <=> adminPhase[a] \in Locking

\* A command under way has been asked for.
CommandsStand == \A a \in Administrator :
  adminPhase[a] # "idle" => command[a] \in Commands

\* A change is the next event until it is in the log.
ChangesFollow == \A a \in Administrator : change[a] # None =>
  /\ adminPhase[a] \in {"committing", "limbo", "printing", "ended"}
  /\ change[a].by = a
  /\ command[a].expected = change[a].epoch - 1
  /\ change[a].previous # change[a].next
  /\ adminPhase[a] \in {"committing", "limbo"} =>
       /\ change[a].epoch = accessEpoch + 1
       /\ change[a].previous = members[change[a].principal]
  /\ adminPhase[a] = "printing" => change[a] \in accessEvents

\* An event is the change of its command, which has committed.
EventsAreChanges == \A e \in accessEvents :
  /\ change[e.by] = e
  /\ adminPhase[e.by] \in {"printing", "ended"}

\* Nothing is printed before the outcome of the COMMIT is known or lost.
ToldAtTheEnd == \A a \in Administrator :
  adminTold[a] # None => adminPhase[a] \in {"limbo", "ended"}

AccessSound ==
  /\ AccessTypeOK
  /\ AccessLockHeld
  /\ CommandsStand
  /\ ChangesFollow
  /\ EventsAreChanges
  /\ ToldAtTheEnd
  /\ AccessIsAccounted


\* A fresh tenant, before any command.
LEMMA AccessInitSound == AccessInit => AccessSound
<1> SUFFICES ASSUME AccessInit PROVE AccessSound
  OBVIOUS
<1>1. AccessTypeOK
  BY DEF AccessInit, AccessTypeOK, AdminPhases, Membership
<1>2. AccessLockHeld /\ CommandsStand /\ ChangesFollow /\ EventsAreChanges /\ ToldAtTheEnd
  BY DEF AccessInit, AccessLockHeld, CommandsStand, ChangesFollow, EventsAreChanges,
     ToldAtTheEnd, Locking
<1>3. {e.epoch : e \in accessEvents} = 2..accessEpoch
  BY DEF AccessInit
<1>4. \A p \in Principal : Follows(p, accessEpoch + 1, members[p])
  BY DEF AccessInit, Follows
<1>5. LogIsComplete
  BY <1>3, <1>4 DEF AccessInit, LogIsComplete
<1>6. AdministratorsAreToldTheTruth
  BY DEF AccessInit, AdministratorsAreToldTheTruth, Honest, Verdicts
<1> QED
  BY <1>1, <1>2, <1>5, <1>6 DEF AccessSound, AccessIsAccounted

\* A step that touches neither the tables nor the commands keeps the log complete.
LEMMA LogUnchanged ==
  ASSUME LogIsComplete, UNCHANGED <<accessTables, command>>
  PROVE  LogIsComplete'
  BY DEF LogIsComplete, Follows, accessTables

\* The events are of epochs up to the tenant's, and of their types.
LEMMA EventsAreEarlier ==
  ASSUME AccessTypeOK, LogIsComplete, NEW e \in accessEvents
  PROVE  e \in AccessEvent /\ e.epoch \in 2..accessEpoch /\ e.epoch \in Nat
         /\ accessEpoch \in Nat
<1>1. e.epoch \in {f.epoch : f \in accessEvents}
  OBVIOUS
<1> QED
  BY <1>1 DEF AccessTypeOK, LogIsComplete, AccessEvent

\* The change of a command whose COMMIT is under way continues the log.
LEMMA PublishCompletes ==
  ASSUME AccessSound, NEW a \in Administrator, adminPhase[a] \in {"committing", "limbo"},
         change[a] # None, Publish(change[a]), UNCHANGED command
  PROVE  /\ LogIsComplete'
         /\ members' \in [Principal -> Membership]
         /\ accessEpoch' \in 1..MaxAccessEpoch
         /\ accessEvents' \subseteq AccessEvent
<1> DEFINE n == change[a]
<1>1. /\ n \in AccessEvent
      /\ n.by = a /\ n.epoch = accessEpoch + 1 /\ n.previous = members[n.principal]
      /\ n.previous # n.next /\ command[n.by].expected = n.epoch - 1
  BY DEF AccessSound, ChangesFollow, AccessTypeOK
<1>2. /\ members' = [members EXCEPT ![n.principal] = n.next]
      /\ accessEpoch' = n.epoch
      /\ accessEvents' = accessEvents \cup {n}
  BY DEF Publish
<1>3. accessEpoch \in 1..MaxAccessEpoch /\ members \in [Principal -> Membership]
  BY DEF AccessSound, AccessTypeOK
<1>4. AccessTypeOK /\ LogIsComplete
  BY DEF AccessSound, AccessIsAccounted
<1>5. \A e \in accessEvents : e \in AccessEvent /\ e.epoch \in Nat /\ e.epoch <= accessEpoch
  BY <1>3, <1>4, EventsAreEarlier
<1>6. \A e \in accessEvents : e.by # a
  BY DEF AccessSound, EventsAreChanges
<1>7. /\ members' \in [Principal -> Membership]
      /\ accessEpoch' \in 1..MaxAccessEpoch
      /\ accessEvents' \subseteq AccessEvent
  BY <1>1, <1>2, <1>3, <1>4 DEF AccessTypeOK, AccessEvent
<1>8. {e.epoch : e \in accessEvents'} = 2..accessEpoch'
  <2>1. {e.epoch : e \in accessEvents'} = {e.epoch : e \in accessEvents} \cup {n.epoch}
    BY <1>2
  <2>2. {e.epoch : e \in accessEvents} = 2..accessEpoch
    BY <1>4 DEF LogIsComplete
  <2>3. 2..(accessEpoch + 1) = 2..accessEpoch \cup {accessEpoch + 1}
    BY <1>3
  <2> QED
    BY <1>1, <1>2, <2>1, <2>2, <2>3
<1>9. ASSUME NEW p \in Principal, NEW m, NEW k \in Nat, k <= accessEpoch + 1, Follows(p, k, m)
      PROVE  Follows(p, k, m)'
  <2>1. {e \in accessEvents' : e.principal = p /\ e.epoch < k}
          = {e \in accessEvents : e.principal = p /\ e.epoch < k}
    BY <1>1, <1>2, <1>3, <1>9
  <2> QED
    BY <1>9, <2>1 DEF Follows
<1>10. ASSUME NEW e \in accessEvents'
       PROVE  /\ command[e.by].expected = e.epoch - 1
              /\ Follows(e.principal, e.epoch, e.previous)'
              /\ e.previous # e.next
              /\ \A f \in accessEvents' : f.epoch = e.epoch \/ f.by = e.by => f = e
  <2>1. CASE e = n
    <3>1. Follows(n.principal, accessEpoch + 1, n.previous)
      BY <1>1, <1>4 DEF LogIsComplete, AccessEvent
    <3>2. Follows(e.principal, e.epoch, e.previous)'
      BY <1>1, <1>3, <1>9, <2>1, <3>1 DEF AccessEvent
    <3> QED
      BY <1>1, <1>2, <1>3, <1>5, <1>6, <2>1, <3>2
  <2>2. CASE e \in accessEvents
    <3>1. Follows(e.principal, e.epoch, e.previous)
      BY <1>4, <2>2 DEF LogIsComplete
    <3>2. Follows(e.principal, e.epoch, e.previous)'
      BY <1>3, <1>5, <1>9, <2>2, <3>1 DEF AccessEvent
    <3> QED
      BY <1>1, <1>2, <1>3, <1>4, <1>5, <1>6, <2>2, <3>2 DEF LogIsComplete
  <2> QED
    BY <1>2, <1>10, <2>1, <2>2
<1>11. ASSUME NEW p \in Principal
       PROVE  Follows(p, accessEpoch + 1, members[p])'
  <2>1. CASE p = n.principal
    <3>1. members'[p] = n.next
      BY <1>1, <1>2, <1>3, <2>1 DEF AccessEvent
    <3>2. n \in {e \in accessEvents' : e.principal = p /\ e.epoch < accessEpoch' + 1}
      BY <1>1, <1>2, <1>3, <2>1
    <3>3. \A f \in accessEvents' : f.epoch <= n.epoch
      BY <1>1, <1>2, <1>3, <1>5
    <3> QED
      BY <3>1, <3>2, <3>3 DEF Follows
  <2>2. CASE p # n.principal
    <3>1. members'[p] = members[p]
      BY <1>2, <1>3, <2>2
    <3>2. {e \in accessEvents' : e.principal = p /\ e.epoch < accessEpoch' + 1}
            = {e \in accessEvents : e.principal = p /\ e.epoch < accessEpoch + 1}
      BY <1>1, <1>2, <1>3, <1>5, <2>2
    <3>3. Follows(p, accessEpoch + 1, members[p])
      BY <1>4 DEF LogIsComplete
    <3> QED
      BY <3>1, <3>2, <3>3 DEF Follows
  <2> QED
    BY <2>1, <2>2
<1> QED
  BY <1>7, <1>8, <1>10, <1>11 DEF LogIsComplete

\* A command that ends before its COMMIT, or after a COMMIT that was acknowledged,
\* leaves everything sound when what it prints is true.
LEMMA EndCommandSound ==
  ASSUME AccessSound, NEW a \in Administrator, NEW told, EndCommand(a, told),
         adminPhase[a] \in {"waiting", "deciding", "printing"},
         told \in {"applied", "unchanged", "refused", None},
         told = "applied" => change[a] # None /\ adminPhase[a] = "printing",
         told \in {"unchanged", "refused"} => change[a] = None
  PROVE  AccessSound'
<1>1. AccessTypeOK'
  BY DEF AccessSound, AccessTypeOK, EndCommand, accessTables, Verdicts, AdminPhases
<1>2. AccessLockHeld'
  BY DEF AccessSound, AccessTypeOK, AccessLockHeld, EndCommand, Locking
<1>3. CommandsStand' /\ ToldAtTheEnd'
  BY DEF AccessSound, AccessTypeOK, CommandsStand, ToldAtTheEnd, EndCommand
<1>4. ChangesFollow'
  BY DEF AccessSound, AccessTypeOK, ChangesFollow, EndCommand, accessTables
<1>5. EventsAreChanges'
  BY DEF AccessSound, AccessTypeOK, EventsAreChanges, EndCommand, accessTables
<1>6. LogIsComplete'
  BY LogUnchanged DEF AccessSound, AccessIsAccounted, EndCommand, accessTables
<1>7. AdministratorsAreToldTheTruth'
  <2> SUFFICES ASSUME NEW b \in Administrator
               PROVE  /\ Honest(adminTold[b], \E e \in accessEvents : e.by = b,
                                adminPhase[b] = "limbo" /\ change[b] # None)'
                      /\ (adminTold[b] = "unknown" => change[b] # None)'
    BY DEF AdministratorsAreToldTheTruth
  <2>1. CASE b # a
    BY <2>1 DEF AccessSound, AccessTypeOK, AccessIsAccounted, AdministratorsAreToldTheTruth,
       Honest, EndCommand, accessTables
  <2>2. CASE b = a
    <3>1. adminTold'[b] = told /\ adminPhase'[b] = "ended" /\ change' = change
          /\ accessEvents' = accessEvents
      BY <2>2 DEF AccessSound, AccessTypeOK, EndCommand, accessTables
    <3>2. told = "applied" => \E e \in accessEvents : e.by = a
      BY DEF AccessSound, ChangesFollow
    <3>3. change[a] = None => \A e \in accessEvents : e.by # a
      BY DEF AccessSound, AccessTypeOK, EventsAreChanges
    <3> QED
      BY <2>2, <3>1, <3>2, <3>3 DEF Honest, Verdicts
  <2> QED
    BY <2>1, <2>2
<1> QED
  BY <1>1, <1>2, <1>3, <1>4, <1>5, <1>6, <1>7 DEF AccessSound, AccessIsAccounted

\* What is said of the administrators stands while nothing is said or published.
LEMMA NothingSaid ==
  ASSUME AccessSound, UNCHANGED <<accessEvents, adminTold>>, NEW a \in Administrator,
         \A b \in Administrator \ {a} : change'[b] = change[b] /\ adminPhase'[b] = adminPhase[b],
         adminTold[a] = None
  PROVE  AdministratorsAreToldTheTruth'
  BY DEF AccessSound, AccessIsAccounted, AdministratorsAreToldTheTruth, Honest, Verdicts

\* A step of a command that keeps its change, and commits nothing, may take the lock.
LEMMA MoveSound ==
  ASSUME AccessSound, NEW a \in Administrator, NEW phase \in {"waiting", "deciding"},
         adminPhase[a] \in {"idle", "waiting"}, adminPhase' = [adminPhase EXCEPT ![a] = phase],
         UNCHANGED <<accessTables, change, adminTold>>,
         \A b \in Administrator \ {a} : command'[b] = command[b],
         command' \in [Administrator -> Commands \cup {None}], command'[a] \in Commands,
         lockedBy' \in Administrator \cup {None},
         \A b \in Administrator : lockedBy' = b <=> adminPhase'[b] \in Locking
  PROVE  AccessSound'
<1>1. AccessTypeOK'
  BY DEF AccessSound, AccessTypeOK, AdminPhases, accessTables
<1>2. AccessLockHeld' /\ CommandsStand' /\ ToldAtTheEnd'
  BY DEF AccessSound, AccessTypeOK, AccessLockHeld, CommandsStand, ToldAtTheEnd, Locking
<1>3. change[a] = None /\ \A e \in accessEvents : e.by # a
  BY DEF AccessSound, AccessTypeOK, ChangesFollow, EventsAreChanges
<1>4. ChangesFollow'
  BY <1>3 DEF AccessSound, AccessTypeOK, ChangesFollow, accessTables
<1>5. \A e \in accessEvents : e.by \in Administrator \ {a}
  BY <1>3 DEF AccessSound, AccessTypeOK, AccessEvent
<1>6. EventsAreChanges'
  BY <1>5 DEF AccessSound, AccessTypeOK, EventsAreChanges, accessTables
<1>7. LogIsComplete'
  BY <1>5 DEF AccessSound, AccessIsAccounted, LogIsComplete, Follows, accessTables
<1>8. adminTold[a] = None
  BY DEF AccessSound, ToldAtTheEnd
<1>9. AdministratorsAreToldTheTruth'
  BY <1>8, NothingSaid DEF AccessSound, AccessTypeOK, accessTables
<1> QED
  BY <1>1, <1>2, <1>4, <1>6, <1>7, <1>9 DEF AccessSound, AccessIsAccounted

\* The decision of a transaction, while its session has the lock.
LEMMA DecideSound ==
  ASSUME AccessSound, NEW a \in Administrator, Decide(a)
  PROVE  AccessSound'
<1> DEFINE c == command[a]
<1>1. /\ c \in Commands /\ adminPhase[a] = "deciding" /\ change[a] = None
      /\ adminTold[a] = None
      /\ adminPhase' = [adminPhase EXCEPT ![a] = "committing"]
      /\ UNCHANGED <<members, accessEpoch, accessEvents, lockedBy, command, adminTold>>
  BY DEF Decide, AccessSound, CommandsStand, ChangesFollow, ToldAtTheEnd, accessTables
<1>2. CASE Changes(c)
  <2>1. /\ accessEpoch < MaxAccessEpoch
        /\ change' = [change EXCEPT ![a] =
             [epoch |-> accessEpoch + 1, principal |-> c.principal,
              previous |-> members[c.principal], next |-> c.setting, by |-> a]]
    BY <1>2 DEF Decide
  <2>2. /\ c.operation \in {"set", "revoke"} /\ c.principal \in Principal
        /\ c.setting \in Membership /\ members[c.principal] # c.setting
    BY <1>1, <1>2 DEF Changes, Commands, Membership
  <2>3. c.expected = accessEpoch
    BY <1>1, <2>2 DEF Decide, Conflicting
  <2>4. change'[a] \in AccessEvent
    BY <2>1, <2>2 DEF AccessSound, AccessTypeOK, AccessEvent
  <2>5. AccessTypeOK'
    BY <1>1, <2>1, <2>4 DEF AccessSound, AccessTypeOK, AdminPhases
  <2>6. /\ change'[a].by = a /\ change'[a].epoch = accessEpoch + 1
        /\ change'[a].previous = members[c.principal] /\ change'[a].principal = c.principal
        /\ change'[a].next = c.setting
    BY <2>1 DEF AccessSound, AccessTypeOK
  <2>7. command[a].expected = change'[a].epoch - 1
    BY <2>3, <2>6 DEF AccessSound, AccessTypeOK
  <2>8. ChangesFollow'
    <3> SUFFICES ASSUME NEW b \in Administrator, change'[b] # None
                 PROVE  ( /\ adminPhase[b] \in {"committing", "limbo", "printing", "ended"}
                          /\ change[b].by = b
                          /\ command[b].expected = change[b].epoch - 1
                          /\ change[b].previous # change[b].next
                          /\ adminPhase[b] \in {"committing", "limbo"} =>
                               /\ change[b].epoch = accessEpoch + 1
                               /\ change[b].previous = members[change[b].principal]
                          /\ adminPhase[b] = "printing" => change[b] \in accessEvents )'
      BY DEF ChangesFollow
    <3>1. CASE b = a
      BY <1>1, <2>2, <2>6, <2>7, <3>1 DEF AccessSound, AccessTypeOK
    <3>2. CASE b # a
      BY <1>1, <2>1, <3>2 DEF AccessSound, AccessTypeOK, ChangesFollow
    <3> QED
      BY <3>1, <3>2
  <2> QED
    <3>1. AccessLockHeld' /\ CommandsStand' /\ ToldAtTheEnd'
      BY <1>1 DEF AccessSound, AccessTypeOK, AccessLockHeld, CommandsStand, ToldAtTheEnd, Locking
    <3>2. \A e \in accessEvents : e.by # a
      BY <1>1 DEF AccessSound, EventsAreChanges
    <3>3. EventsAreChanges'
      BY <1>1, <2>1, <3>2 DEF AccessSound, AccessTypeOK, EventsAreChanges
    <3>4. LogIsComplete'
      BY <1>1, LogUnchanged DEF AccessSound, AccessIsAccounted, accessTables
    <3>5. AdministratorsAreToldTheTruth'
      BY <1>1, <2>1, NothingSaid DEF AccessSound, AccessTypeOK
    <3> QED
      BY <2>5, <2>8, <3>1, <3>3, <3>4, <3>5 DEF AccessSound, AccessIsAccounted
<1>3. CASE ~Changes(c)
  <2>1. UNCHANGED change
    BY <1>3 DEF Decide
  <2>2. AccessTypeOK' /\ AccessLockHeld' /\ CommandsStand' /\ ToldAtTheEnd'
    BY <1>1, <2>1 DEF AccessSound, AccessTypeOK, AccessLockHeld, CommandsStand, ToldAtTheEnd,
       Locking, AdminPhases
  <2>3. \A e \in accessEvents : e.by # a
    BY <1>1 DEF AccessSound, EventsAreChanges
  <2>4. ChangesFollow' /\ EventsAreChanges'
    BY <1>1, <2>1, <2>3 DEF AccessSound, AccessTypeOK, ChangesFollow, EventsAreChanges
  <2>5. LogIsComplete'
    BY <1>1, LogUnchanged DEF AccessSound, AccessIsAccounted, accessTables
  <2>6. AdministratorsAreToldTheTruth'
    BY <1>1, <2>1, NothingSaid DEF AccessSound, AccessTypeOK
  <2> QED
    BY <2>2, <2>4, <2>5, <2>6 DEF AccessSound, AccessIsAccounted
<1> QED
  BY <1>2, <1>3

\* A COMMIT publishes what was decided, with the lock still held.
LEMMA CommitSound ==
  ASSUME AccessSound, NEW a \in Administrator, CommitAccess(a)
  PROVE  AccessSound'
<1>1. /\ adminPhase[a] = "committing" /\ Publish(change[a]) /\ adminTold[a] = None
      /\ adminPhase' = [adminPhase EXCEPT ![a] = "printing"]
      /\ UNCHANGED <<lockedBy, command, change, adminTold>>
  BY DEF CommitAccess, AccessSound, ToldAtTheEnd
<1>2. AccessLockHeld' /\ CommandsStand' /\ ToldAtTheEnd'
  BY <1>1 DEF AccessSound, AccessTypeOK, AccessLockHeld, CommandsStand, ToldAtTheEnd, Locking
<1>3. \A b \in Administrator : adminPhase[b] \in Locking => b = a
  BY <1>1 DEF AccessSound, AccessLockHeld, Locking
<1>4. CASE change[a] = None
  <2>1. UNCHANGED <<members, accessEpoch, accessEvents>>
    BY <1>1, <1>4 DEF Publish, accessTables
  <2>2. AccessTypeOK'
    BY <1>1, <2>1 DEF AccessSound, AccessTypeOK, AdminPhases
  <2>3. ChangesFollow' /\ EventsAreChanges'
    BY <1>1, <1>4, <2>1 DEF AccessSound, AccessTypeOK, ChangesFollow, EventsAreChanges
  <2>4. LogIsComplete'
    BY <1>1, <2>1, LogUnchanged DEF AccessSound, AccessIsAccounted, accessTables
  <2>5. AdministratorsAreToldTheTruth'
    BY <1>1, <2>1, NothingSaid DEF AccessSound, AccessTypeOK
  <2> QED
    BY <1>2, <2>2, <2>3, <2>4, <2>5 DEF AccessSound, AccessIsAccounted
<1>5. CASE change[a] # None
  <2>1. /\ LogIsComplete'
        /\ members' \in [Principal -> Membership]
        /\ accessEpoch' \in 1..MaxAccessEpoch
        /\ accessEvents' \subseteq AccessEvent
    BY <1>1, <1>5, PublishCompletes
  <2>2. AccessTypeOK'
    BY <1>1, <2>1 DEF AccessSound, AccessTypeOK, AdminPhases
  <2>3. accessEvents' = accessEvents \cup {change[a]} /\ change[a].by = a
    BY <1>1, <1>5 DEF Publish, AccessSound, ChangesFollow
  <2>4. ChangesFollow'
    BY <1>1, <1>3, <1>5, <2>3 DEF AccessSound, AccessTypeOK, ChangesFollow, Locking
  <2>5. EventsAreChanges'
    BY <1>1, <1>5, <2>3 DEF AccessSound, AccessTypeOK, EventsAreChanges, AccessEvent
  <2>6. AdministratorsAreToldTheTruth'
    BY <1>1, <2>3 DEF AccessSound, AccessTypeOK, AccessIsAccounted,
       AdministratorsAreToldTheTruth, Honest, Verdicts
  <2> QED
    BY <1>2, <2>1, <2>2, <2>4, <2>5, <2>6 DEF AccessSound, AccessIsAccounted
<1> QED
  BY <1>4, <1>5

\* The connection is lost in the COMMIT: what is printed says whether that matters.
LEMMA LoseCommitSound ==
  ASSUME AccessSound, NEW a \in Administrator, NEW told, LoseCommit(a, told)
  PROVE  AccessSound'
<1>1. /\ adminPhase[a] = "committing" /\ told \in {Lost(a), None}
      /\ adminPhase' = [adminPhase EXCEPT ![a] = "limbo"]
      /\ adminTold' = [adminTold EXCEPT ![a] = told]
      /\ UNCHANGED <<members, accessEpoch, accessEvents, lockedBy, command, change>>
  BY DEF LoseCommit, accessTables
<1>2. told \in Verdicts \cup {None}
  BY <1>1 DEF Lost, Verdicts
<1>3. AccessTypeOK' /\ AccessLockHeld' /\ CommandsStand' /\ ToldAtTheEnd'
  BY <1>1, <1>2 DEF AccessSound, AccessTypeOK, AccessLockHeld, CommandsStand, ToldAtTheEnd,
     Locking, AdminPhases
<1>4. \A e \in accessEvents : e.by # a
  BY <1>1 DEF AccessSound, EventsAreChanges
<1>5. ChangesFollow' /\ EventsAreChanges'
  BY <1>1, <1>4 DEF AccessSound, AccessTypeOK, ChangesFollow, EventsAreChanges
<1>6. LogIsComplete'
  BY <1>1, LogUnchanged DEF AccessSound, AccessIsAccounted, accessTables
<1>7. AdministratorsAreToldTheTruth'
  BY <1>1, <1>4 DEF AccessSound, AccessTypeOK, AccessIsAccounted,
     AdministratorsAreToldTheTruth, Honest, Lost, Verdicts
<1> QED
  BY <1>3, <1>5, <1>6, <1>7 DEF AccessSound, AccessIsAccounted

\* The session behind a lost connection commits or rolls back.
LEMMA SettleOrphanSound ==
  ASSUME AccessSound, NEW a \in Administrator, SettleOrphan(a)
  PROVE  AccessSound'
<1>1. /\ adminPhase[a] = "limbo" /\ lockedBy' = None
      /\ adminPhase' = [adminPhase EXCEPT ![a] = "ended"]
      /\ UNCHANGED <<command, change, adminTold>>
  BY DEF SettleOrphan
<1>2. AccessLockHeld' /\ CommandsStand' /\ ToldAtTheEnd'
  BY <1>1 DEF AccessSound, AccessTypeOK, AccessLockHeld, CommandsStand, ToldAtTheEnd, Locking
<1>3. \A b \in Administrator : adminPhase[b] \in Locking => b = a
  BY <1>1 DEF AccessSound, AccessLockHeld, Locking
<1>4. CASE UNCHANGED accessTables
  <2>1. UNCHANGED <<members, accessEpoch, accessEvents>>
    BY <1>4 DEF accessTables
  <2>2. AccessTypeOK'
    BY <1>1, <2>1 DEF AccessSound, AccessTypeOK, AdminPhases
  <2>3. ChangesFollow' /\ EventsAreChanges'
    BY <1>1, <2>1 DEF AccessSound, AccessTypeOK, ChangesFollow, EventsAreChanges
  <2>4. LogIsComplete'
    BY <1>1, <2>1, LogUnchanged DEF AccessSound, AccessIsAccounted, accessTables
  <2>5. AdministratorsAreToldTheTruth'
    BY <1>1, <2>1 DEF AccessSound, AccessTypeOK, AccessIsAccounted,
       AdministratorsAreToldTheTruth, Honest
  <2> QED
    BY <1>2, <2>2, <2>3, <2>4, <2>5 DEF AccessSound, AccessIsAccounted
<1>5. CASE ~UNCHANGED accessTables
  <2>1. Publish(change[a]) /\ change[a] # None
    BY <1>5 DEF SettleOrphan, Publish
  <2>2. /\ LogIsComplete'
        /\ members' \in [Principal -> Membership]
        /\ accessEpoch' \in 1..MaxAccessEpoch
        /\ accessEvents' \subseteq AccessEvent
    BY <1>1, <2>1, PublishCompletes
  <2>3. AccessTypeOK'
    BY <1>1, <2>2 DEF AccessSound, AccessTypeOK, AdminPhases
  <2>4. accessEvents' = accessEvents \cup {change[a]} /\ change[a].by = a
    BY <2>1 DEF Publish, AccessSound, ChangesFollow
  <2>5. ChangesFollow'
    BY <1>1, <1>3, <2>1, <2>4 DEF AccessSound, AccessTypeOK, ChangesFollow, Locking
  <2>6. EventsAreChanges'
    BY <1>1, <2>1, <2>4 DEF AccessSound, AccessTypeOK, EventsAreChanges, AccessEvent
  <2>7. AdministratorsAreToldTheTruth'
    BY <1>1, <2>1, <2>4 DEF AccessSound, AccessTypeOK, AccessIsAccounted,
       AdministratorsAreToldTheTruth, Honest, Verdicts
  <2> QED
    BY <1>2, <2>2, <2>3, <2>5, <2>6, <2>7 DEF AccessSound, AccessIsAccounted
<1> QED
  BY <1>4, <1>5

\* Every step of every command keeps the state sound.
LEMMA AccessStepSound == AccessSound /\ [AccessNext]_accessVars => AccessSound'
<1> SUFFICES ASSUME AccessSound, [AccessNext]_accessVars PROVE AccessSound'
  OBVIOUS
<1>1. ASSUME NEW a \in Administrator, NEW c \in Commands, Ask(a, c) PROVE AccessSound'
  <2>1. /\ adminPhase' = [adminPhase EXCEPT ![a] = "waiting"] /\ adminPhase[a] = "idle"
        /\ command' = [command EXCEPT ![a] = c]
        /\ UNCHANGED <<accessTables, lockedBy, change, adminTold>>
    BY <1>1 DEF Ask
  <2>2. \A b \in Administrator : lockedBy' = b <=> adminPhase'[b] \in Locking
    BY <2>1 DEF AccessSound, AccessTypeOK, AccessLockHeld, Locking
  <2>3. /\ command' \in [Administrator -> Commands \cup {None}] /\ command'[a] \in Commands
        /\ lockedBy' \in Administrator \cup {None}
        /\ \A b \in Administrator \ {a} : command'[b] = command[b]
    BY <2>1 DEF AccessSound, AccessTypeOK
  <2> QED
    BY <2>1, <2>2, <2>3, MoveSound
<1>2. ASSUME NEW a \in Administrator, TakeLock(a) PROVE AccessSound'
  <2>1. /\ adminPhase' = [adminPhase EXCEPT ![a] = "deciding"] /\ adminPhase[a] = "waiting"
        /\ lockedBy = None /\ lockedBy' = a
        /\ UNCHANGED <<accessTables, command, change, adminTold>>
    BY <1>2 DEF TakeLock
  <2>2. \A b \in Administrator : lockedBy' = b <=> adminPhase'[b] \in Locking
    BY <2>1 DEF AccessSound, AccessTypeOK, AccessLockHeld, Locking
  <2>3. command \in [Administrator -> Commands \cup {None}] /\ command[a] \in Commands
    BY <2>1 DEF AccessSound, AccessTypeOK, CommandsStand
  <2> QED
    BY <2>1, <2>2, <2>3, MoveSound
<1>3. ASSUME NEW a \in Administrator, Refuse(a) PROVE AccessSound'
  <2>1. adminPhase[a] = "deciding" /\ EndCommand(a, "refused")
    BY <1>3 DEF Refuse
  <2>2. change[a] = None
    BY <2>1 DEF AccessSound, ChangesFollow
  <2> QED
    BY <2>1, <2>2, EndCommandSound
<1>4. ASSUME NEW a \in Administrator, Decide(a) PROVE AccessSound'
  BY <1>4, DecideSound
<1>5. ASSUME NEW a \in Administrator, CommitAccess(a) PROVE AccessSound'
  BY <1>5, CommitSound
<1>6. ASSUME NEW a \in Administrator, SettleOrphan(a) PROVE AccessSound'
  BY <1>6, SettleOrphanSound
<1>7. ASSUME NEW a \in Administrator, NEW told, Fail(a, told) PROVE AccessSound'
  <2>1. /\ adminPhase[a] \in {"waiting", "deciding"} /\ told \in {"refused", None}
        /\ EndCommand(a, told)
    BY <1>7 DEF Fail
  <2>2. change[a] = None
    BY <2>1 DEF AccessSound, ChangesFollow
  <2> QED
    BY <2>1, <2>2, EndCommandSound DEF Verdicts
<1>8. ASSUME NEW a \in Administrator, NEW told, LoseCommit(a, told) PROVE AccessSound'
  BY <1>8, LoseCommitSound
<1>9. ASSUME NEW a \in Administrator, NEW told, PrintResult(a, told) PROVE AccessSound'
  <2>1. /\ adminPhase[a] = "printing"
        /\ told \in {IF change[a] = None THEN "unchanged" ELSE "applied", None}
        /\ EndCommand(a, told)
    BY <1>9 DEF PrintResult
  <2> QED
    BY <2>1, EndCommandSound DEF Verdicts
<1>10. ASSUME UNCHANGED accessVars PROVE AccessSound'
  BY <1>10 DEF accessVars, AccessSound, AccessTypeOK, AccessLockHeld, CommandsStand, ChangesFollow,
     EventsAreChanges, ToldAtTheEnd, AccessIsAccounted, LogIsComplete, Follows,
     AdministratorsAreToldTheTruth, Honest
<1> QED
  BY <1>1, <1>2, <1>3, <1>4, <1>5, <1>6, <1>7, <1>8, <1>9, <1>10 DEF AccessNext

\* scope_access.main: the log of access events accounts for every membership there
\* is, no administrator's change is overwritten unseen, and what a command printed
\* of its outcome is true, for any administrators, principals and settings.
THEOREM AccessAccounted == AccessSpec => []AccessIsAccounted
<1>1. AccessSound => AccessIsAccounted
  BY DEF AccessSound
<1> QED
  BY <1>1, AccessInitSound, AccessStepSound, PTL DEF AccessSpec

-------------------------------------------------------------------------------
(* Migrations and reindexing *)

HIDE AccessAssumption
USE MaintenanceAssumption

\* The installed versions are known ones, an episode is observed once, and while a
\* migration is under way only processes of its own build serve.
SchemaFits ==
  /\ Version \in 0..Latest
  /\ unborn \cap stored = {}
  /\ draft.cleared \cap unborn = {}
  /\ Migrating => \A r \in running : Build[r] = Latest

Working == {"checking", "applying", "clearing", "cleared", "filling"}

\* The lock is held from its answer to the end of the transaction.
MaintenanceLockHeld == \A m \in Maintainer : maintLock = m <=> maintPhase[m] \in Working

\* The rows of this transaction are rebuilt.
Rebuilds(m) ==
  /\ maintPhase[m] = "applying"
  /\ task[m] = "reindex" \/ (Version < LexicalVersion /\ LexicalVersion <= draft.to)

\* What the transaction of m has done so far, while it has the lock.
DraftFits(m) ==
  /\ maintPhase[m] = "checking" => draft = NoDraft
  /\ maintPhase[m] # "checking" =>
       /\ Version <= draft.to
       /\ task[m] = "reindex" => Version = Latest
  /\ maintPhase[m] \in {"clearing", "cleared", "filling"} =>
       task[m] = "reindex" \/ (Version < LexicalVersion /\ draft.to = LexicalVersion)
  /\ maintPhase[m] = "clearing" \/ (maintPhase[m] = "applying" /\ ~Rebuilds(m)) =>
       draft.cleared = {} /\ draft.added = {}
  /\ maintPhase[m] = "cleared" => draft.added = {}
  /\ maintPhase[m] = "filling" \/ Rebuilds(m) =>
       stored \subseteq draft.cursor \cup (lexicon \ draft.cleared)
  /\ Rebuilds(m) => draft.cursor \subseteq draft.added

\* Nobody forgets an episode whose new row the transaction holds.
AddedStay == \A e \in draft.added : e \in stored /\ erasing[e] = "nothing"

MaintenanceSound ==
  /\ MaintenanceTypeOK
  /\ LexiconComplete
  /\ SchemaFits
  /\ MaintenanceLockHeld
  /\ maintLock = None => draft = NoDraft
  /\ \A m \in Maintainer : maintLock = m => DraftFits(m)
  /\ AddedStay

\* The first versions are as many as they say.
LEMMA FirstVersions ==
  ASSUME NEW n \in 0..Latest
  PROVE  Cardinality(1..n) = n
  BY FS_Interval

\* A database of any version, nobody at work.
LEMMA MaintenanceInitSound == MaintenanceInit => MaintenanceSound
<1> SUFFICES ASSUME MaintenanceInit PROVE MaintenanceSound
  OBVIOUS
<1>1. PICK v \in 0..Latest :
        /\ installed = 1..v
        /\ stored \in IF v = 0 THEN {{}} ELSE SUBSET Episode
        /\ lexicon = IF v < LexicalVersion THEN {} ELSE stored
  BY DEF MaintenanceInit
<1>2. Version = v
  BY <1>1, FirstVersions DEF Version
<1>3. stored \subseteq Episode /\ unborn = Episode \ stored /\ running = {}
  BY <1>1 DEF MaintenanceInit
<1>4. draft = NoDraft /\ maintLock = None
  BY DEF MaintenanceInit
<1>5. MaintenanceTypeOK
  <2>1. installed \subseteq 1..Latest /\ lexicon \subseteq Episode
    BY <1>1, <1>3
  <2>2. draft \in [to : 0..Latest, cleared : SUBSET Episode, cursor : SUBSET Episode,
                   added : SUBSET Episode]
    BY <1>4 DEF NoDraft
  <2> QED
    BY <1>3, <1>4, <2>1, <2>2 DEF MaintenanceInit, MaintenanceTypeOK, MaintPhases
<1>6. LexiconComplete
  BY <1>1, <1>2, <1>3 DEF LexiconComplete
<1>7. SchemaFits
  BY <1>2, <1>3, <1>4 DEF SchemaFits, NoDraft
<1>8. MaintenanceLockHeld
  BY <1>4 DEF MaintenanceInit, MaintenanceLockHeld, Working
<1>9. AddedStay
  BY <1>4 DEF AddedStay, NoDraft
<1> QED
  BY <1>4, <1>5, <1>6, <1>7, <1>8, <1>9 DEF MaintenanceSound

\* Who serves has the build of the schema, and while the lexical rows are rebuilt
\* that schema has them: what is observed then has a row.
LEMMA WritersKnowTheLexicon ==
  ASSUME MaintenanceSound, NEW r \in running, NEW m \in Maintainer, maintLock = m,
         maintPhase[m] = "filling" \/ Rebuilds(m)
  PROVE  ~(Build[r] < LexicalVersion)
<1>1. Build[r] = Version
  BY DEF MaintenanceSound, LexiconComplete
<1>2. CASE task[m] = "reindex"
  <2>1. Version = Latest
    BY <1>2 DEF MaintenanceSound, DraftFits, Rebuilds
  <2> QED
    BY <1>1, <2>1
<1>3. CASE task[m] = "migrate"
  <2>1. Migrating
    BY <1>3 DEF Migrating, Rebuilds
  <2>2. Build[r] = Latest
    BY <2>1 DEF MaintenanceSound, SchemaFits
  <2> QED
    BY <2>2
<1> QED
  BY <1>2, <1>3 DEF MaintenanceSound, MaintenanceTypeOK

\* A process that starts or stops changes no table.
LEMMA ProcessesSound ==
  ASSUME MaintenanceSound, NEW r \in Runtime, Start(r) \/ Stop(r)
  PROVE  MaintenanceSound'
<1>1. UNCHANGED <<installed, stored, lexicon, unborn, erasing, task, maintPhase, maintLock, draft>>
  BY DEF Start, Stop, maintTables
<1>2. Version' = Version /\ Migrating' = Migrating
  BY <1>1 DEF Version, Migrating
<1>3. \A s \in running' : Build[s] = Version
  <2>1. ASSUME Start(r) PROVE Build[r] = Version
    <3>1. Cardinality(installed) = Build[r]
      BY <2>1, FirstVersions DEF Start, Validates
    <3> QED
      BY <3>1 DEF Version
  <2> QED
    BY <2>1 DEF Start, Stop, MaintenanceSound, LexiconComplete
<1>4. LexiconComplete'
  BY <1>1, <1>2, <1>3 DEF MaintenanceSound, LexiconComplete
<1>5. SchemaFits'
  BY <1>1, <1>2 DEF Start, Stop, MaintenanceSound, SchemaFits
<1>6. MaintenanceTypeOK'
  BY <1>1 DEF Start, Stop, MaintenanceSound, MaintenanceTypeOK
<1>7. MaintenanceLockHeld' /\ AddedStay'
  BY <1>1 DEF MaintenanceSound, MaintenanceLockHeld, AddedStay
<1>8. \A m \in Maintainer : DraftFits(m) => DraftFits(m)'
  BY <1>1, <1>2 DEF DraftFits, Rebuilds
<1> QED
  BY <1>1, <1>4, <1>5, <1>6, <1>7, <1>8 DEF MaintenanceSound

\* An episode is observed while anything else is under way.
LEMMA ObserveSound ==
  ASSUME MaintenanceSound, NEW r \in Runtime, NEW e \in Episode, Observe(r, e)
  PROVE  MaintenanceSound'
<1>1. /\ r \in running /\ e \in unborn /\ unborn' = unborn \ {e}
      /\ stored' = stored \cup {e}
      /\ lexicon' = IF Build[r] < LexicalVersion THEN lexicon ELSE lexicon \cup {e}
      /\ UNCHANGED <<installed, running, erasing, task, maintPhase, maintLock, draft>>
  BY DEF Observe
<1>2. Version' = Version /\ Migrating' = Migrating /\ Build[r] = Version
  BY <1>1 DEF Version, Migrating, MaintenanceSound, LexiconComplete
<1>3. MaintenanceTypeOK'
  BY <1>1 DEF MaintenanceSound, MaintenanceTypeOK
<1>4. LexiconComplete'
  BY <1>1, <1>2 DEF MaintenanceSound, LexiconComplete
<1>5. SchemaFits'
  BY <1>1, <1>2 DEF MaintenanceSound, SchemaFits
<1>6. MaintenanceLockHeld' /\ AddedStay'
  BY <1>1 DEF MaintenanceSound, MaintenanceLockHeld, AddedStay
<1>7. ASSUME NEW m \in Maintainer, maintLock = m PROVE DraftFits(m)'
  <2>1. DraftFits(m) /\ draft.cleared \cap unborn = {}
    BY <1>7 DEF MaintenanceSound, SchemaFits
  <2>2. Rebuilds(m)' = Rebuilds(m)
    BY <1>1, <1>2 DEF Rebuilds
  <2>3. ASSUME maintPhase[m] = "filling" \/ Rebuilds(m)
        PROVE  stored' \subseteq draft.cursor \cup (lexicon' \ draft.cleared)
    <3>1. lexicon' = lexicon \cup {e}
      BY <1>1, <1>7, <2>3, WritersKnowTheLexicon
    <3> QED
      BY <1>1, <2>1, <2>3, <3>1 DEF DraftFits
  <2> QED
    BY <1>1, <1>2, <2>1, <2>2, <2>3 DEF DraftFits
<1> QED
  BY <1>1, <1>3, <1>4, <1>5, <1>6, <1>7 DEF MaintenanceSound

\* A purge holds rows before it takes them, none of the transaction's new ones.
LEMMA HoldingSound ==
  ASSUME MaintenanceSound, NEW e \in Episode, e \notin draft.added,
         NEW rows \in {"nothing", "episode", "both"}, erasing' = [erasing EXCEPT ![e] = rows],
         UNCHANGED <<maintTables, unborn, running, task, maintPhase, maintLock, draft>>
  PROVE  MaintenanceSound'
<1>1. UNCHANGED <<installed, stored, lexicon>>
  BY DEF maintTables
<1>2. Version' = Version /\ Migrating' = Migrating
  BY <1>1 DEF Version, Migrating
<1>3. MaintenanceTypeOK'
  BY <1>1 DEF MaintenanceSound, MaintenanceTypeOK
<1>4. LexiconComplete' /\ SchemaFits' /\ MaintenanceLockHeld'
  BY <1>1, <1>2 DEF MaintenanceSound, LexiconComplete, SchemaFits, MaintenanceLockHeld
<1>5. AddedStay'
  BY <1>1 DEF MaintenanceSound, MaintenanceTypeOK, AddedStay
<1>6. \A m \in Maintainer : DraftFits(m) => DraftFits(m)'
  BY <1>1, <1>2 DEF DraftFits, Rebuilds
<1> QED
  BY <1>3, <1>4, <1>5, <1>6 DEF MaintenanceSound

\* A purge commits: the episode and its row are gone together.
LEMMA EndEraseSound ==
  ASSUME MaintenanceSound, NEW e \in Episode, EndErase(e)
  PROVE  MaintenanceSound'
<1>1. /\ erasing[e] # "nothing" /\ erasing' = [erasing EXCEPT ![e] = "nothing"]
      /\ UNCHANGED <<installed, unborn, running, task, maintPhase, maintLock, draft>>
      /\ \/ UNCHANGED <<stored, lexicon>>
         \/ stored' = stored \ {e} /\ lexicon' = lexicon \ {e}
  BY DEF EndErase, maintTables
<1>2. Version' = Version /\ Migrating' = Migrating
  BY <1>1 DEF Version, Migrating
<1>3. e \notin draft.added
  BY <1>1 DEF MaintenanceSound, AddedStay
<1>4. MaintenanceTypeOK'
  BY <1>1 DEF MaintenanceSound, MaintenanceTypeOK
<1>5. LexiconComplete'
  BY <1>1, <1>2 DEF MaintenanceSound, LexiconComplete
<1>6. SchemaFits' /\ MaintenanceLockHeld'
  BY <1>1, <1>2 DEF MaintenanceSound, SchemaFits, MaintenanceLockHeld
<1>7. AddedStay'
  BY <1>1, <1>3 DEF MaintenanceSound, MaintenanceTypeOK, AddedStay
<1>8. ASSUME NEW m \in Maintainer, DraftFits(m) PROVE DraftFits(m)'
  <2>1. Rebuilds(m)' = Rebuilds(m)
    BY <1>1, <1>2 DEF Rebuilds
  <2>2. stored \subseteq draft.cursor \cup (lexicon \ draft.cleared) =>
          stored' \subseteq draft.cursor \cup (lexicon' \ draft.cleared)
    BY <1>1
  <2> QED
    BY <1>1, <1>2, <1>8, <2>1, <2>2 DEF DraftFits
<1> QED
  BY <1>1, <1>4, <1>5, <1>6, <1>7, <1>8 DEF MaintenanceSound

\* A step of the transaction under the lock touches its draft alone.
LEMMA DraftSound ==
  ASSUME MaintenanceSound, NEW m \in Maintainer, maintLock' = m,
         maintLock = m \/ (maintLock = None /\ maintPhase[m] = "waiting"),
         NEW phase \in Working, maintPhase' = [maintPhase EXCEPT ![m] = phase],
         UNCHANGED <<installed, stored, lexicon, unborn, running, erasing, task>>,
         draft' \in [to : 0..Latest, cleared : SUBSET Episode, cursor : SUBSET Episode,
                     added : SUBSET Episode],
         draft'.cleared \cap unborn = {},
         \A e \in draft'.added : e \in stored /\ erasing[e] = "nothing",
         DraftFits(m)'
  PROVE  MaintenanceSound'
<1>1. Version' = Version /\ (Migrating' => Migrating)
  <2>1. Version' = Version
    BY DEF Version
  <2>2. maintPhase[m] \notin {"idle", "ended"}
    BY DEF MaintenanceSound, MaintenanceLockHeld, Working
  <2>3. \A n \in Maintainer : maintPhase'[n] \notin {"idle", "ended"} =>
          maintPhase[n] \notin {"idle", "ended"}
    BY <2>2 DEF MaintenanceSound, MaintenanceTypeOK
  <2> QED
    BY <2>1, <2>3 DEF Migrating
<1>2. MaintenanceTypeOK'
  BY DEF MaintenanceSound, MaintenanceTypeOK, MaintPhases, Working
<1>3. LexiconComplete'
  BY <1>1 DEF MaintenanceSound, LexiconComplete
<1>4. SchemaFits'
  BY <1>1 DEF MaintenanceSound, SchemaFits
<1>5. MaintenanceLockHeld'
  BY DEF MaintenanceSound, MaintenanceTypeOK, MaintenanceLockHeld, Working
<1>6. AddedStay'
  BY DEF AddedStay
<1>7. maintLock' # None
  OBVIOUS
<1> QED
  BY <1>2, <1>3, <1>4, <1>5, <1>6, <1>7 DEF MaintenanceSound

\* The transaction under the lock, step by step.
LEMMA TransactionSound ==
  ASSUME MaintenanceSound, NEW m \in Maintainer,
         \/ TakeMaintenanceLock(m) \/ CheckHistory(m) \/ ApplyMigration(m)
         \/ Clear(m) \/ Scan(m) \/ Filled(m) \/ \E e \in Episode : Fill(m, e)
  PROVE  MaintenanceSound'
<1> DEFINE Drafts == [to : 0..Latest, cleared : SUBSET Episode, cursor : SUBSET Episode,
                      added : SUBSET Episode]
<1>1. /\ draft \in Drafts /\ draft.cleared \cap unborn = {} /\ Version \in 0..Latest
      /\ stored \cap unborn = {} /\ maintPhase \in [Maintainer -> MaintPhases]
      /\ stored \subseteq Episode /\ lexicon \subseteq Episode
      /\ lexicon = IF Version < LexicalVersion THEN {} ELSE stored
      /\ task[m] \in {"migrate", "reindex"}
      /\ \A e \in draft.added : e \in stored /\ erasing[e] = "nothing"
  BY DEF MaintenanceSound, MaintenanceTypeOK, SchemaFits, AddedStay, LexiconComplete
<1>2. maintPhase[m] \in Working => maintLock = m /\ DraftFits(m)
  BY DEF MaintenanceSound, MaintenanceLockHeld
<1>3. ASSUME TakeMaintenanceLock(m) PROVE MaintenanceSound'
  <2>1. /\ maintPhase[m] = "waiting" /\ maintLock = None /\ maintLock' = m
        /\ maintPhase' = [maintPhase EXCEPT ![m] = "checking"]
        /\ UNCHANGED <<installed, stored, lexicon, unborn, running, erasing, task, draft>>
    BY <1>3 DEF TakeMaintenanceLock, MaintGoto, maintTables
  <2>2. DraftFits(m)'
    BY <1>1, <2>1 DEF MaintenanceSound, DraftFits, Rebuilds
  <2> QED
    BY <1>1, <2>1, <2>2, DraftSound DEF Working
<1>4. ASSUME CheckHistory(m) PROVE MaintenanceSound'
  <2>1. /\ maintPhase[m] = "checking" /\ draft' = [draft EXCEPT !.to = Version]
        /\ UNCHANGED <<installed, stored, lexicon, unborn, running, erasing, task, maintLock>>
        /\ \/ task[m] = "migrate" /\ maintPhase' = [maintPhase EXCEPT ![m] = "applying"]
           \/ /\ task[m] = "reindex" /\ Version = Latest
              /\ maintPhase' = [maintPhase EXCEPT ![m] = "clearing"]
    BY <1>1, <1>4 DEF CheckHistory, MaintGoto, maintTables
  <2>2. maintLock = m /\ draft = NoDraft /\ Version' = Version
    BY <1>2, <2>1 DEF Working, DraftFits, Version
  <2>3. /\ draft' \in Drafts /\ draft'.to = Version /\ draft'.cleared = {} /\ draft'.added = {}
    BY <1>1, <2>1, <2>2 DEF NoDraft
  <2>4. DraftFits(m)'
    BY <1>1, <2>1, <2>2, <2>3 DEF DraftFits, Rebuilds
  <2>5. PICK phase \in Working : maintPhase' = [maintPhase EXCEPT ![m] = phase]
    BY <2>1 DEF Working
  <2> QED
    BY <1>1, <2>1, <2>2, <2>3, <2>4, <2>5, DraftSound
<1>5. ASSUME ApplyMigration(m) PROVE MaintenanceSound'
  <2> DEFINE phase == IF draft.to + 1 = LexicalVersion THEN "clearing" ELSE "applying"
  <2>1. /\ maintPhase[m] = "applying" /\ draft.to < Latest
        /\ draft' = [draft EXCEPT !.to = draft.to + 1]
        /\ maintPhase' = [maintPhase EXCEPT ![m] = phase]
        /\ UNCHANGED <<installed, stored, lexicon, unborn, running, erasing, task, maintLock>>
    BY <1>5 DEF ApplyMigration, MaintGoto, maintTables
  <2>2. maintLock = m /\ DraftFits(m) /\ Version' = Version
    BY <1>2, <2>1 DEF Working, Version
  <2>3. /\ draft' \in Drafts /\ draft'.to = draft.to + 1 /\ draft'.cleared = draft.cleared
        /\ draft'.cursor = draft.cursor /\ draft'.added = draft.added
    BY <1>1, <2>1
  <2>4. phase \in Working /\ maintPhase'[m] = phase
    BY <1>1, <2>1 DEF Working
  <2>5. Version <= draft.to /\ draft.to \in Nat
    BY <1>1, <2>1, <2>2 DEF DraftFits
  <2>6. task[m] = "migrate"
    BY <1>1, <2>1, <2>2, <2>5 DEF DraftFits
  <2>7. CASE draft.to + 1 = LexicalVersion
    <3>1. Version < LexicalVersion /\ ~Rebuilds(m)
      BY <1>1, <2>5, <2>6, <2>7 DEF Rebuilds
    <3>2. draft.cleared = {} /\ draft.added = {}
      BY <2>1, <2>2, <3>1 DEF DraftFits
    <3>3. maintPhase'[m] = "clearing"
      BY <2>4, <2>7
    <3>4. DraftFits(m)'
      BY <1>1, <2>1, <2>2, <2>3, <2>5, <2>6, <2>7, <3>1, <3>2, <3>3 DEF DraftFits, Rebuilds
    <3> QED
      BY <1>1, <2>1, <2>2, <2>3, <2>4, <3>4, DraftSound
  <2>8. CASE draft.to + 1 # LexicalVersion
    <3>1. maintPhase'[m] = "applying"
      BY <2>4, <2>8
    <3>2. Rebuilds(m)' = Rebuilds(m)
      BY <1>1, <2>1, <2>2, <2>3, <2>5, <2>6, <2>8, <3>1 DEF Rebuilds
    <3>3. DraftFits(m)'
      BY <1>1, <2>1, <2>2, <2>3, <2>5, <2>6, <3>1, <3>2 DEF DraftFits
    <3> QED
      BY <1>1, <2>1, <2>2, <2>3, <2>4, <3>3, DraftSound
  <2> QED
    BY <2>7, <2>8
<1>6. ASSUME Clear(m) PROVE MaintenanceSound'
  <2>1. /\ maintPhase[m] = "clearing" /\ draft' = [draft EXCEPT !.cleared = lexicon]
        /\ maintPhase' = [maintPhase EXCEPT ![m] = "cleared"]
        /\ UNCHANGED <<installed, stored, lexicon, unborn, running, erasing, task, maintLock>>
    BY <1>6 DEF Clear, MaintGoto, maintTables
  <2>2. maintLock = m /\ DraftFits(m) /\ Version' = Version
    BY <1>2, <2>1 DEF Working, Version
  <2>3. /\ draft' \in Drafts /\ draft'.to = draft.to /\ draft'.cleared = lexicon
        /\ draft'.added = draft.added /\ draft.added = {}
    BY <1>1, <2>1, <2>2 DEF DraftFits
  <2>4. lexicon \cap unborn = {}
    BY <1>1
  <2>5. DraftFits(m)'
    BY <1>1, <2>1, <2>2, <2>3 DEF DraftFits, Rebuilds
  <2> QED
    BY <1>1, <2>1, <2>2, <2>3, <2>4, <2>5, DraftSound DEF Working
<1>7. ASSUME Scan(m) PROVE MaintenanceSound'
  <2>1. /\ maintPhase[m] = "cleared" /\ draft' = [draft EXCEPT !.cursor = stored]
        /\ maintPhase' = [maintPhase EXCEPT ![m] = "filling"]
        /\ UNCHANGED <<installed, stored, lexicon, unborn, running, erasing, task, maintLock>>
    BY <1>7 DEF Scan, MaintGoto, maintTables
  <2>2. maintLock = m /\ DraftFits(m) /\ Version' = Version
    BY <1>2, <2>1 DEF Working, Version
  <2>3. /\ draft' \in Drafts /\ draft'.to = draft.to /\ draft'.cleared = draft.cleared
        /\ draft'.cursor = stored /\ draft'.added = draft.added
    BY <1>1, <2>1
  <2>4. DraftFits(m)'
    BY <1>1, <2>1, <2>2, <2>3 DEF DraftFits, Rebuilds
  <2> QED
    BY <1>1, <2>1, <2>2, <2>3, <2>4, DraftSound DEF Working
<1>8. ASSUME Filled(m) PROVE MaintenanceSound'
  <2>1. /\ maintPhase[m] = "filling" /\ draft.cursor \subseteq draft.added
        /\ maintPhase' = [maintPhase EXCEPT ![m] = "applying"]
        /\ UNCHANGED <<installed, stored, lexicon, unborn, running, erasing, task, maintLock,
                       draft>>
    BY <1>8 DEF Filled, MaintGoto, maintTables
  <2>2. maintLock = m /\ DraftFits(m) /\ Version' = Version
    BY <1>2, <2>1 DEF Working, Version
  <2>3. DraftFits(m)'
    BY <1>1, <2>1, <2>2 DEF DraftFits, Rebuilds
  <2> QED
    BY <1>1, <2>1, <2>2, <2>3, DraftSound DEF Working
<1>9. ASSUME NEW e \in Episode, Fill(m, e) PROVE MaintenanceSound'
  <2>1. /\ maintPhase[m] = "filling" /\ e \in stored /\ erasing[e] = "nothing"
        /\ draft' = [draft EXCEPT !.added = draft.added \cup {e}]
        /\ UNCHANGED <<installed, stored, lexicon, unborn, running, erasing, task, maintPhase,
                       maintLock>>
    BY <1>9 DEF Fill, maintTables
  <2>2. maintLock = m /\ DraftFits(m) /\ Version' = Version
    BY <1>2, <2>1 DEF Working, Version
  <2>3. /\ draft' \in Drafts /\ draft'.to = draft.to /\ draft'.cleared = draft.cleared
        /\ draft'.cursor = draft.cursor /\ draft'.added = draft.added \cup {e}
    BY <1>1, <2>1
  <2>4. DraftFits(m)'
    BY <1>1, <2>1, <2>2, <2>3 DEF DraftFits, Rebuilds
  <2>5. maintPhase' = [maintPhase EXCEPT ![m] = "filling"] /\ "filling" \in Working
    BY <1>1, <2>1 DEF Working
  <2>6. draft'.cleared \cap unborn = {}
    BY <1>1, <2>3
  <2>7. \A f \in draft'.added : f \in stored /\ erasing[f] = "nothing"
    BY <1>1, <2>1, <2>3
  <2>8. /\ maintLock' = m /\ maintLock = m
        /\ UNCHANGED <<installed, stored, lexicon, unborn, running, erasing, task>>
    BY <2>1, <2>2
  <2>9. draft' \in [to : 0..Latest, cleared : SUBSET Episode, cursor : SUBSET Episode,
                    added : SUBSET Episode]
    BY <2>3 DEF Drafts
  <2> QED
    BY <2>4, <2>5, <2>6, <2>7, <2>8, <2>9, DraftSound
<1> QED
  BY <1>3, <1>4, <1>5, <1>6, <1>7, <1>8, <1>9

\* A command that ends, however it ends, gives the lock back and leaves no draft.
LEMMA EndMaintenanceSound ==
  ASSUME MaintenanceSound, NEW m \in Maintainer, EndMaintenance(m),
         installed' \subseteq 1..Latest, Version' \in 0..Latest, LexiconComplete',
         Migrating => \A r \in running : Build[r] = Latest,
         maintLock = m \/ UNCHANGED <<installed, lexicon>>
  PROVE  MaintenanceSound'
<1>1. /\ maintPhase' = [maintPhase EXCEPT ![m] = "ended"]
      /\ maintLock' = IF maintLock = m THEN None ELSE maintLock
      /\ draft' = IF maintLock = m THEN NoDraft ELSE draft
      /\ UNCHANGED <<stored, unborn, running, erasing, task>>
  BY DEF EndMaintenance, MaintGoto
<1>2. draft'.cleared \cap unborn = {} /\ AddedStay'
  BY <1>1 DEF NoDraft, MaintenanceSound, SchemaFits, AddedStay
<1>3. lexicon' \subseteq Episode
  BY <1>1 DEF MaintenanceSound, MaintenanceTypeOK, LexiconComplete
<1>4. NoDraft \in [to : 0..Latest, cleared : SUBSET Episode, cursor : SUBSET Episode,
                   added : SUBSET Episode]
  BY DEF NoDraft
<1>5. MaintenanceTypeOK'
  BY <1>1, <1>3, <1>4 DEF MaintenanceSound, MaintenanceTypeOK, MaintPhases
<1>6. Migrating' => Migrating
  BY <1>1 DEF MaintenanceSound, MaintenanceTypeOK, Migrating
<1>7. SchemaFits'
  BY <1>1, <1>2, <1>6 DEF MaintenanceSound, SchemaFits
<1>8. MaintenanceLockHeld'
  BY <1>1 DEF MaintenanceSound, MaintenanceTypeOK, MaintenanceLockHeld, Working
<1>9. ASSUME NEW n \in Maintainer, maintLock' = n PROVE DraftFits(n)'
  <2>1. maintLock = n /\ n # m /\ UNCHANGED <<installed, lexicon>> /\ draft' = draft
    BY <1>1, <1>9
  <2>2. DraftFits(n) /\ maintPhase'[n] = maintPhase[n] /\ Version' = Version
    BY <1>1, <2>1 DEF MaintenanceSound, MaintenanceTypeOK, Version
  <2>3. Rebuilds(n)' = Rebuilds(n)
    BY <1>1, <2>1, <2>2 DEF Rebuilds
  <2> QED
    BY <1>1, <2>1, <2>2, <2>3 DEF DraftFits
<1> QED
  BY <1>1, <1>2, <1>5, <1>7, <1>8, <1>9 DEF MaintenanceSound

\* The commit leaves one row for each episode there is.
LEMMA CommitMaintenanceSound ==
  ASSUME MaintenanceSound, NEW m \in Maintainer, CommitMaintenance(m)
  PROVE  MaintenanceSound'
<1>1. /\ maintPhase[m] = "applying" /\ draft.to = Latest /\ installed' = 1..Latest
      /\ lexicon' = (lexicon \ draft.cleared) \cup draft.added
      /\ EndMaintenance(m) /\ stored' = stored /\ running' = running
  BY DEF CommitMaintenance, EndMaintenance, Rebuilt
<1>2. maintLock = m /\ DraftFits(m)
  BY <1>1 DEF MaintenanceSound, MaintenanceLockHeld, Working
<1>3. Version' = Latest
  BY <1>1, FirstVersions DEF Version
<1>4. \A r \in running : Build[r] = Latest
  <2>1. CASE task[m] = "migrate"
    <3>1. Migrating
      BY <1>1, <2>1 DEF Migrating
    <3> QED
      BY <3>1 DEF MaintenanceSound, SchemaFits
  <2>2. CASE task[m] = "reindex"
    BY <1>1, <1>2, <2>2 DEF DraftFits, MaintenanceSound, LexiconComplete
  <2> QED
    BY <2>1, <2>2 DEF MaintenanceSound, MaintenanceTypeOK
<1>5. lexicon' = stored
  <2>1. lexicon = (IF Version < LexicalVersion THEN {} ELSE stored) /\ draft.added \subseteq stored
    BY DEF MaintenanceSound, LexiconComplete, AddedStay
  <2>2. CASE Rebuilds(m)
    BY <1>1, <1>2, <2>1, <2>2 DEF DraftFits
  <2>3. CASE ~Rebuilds(m)
    <3>1. draft.cleared = {} /\ draft.added = {}
      BY <1>1, <1>2, <2>3 DEF DraftFits
    <3>2. ~(Version < LexicalVersion)
      BY <1>1, <2>3 DEF Rebuilds
    <3> QED
      BY <1>1, <2>1, <3>1, <3>2
  <2> QED
    BY <2>2, <2>3
<1>6. LexiconComplete'
  BY <1>1, <1>3, <1>4, <1>5 DEF LexiconComplete
<1> QED
  BY <1>1, <1>2, <1>3, <1>4, <1>6, EndMaintenanceSound

\* Every step of processes, purges and commands.
LEMMA MaintenanceStepSound == MaintenanceSound /\ [MaintenanceNext]_maintVars => MaintenanceSound'
<1> SUFFICES ASSUME MaintenanceSound, [MaintenanceNext]_maintVars PROVE MaintenanceSound'
  OBVIOUS
<1>1. ASSUME NEW r \in Runtime, NEW e \in Episode, EraseEpisode(r, e) PROVE MaintenanceSound'
  BY <1>1, HoldingSound DEF EraseEpisode
<1>2. ASSUME NEW e \in Episode, EraseLexical(e) PROVE MaintenanceSound'
  <2>1. e \notin draft.added
    BY <1>2 DEF EraseLexical, MaintenanceSound, AddedStay
  <2> QED
    BY <1>2, <2>1, HoldingSound DEF EraseLexical
<1>3. ASSUME NEW m \in Maintainer, BeginMaintenance(m) PROVE MaintenanceSound'
  <2>1. /\ maintPhase[m] = "idle" /\ maintPhase' = [maintPhase EXCEPT ![m] = "waiting"]
        /\ task[m] = "migrate" => \A r \in running : Build[r] = Latest
        /\ UNCHANGED <<installed, stored, lexicon, unborn, running, erasing, task, maintLock,
                       draft>>
    BY <1>3 DEF BeginMaintenance, MaintGoto, maintTables
  <2>2. Version' = Version /\ maintLock # m
    BY <2>1 DEF Version, MaintenanceSound, MaintenanceLockHeld, Working
  <2>3. MaintenanceTypeOK' /\ LexiconComplete' /\ MaintenanceLockHeld' /\ AddedStay'
    BY <2>1, <2>2 DEF MaintenanceSound, MaintenanceTypeOK, MaintPhases, LexiconComplete,
       MaintenanceLockHeld, Working, AddedStay
  <2>4. SchemaFits'
    BY <2>1, <2>2 DEF MaintenanceSound, MaintenanceTypeOK, SchemaFits, Migrating
  <2>5. ASSUME NEW n \in Maintainer, maintLock = n PROVE DraftFits(n)'
    <3>1. DraftFits(n) /\ maintPhase'[n] = maintPhase[n]
      BY <2>1, <2>2, <2>5 DEF MaintenanceSound, MaintenanceTypeOK
    <3>2. Rebuilds(n)' = Rebuilds(n)
      BY <2>1, <2>2, <3>1 DEF Rebuilds
    <3> QED
      BY <2>1, <2>2, <3>1, <3>2 DEF DraftFits
  <2> QED
    BY <2>1, <2>3, <2>4, <2>5 DEF MaintenanceSound
<1>4. ASSUME NEW m \in Maintainer, FailMaintenance(m) PROVE MaintenanceSound'
  <2>1. UNCHANGED <<installed, lexicon, stored, running>> /\ EndMaintenance(m)
    BY <1>4 DEF FailMaintenance, EndMaintenance
  <2>2. Version' = Version
    BY <2>1 DEF Version
  <2>3. LexiconComplete' /\ installed' \subseteq 1..Latest /\ Version' \in 0..Latest
    BY <2>1, <2>2 DEF MaintenanceSound, LexiconComplete, MaintenanceTypeOK, SchemaFits
  <2>4. Migrating => \A r \in running : Build[r] = Latest
    BY DEF MaintenanceSound, SchemaFits
  <2> QED
    BY <2>1, <2>3, <2>4, EndMaintenanceSound
<1>5. ASSUME UNCHANGED maintVars PROVE MaintenanceSound'
  <2>1. UNCHANGED <<installed, stored, lexicon, unborn, running, erasing, task, maintPhase,
                    maintLock, draft>>
    BY <1>5 DEF maintVars, maintTables
  <2>2. Version' = Version /\ Migrating' = Migrating
    BY <2>1 DEF Version, Migrating
  <2>3. \A m \in Maintainer : DraftFits(m)' = DraftFits(m)
    BY <2>1, <2>2 DEF DraftFits, Rebuilds
  <2> QED
    BY <2>1, <2>2, <2>3 DEF MaintenanceSound, MaintenanceTypeOK, LexiconComplete, SchemaFits,
       MaintenanceLockHeld, AddedStay
<1> QED
  BY <1>1, <1>2, <1>3, <1>4, <1>5, ProcessesSound, ObserveSound, EndEraseSound,
     TransactionSound, CommitMaintenanceSound DEF MaintenanceNext

\* database.migrate, lexical.rebuild: in every state the installed versions are the
\* first ones, the lexical rows are those of the episodes there are, and who serves
\* has the schema it was built for, for any episodes, processes and versions.
THEOREM LexiconStaysComplete == MaintenanceSpec => []LexiconComplete
<1>1. MaintenanceSound => LexiconComplete
  BY DEF MaintenanceSound
<1> QED
  BY <1>1, MaintenanceInitSound, MaintenanceStepSound, PTL DEF MaintenanceSpec
===================================================================================
