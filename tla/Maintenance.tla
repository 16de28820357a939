------------------------------ MODULE Maintenance ------------------------------
(***************************************************************************)
(* Migrations and the lexical reindexing (database.py, lexical.py) beside  *)
(* the processes that serve requests, which look at the schema when they   *)
(* start and no more.  A maintenance command is one transaction at READ    *)
(* COMMITTED under an advisory lock that no request takes: it reads the    *)
(* episodes of one moment, deletes the lexical rows of another, and meets  *)
(* the requests between only at the rows, in primary and foreign keys.     *)
(* The lexical rows of assertions are maintained by the same statements    *)
(* with the same keys.  Operators stop the processes of older versions     *)
(* before they migrate and start them no more (docs/STATUS.md).            *)
(***************************************************************************)
EXTENDS Integers, FiniteSets, Outcomes

CONSTANTS
  Maintainer,     \* maintenance commands, one process each
  Runtime,        \* API servers and workers
  Build,          \* the SCHEMA_VERSION each of them is made for
  Episode,
  Latest,         \* the SCHEMA_VERSION of the commands
  LexicalVersion  \* the migration that creates and fills the lexical tables

ASSUME MaintenanceAssumption ==
  /\ None \notin Maintainer
  /\ Latest \in Nat /\ LexicalVersion \in 2..Latest
  /\ Build \in [Runtime -> 1..Latest]

VARIABLES
  installed,      \* pgag_schema_migration
  stored,         \* episode
  lexicon,        \* episode_lexical: the episodes with a row
  unborn,         \* episodes nobody has observed yet
  running,        \* processes that passed their check and serve
  erasing,        \* the rows that an open purge of an episode holds
  task, maintPhase,
  maintLock,      \* the command under the advisory lock, or None
  draft           \* what its transaction has done so far

maintTables == <<installed, stored, lexicon>>
maintVars   == <<maintTables, unborn, running, erasing, task, maintPhase, maintLock, draft>>

MaintPhases == {"idle", "waiting", "checking", "applying", "clearing", "cleared",
                "filling", "ended"}

NoDraft == [to |-> 0, cleared |-> {}, cursor |-> {}, added |-> {}]

\* The types of the schema, the tables and the transaction under the lock.
MaintenanceTypeOK ==
  /\ installed \subseteq 1..Latest
  /\ stored \subseteq Episode /\ lexicon \subseteq Episode /\ unborn \subseteq Episode
  /\ running \subseteq Runtime
  /\ erasing \in [Episode -> {"nothing", "episode", "both"}]
  /\ task \in [Maintainer -> {"migrate", "reindex"}]
  /\ maintPhase \in [Maintainer -> MaintPhases]
  /\ maintLock \in Maintainer \cup {None}
  /\ draft \in [to : 0..Latest, cleared : SUBSET Episode, cursor : SUBSET Episode,
                added : SUBSET Episode]

\* A database of some version with some episodes, nobody at work.
MaintenanceInit ==
  /\ \E v \in 0..Latest :
       /\ installed = 1..v
       /\ stored \in IF v = 0 THEN {{}} ELSE SUBSET Episode
       /\ lexicon = IF v < LexicalVersion THEN {} ELSE stored
  /\ unborn = Episode \ stored
  /\ running = {}
  /\ erasing = [e \in Episode |-> "nothing"]
  /\ task \in [Maintainer -> {"migrate", "reindex"}]
  /\ maintPhase = [m \in Maintainer |-> "idle"]
  /\ maintLock = None
  /\ draft = NoDraft

Version == Cardinality(installed)

-------------------------------------------------------------------------------
(* The processes that serve.                                               *)

Migrating == \E m \in Maintainer : task[m] = "migrate" /\ maintPhase[m] \notin {"idle", "ended"}

\* validate_runtime: exactly the versions of this build are installed.
Validates(r) == installed = 1..Build[r]

Start(r) ==
  /\ r \notin running
  /\ Validates(r)
  /\ Migrating => Build[r] = Latest         \* the operator's part
  /\ running' = running \cup {r}
  /\ UNCHANGED <<maintTables, unborn, erasing, task, maintPhase, maintLock, draft>>

Stop(r) ==
  /\ r \in running
  /\ running' = running \ {r}
  /\ UNCHANGED <<maintTables, unborn, erasing, task, maintPhase, maintLock, draft>>

\* observe inserts the episode and its lexical row in one transaction.
Observe(r, e) ==
  /\ r \in running
  /\ e \in unborn
  /\ unborn' = unborn \ {e}
  /\ stored' = stored \cup {e}
  /\ lexicon' = IF Build[r] < LexicalVersion THEN lexicon ELSE lexicon \cup {e}
  /\ UNCHANGED <<installed, running, erasing, task, maintPhase, maintLock, draft>>

\* forget deletes the episode, unless the reindexing holds it by a foreign key ...
EraseEpisode(r, e) ==
  /\ r \in running
  /\ e \in stored \ draft.added
  /\ erasing[e] = "nothing"
  /\ erasing' = [erasing EXCEPT ![e] = "episode"]
  /\ UNCHANGED <<maintTables, unborn, running, task, maintPhase, maintLock, draft>>

\* ... and the delete cascades to the lexical row, unless the reindexing has it.
EraseLexical(e) ==
  /\ erasing[e] = "episode"
  /\ e \notin draft.cleared
  /\ erasing' = [erasing EXCEPT ![e] = "both"]
  /\ UNCHANGED <<maintTables, unborn, running, task, maintPhase, maintLock, draft>>

\* The purge commits, or fails: its time is up, or it is the victim of a deadlock.
EndErase(e) ==
  /\ erasing[e] # "nothing"
  /\ erasing' = [erasing EXCEPT ![e] = "nothing"]
  /\ \/ UNCHANGED maintTables
     \/ /\ erasing[e] = "both"
        /\ stored' = stored \ {e}
        /\ lexicon' = lexicon \ {e}
        /\ UNCHANGED installed
  /\ UNCHANGED <<unborn, running, task, maintPhase, maintLock, draft>>

-------------------------------------------------------------------------------
(* Maintenance.                                                            *)

MaintGoto(m, phase) == maintPhase' = [maintPhase EXCEPT ![m] = phase]

\* Older processes are stopped and drained before a migration begins.
BeginMaintenance(m) ==
  /\ maintPhase[m] = "idle"
  /\ task[m] = "migrate" => \A r \in running : Build[r] = Latest
  /\ MaintGoto(m, "waiting")
  /\ UNCHANGED <<maintTables, unborn, running, erasing, task, maintLock, draft>>

TakeMaintenanceLock(m) ==
  /\ maintPhase[m] = "waiting"
  /\ maintLock = None
  /\ maintLock' = m
  /\ MaintGoto(m, "checking")
  /\ UNCHANGED <<maintTables, unborn, running, erasing, task, draft>>

\* The history of versions is one this build knows.
CheckHistory(m) ==
  /\ maintPhase[m] = "checking"
  /\ installed = 1..Version
  /\ IF task[m] = "migrate"
       THEN Version <= Latest /\ MaintGoto(m, "applying")
       ELSE Version = Latest /\ MaintGoto(m, "clearing")
  /\ draft' = [draft EXCEPT !.to = Version]
  /\ UNCHANGED <<maintTables, unborn, running, erasing, task, maintLock>>

ApplyMigration(m) ==
  /\ maintPhase[m] = "applying"
  /\ draft.to < Latest
  /\ draft' = [draft EXCEPT !.to = @ + 1]
  /\ MaintGoto(m, IF draft.to + 1 = LexicalVersion THEN "clearing" ELSE "applying")
  /\ UNCHANGED <<maintTables, unborn, running, erasing, task, maintLock>>

\* rebuild: DELETE takes the rows of its snapshot, and waits for purges under way.
Clear(m) ==
  /\ maintPhase[m] = "clearing"
  /\ draft' = [draft EXCEPT !.cleared = lexicon]
  /\ MaintGoto(m, "cleared")
  /\ UNCHANGED <<maintTables, unborn, running, erasing, task, maintLock>>

\* The cursor is opened: its snapshot is a later one.
Scan(m) ==
  /\ maintPhase[m] = "cleared"
  /\ \A e \in draft.cleared : erasing[e] # "both"
  /\ draft' = [draft EXCEPT !.cursor = stored]
  /\ MaintGoto(m, "filling")
  /\ UNCHANGED <<maintTables, unborn, running, erasing, task, maintLock>>

\* INSERT of one row: the primary key refuses a row that is there, the foreign key
\* an episode that is gone, and a purge under way makes it wait.
Fill(m, e) ==
  /\ maintPhase[m] = "filling"
  /\ e \in draft.cursor \ draft.added
  /\ e \notin lexicon \ draft.cleared
  /\ e \in stored
  /\ erasing[e] = "nothing"
  /\ draft' = [draft EXCEPT !.added = @ \cup {e}]
  /\ UNCHANGED <<maintTables, unborn, running, erasing, task, maintPhase, maintLock>>

Filled(m) ==
  /\ maintPhase[m] = "filling"
  /\ draft.cursor \subseteq draft.added
  /\ MaintGoto(m, "applying")
  /\ UNCHANGED <<maintTables, unborn, running, erasing, task, maintLock, draft>>

EndMaintenance(m) ==
  /\ MaintGoto(m, "ended")
  /\ maintLock' = IF maintLock = m THEN None ELSE maintLock
  /\ draft' = IF maintLock = m THEN NoDraft ELSE draft
  /\ UNCHANGED <<stored, unborn, running, erasing, task>>

RebuiltWhole == draft.added          \* mutant: TRUNCATE, so rows of others go as well

\* What the transaction leaves: DELETE took the rows it saw, INSERT added its own.
Rebuilt == (lexicon \ draft.cleared) \cup draft.added

CommitMaintenance(m) ==
  /\ maintPhase[m] = "applying"
  /\ draft.to = Latest
  /\ installed' = 1..draft.to
  /\ lexicon' = Rebuilt
  /\ EndMaintenance(m)

\* An error, a duplicate key, a deadlock, a lock timeout, a wrong vector extension,
\* a killed process: everything rolls back.
FailMaintenance(m) ==
  /\ maintPhase[m] \notin {"idle", "ended"}
  /\ UNCHANGED <<installed, lexicon>>
  /\ EndMaintenance(m)

MaintenanceNext ==
  \/ \E r \in Runtime :
       \/ Start(r) \/ Stop(r)
       \/ \E e \in Episode : Observe(r, e) \/ EraseEpisode(r, e)
  \/ \E e \in Episode : EraseLexical(e) \/ EndErase(e)
  \/ \E m \in Maintainer :
       \/ BeginMaintenance(m) \/ TakeMaintenanceLock(m) \/ CheckHistory(m)
       \/ ApplyMigration(m) \/ Clear(m) \/ Scan(m) \/ Filled(m)
       \/ CommitMaintenance(m) \/ FailMaintenance(m)
       \/ \E e \in Episode : Fill(m, e)

MaintenanceSpec == MaintenanceInit /\ [][MaintenanceNext]_maintVars

-------------------------------------------------------------------------------
\* database.migrate, lexical.rebuild: whatever fails and whoever writes meanwhile,
\* the installed versions are the first ones, the lexical rows are exactly those of
\* the episodes there are (none before their tables exist), and no process serves a
\* schema that is not its own.
LexiconComplete ==
  /\ installed = 1..Version
  /\ lexicon = IF Version < LexicalVersion THEN {} ELSE stored
  /\ \A r \in running : Build[r] = Version
===============================================================================
