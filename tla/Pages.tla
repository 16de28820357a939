--------------------------------- MODULE Pages ---------------------------------
(***************************************************************************)
(* Listing in pages: query_episodes (service.py), Jobs.query (jobs.py) and *)
(* query_entities (graphs.py) show the newest rows first, by the time they *)
(* were recorded and then by id, and continue below the last row shown.    *)
(* Each page is a request of its own; between two pages rows are inserted  *)
(* and purged, jobs change the state the listing filters by, and the clock *)
(* that dates new rows may stand still or be set back.                     *)
(***************************************************************************)
EXTENDS Integers, Sequences, FiniteSets, SequencesExt, Outcomes

CONSTANTS
  Row,        \* ids, in the order of uuids
  MaxTime,    \* instants the clock may show
  PageSize    \* max_items

ASSUME PagesAssumption ==
  /\ Row \subseteq Nat /\ None \notin [at : Nat, row : Row]
  /\ MaxTime \in Nat \ {0} /\ PageSize \in Nat \ {0}

VARIABLES
  listed,     \* which of the three listings is read
  rowState,   \* of each row: "unborn", "there" or "gone"
  recordedAt, \* created_at, 0 before there is one
  matching,   \* the rows that pass the filter
  cursor,     \* [at, row] of the last row shown, or None
  shown,      \* the rows of all pages so far
  paging,     \* "idle", "more" or "done"
  steady      \* the rows that were there and matched ever since the first page

pagesVars == <<listed, rowState, recordedAt, matching, cursor, shown, paging, steady>>

\* The types of the rows and of the client's position.
PagesTypeOK ==
  /\ listed \in {"episodes", "jobs", "entities"}
  /\ rowState \in [Row -> {"unborn", "there", "gone"}]
  /\ recordedAt \in [Row -> 0..MaxTime]
  /\ matching \subseteq Row /\ steady \subseteq Row
  /\ cursor \in [at : 1..MaxTime, row : Row] \cup {None}
  /\ shown \in Seq(Row)
  /\ paging \in {"idle", "more", "done"}

PagesInit ==
  /\ listed \in {"episodes", "jobs", "entities"}
  /\ rowState = [r \in Row |-> "unborn"]
  /\ recordedAt = [r \in Row |-> 0]
  /\ matching = {} /\ steady = {}
  /\ cursor = None
  /\ shown = <<>>
  /\ paging = "idle"

-------------------------------------------------------------------------------
Newer(r, s) ==
  \/ recordedAt[r] > recordedAt[s]
  \/ recordedAt[r] = recordedAt[s] /\ r > s

BelowByTime(r, c) == recordedAt[r] < c.at      \* mutant: the id is not compared

\* (created_at, id) < (before.created_at, before.id)
Below(r, c) ==
  \/ recordedAt[r] < c.at
  \/ recordedAt[r] = c.at /\ r < c.row

\* What the query selects before LIMIT,
Selected == {r \in matching : rowState[r] = "there" /\ (cursor = None \/ Below(r, cursor))}

\* and in its order: the row that n - 1 of the others are newer than.
Nth(n) == CHOOSE r \in Selected : Cardinality({s \in Selected : Newer(s, r)}) = n - 1

InsertRow(r, t) ==
  /\ rowState[r] = "unborn"
  /\ rowState' = [rowState EXCEPT ![r] = "there"]
  /\ recordedAt' = [recordedAt EXCEPT ![r] = t]
  /\ matching' \in {matching, matching \cup {r}}
  /\ UNCHANGED <<listed, cursor, shown, paging, steady>>

PurgeRow(r) ==
  /\ rowState[r] = "there"
  /\ rowState' = [rowState EXCEPT ![r] = "gone"]
  /\ steady' = steady \ {r}
  /\ UNCHANGED <<listed, recordedAt, matching, cursor, shown, paging>>

\* A job moves between the states that are asked for and the others.
ChangeState(r) ==
  /\ listed = "jobs"
  /\ rowState[r] = "there"
  /\ matching' = IF r \in matching THEN matching \ {r} ELSE matching \cup {r}
  /\ steady' = steady \ {r}
  /\ UNCHANGED <<listed, rowState, recordedAt, cursor, shown, paging>>

\* One request: LIMIT max_items + 1, and a cursor if there was one more.
ReadPage ==
  LET more == Cardinality(Selected) > PageSize
      size == IF more THEN PageSize ELSE Cardinality(Selected)
      page == [n \in 1..size |-> Nth(n)]
  IN
  /\ paging # "done"
  /\ shown' = shown \o page
  /\ paging' = IF more THEN "more" ELSE "done"
  /\ cursor' = IF more THEN [at |-> recordedAt[Nth(size)], row |-> Nth(size)] ELSE None
  /\ steady' = IF paging = "idle" THEN Selected ELSE steady
  /\ UNCHANGED <<listed, rowState, recordedAt, matching>>

PagesNext ==
  \/ \E r \in Row :
       \/ \E t \in 1..MaxTime : InsertRow(r, t)
       \/ PurgeRow(r) \/ ChangeState(r)
  \/ ReadPage

PagesSpec == PagesInit /\ [][PagesNext]_pagesVars

-------------------------------------------------------------------------------
\* query_episodes, Jobs.query, query_entities: the pages together are one listing,
\* whatever happened between them.  No row is shown twice, the order is that of one
\* page, and every row that was there and matched all the time is on one of them.
PagesAgree ==
  /\ \A m, n \in DOMAIN shown : m < n => Newer(shown[m], shown[n])
  /\ paging = "done" => steady \subseteq ToSet(shown)
================================================================================
