------------------------------- MODULE Revisions -------------------------------
(***************************************************************************)
(* The history of assertions and relations in one scope: remember, revise  *)
(* and their idempotency keys, the triggers that adopt a revision and      *)
(* close the one before, purges, and the reads over system time: recall    *)
(* as of a known time, and a client that pages through a history while     *)
(* others write.  An assertion here is a plain one or a relation; their     *)
(* handlers differ only in what a revision cites.                          *)
(*                                                                         *)
(* A request is one step, taken under the tenant's lock (TenantBarrier).   *)
(* Clients repeat requests at will, so every request may be handled any    *)
(* number of times, in any order and between those of others.  What a      *)
(* revision cites are the episodes of its evidence and, in a relation, the *)
(* entities at its ends.  Valid time, a filter that clients choose freely, *)
(* is left out.  The database's clock may be set back.                     *)
(***************************************************************************)
EXTENDS Integers, FiniteSets

CONSTANTS
  Assertion,    \* the identities that remember may draw
  Source,       \* episodes and entities
  Key,          \* idempotency keys of one principal
  None,
  MaxRevision,  \* 1000 in the code
  MaxCites,     \* 32 in the code
  PageSize,     \* AssertionHistory.max_items
  MaxTime       \* bound on the clock

VARIABLES
  clock,    \* clock_timestamp()
  head,     \* assertion.current_revision, or 0 where there is no row
  rows,     \* assertion_revision: assertion -> number -> row or None
  erased,   \* the purged assertions and sources (tombstones)
  results,  \* memory_ops.idempotency
  reader    \* a client that pages through a history, or None

vars == <<clock, head, rows, erased, results, reader>>

Time      == 1 .. MaxTime
Open      == 0                       \* an interval without an upper bound
Number    == 1 .. MaxRevision
Operation == {"remember", "revise"}
Identity  == Operation \X Key

Evidence == {S \in SUBSET Source : Cardinality(S) \in 1 .. MaxCites}

\* remember names no assertion and expects none; revise names one and its head.
Request ==
  [op : {"remember"}, key : Key, memory : {None}, expected : {0}, cites : Evidence]
    \cup
  [op : {"revise"}, key : Key, memory : Assertion, expected : Number, cites : Evidence]

Row    == [from : Time, to : Time \cup {Open}, request : Request]
Result == [request : Request, memory : Assertion, revision : Number]

ASSUME RevisionsAssumption ==
  /\ None \notin Assertion
  /\ Assertion \cap Source = {}
  /\ MaxRevision \in Nat \ {0}
  /\ MaxCites \in Nat \ {0}
  /\ PageSize \in Nat \ {0}
  /\ MaxTime \in Nat \ {0}
  /\ None \notin Row
  /\ None \notin Result

TypeOK ==
  /\ clock \in Time
  /\ head \in [Assertion -> 0 .. MaxRevision]
  /\ rows \in [Assertion -> [Number -> Row \cup {None}]]
  /\ erased \in SUBSET (Assertion \cup Source)
  /\ results \in [Identity -> Result \cup {None}]
  /\ reader # None => /\ reader.memory \in Assertion
                      /\ reader.shown \subseteq Number

Init ==
  /\ clock \in Time
  /\ head = [a \in Assertion |-> 0]
  /\ rows = [a \in Assertion |-> [i \in Number |-> None]]
  /\ erased = {}
  /\ results = [id \in Identity |-> None]
  /\ reader = None

-------------------------------------------------------------------------------
(* Writing *)

Id(r) == <<r.op, r.key>>

\* MemoryService.object: the row exists and has no tombstone.
Exists(a) == head[a] # 0 /\ a \notin erased

\* The head is not the one the request expects.
ConflictsNever(r) == FALSE          \* mutant: the last writer wins
Conflicts(r) == r.op = "revise" /\ head[r.memory] # r.expected

LimitPassed(r) == r.op = "revise" /\ r.expected > MaxRevision   \* mutant
LimitReached(r) == r.op = "revise" /\ r.expected = MaxRevision

\* The trigger adopt_revision refuses a clock that has not passed the head.
ClockReached(r) ==                  \* mutant: leaves empty intervals
  r.op = "revise" => clock >= rows[r.memory][head[r.memory]].from
ClockPassed(r) == r.op = "revise" => clock > rows[r.memory][head[r.memory]].from

\* What the current revision, the evidence and the clock make of a new request.
Judge(r) ==
  IF Conflicts(r)                    THEN "revision_conflict"
  ELSE IF LimitReached(r)            THEN "revision_limit_exceeded"
  ELSE IF r.cites \cap erased # {}   THEN "not_found"
  ELSE IF ~ClockPassed(r)            THEN "unavailable"
  ELSE "adopted"

\* The answer to a request whose key was used before.  Only "adopted" changes
\* anything: a replay reads the stored result, an error rolls back.
Replayed(r) ==
  LET stored == results[Id(r)]
  IN IF stored.request # r           THEN "idempotency_conflict"
     ELSE IF ~Exists(stored.memory)  THEN "not_found"
     ELSE "replayed"

VerdictHeadFirst(r) ==              \* mutant: compares revisions before the key
  IF r.op = "revise" /\ ~Exists(r.memory)     THEN "not_found"
  ELSE IF Judge(r) = "revision_conflict"      THEN "revision_conflict"
  ELSE IF results[Id(r)] # None               THEN Replayed(r)
  ELSE Judge(r)
Verdict(r) ==
  IF r.op = "revise" /\ ~Exists(r.memory)     THEN "not_found"
  ELSE IF results[Id(r)] # None               THEN Replayed(r)
  ELSE Judge(r)

\* The trigger closes the head where the new revision begins.
ClosedNever(row) ==                 \* mutant: leaves the old head open
  [from |-> row.from, to |-> row.from, request |-> row.request]
Closed(row) == [from |-> row.from, to |-> clock, request |-> row.request]

\* insert_revision, and save_result in the same transaction.
Adopt(a, r) ==
  LET n == head[a] + 1
      closed == IF head[a] = 0 THEN rows[a] ELSE [rows[a] EXCEPT ![head[a]] = Closed(@)]
  IN /\ head' = [head EXCEPT ![a] = n]
     /\ rows' = [rows EXCEPT ![a] =
                   [closed EXCEPT ![n] = [from |-> clock, to |-> Open, request |-> r]]]
     /\ results' = [results EXCEPT ![Id(r)] = [request |-> r, memory |-> a, revision |-> n]]
     /\ UNCHANGED <<clock, erased, reader>>

\* remember and create_relation; uuid4 draws an identity nobody had before.
Remember(a, r) ==
  /\ r.op = "remember"
  /\ head[a] = 0 /\ a \notin erased
  /\ Verdict(r) = "adopted"
  /\ Adopt(a, r)

\* revise_assertion and revise_relation.
Revise(r) ==
  /\ r.op = "revise"
  /\ Verdict(r) = "adopted"
  /\ Adopt(r.memory, r)

\* The numbers of the rows of a.
Revisions(a) == {i \in Number : rows[a][i] # None}

\* The part of forget's closure that concerns histories: provenance_edge and
\* relation_revision lead from any revision to the whole assertion.
CitingNow(S) ==                     \* mutant: only what the head still cites
  {a \in Assertion : head[a] # 0 /\ rows[a][head[a]].request.cites \cap S # {}}
Citing(S) ==
  {a \in Assertion : \E i \in Revisions(a) : rows[a][i].request.cites \cap S # {}}

\* MemoryService.forget (Forget has its statements); stored results remain.
Purge(x) ==
  /\ x \notin erased
  /\ x \in Assertion => head[x] # 0
  /\ LET targets == {x} \cup Citing({x})
     IN /\ erased' = erased \cup targets
        /\ rows' = [a \in Assertion |->
                      IF a \in targets THEN [i \in Number |-> None] ELSE rows[a]]
        /\ head' = [a \in Assertion |-> IF a \in targets THEN 0 ELSE head[a]]
  /\ UNCHANGED <<clock, results, reader>>

Tick     == clock < MaxTime /\ clock' = clock + 1
            /\ UNCHANGED <<head, rows, erased, results, reader>>
StepBack == clock > 1 /\ clock' = clock - 1
            /\ UNCHANGED <<head, rows, erased, results, reader>>

-------------------------------------------------------------------------------
(* Reading *)

\* tstzrange [from, to) contains t.
KnownAt(row, t) == row.from <= t /\ (row.to = Open \/ t < row.to)

\* The rows that row security shows, by exact reference.
References == {ref \in Assertion \X Number :
                 ref[1] \notin erased /\ rows[ref[1]][ref[2]] # None}

\* recall's candidates as of a known time.
Recall(t) == {ref \in References : KnownAt(rows[ref[1]][ref[2]], t)}

\* The highest revision of a page with an exclusive position.
HighestInclusive(a, before) ==      \* mutant
  IF before < head[a] THEN before ELSE head[a]
Highest(a, before) == IF before - 1 < head[a] THEN before - 1 ELSE head[a]

\* ORDER BY revision DESC LIMIT n
Newest(S, n) == {i \in S : Cardinality({j \in S : j > i}) < n}

\* assertion_history: one page, with its checks and the next position.
Page(a, before) ==
  LET highest  == Highest(a, before)
      fetched  == Newest({i \in Revisions(a) : i <= highest}, PageSize + 1)
      expected == {i \in Number : i <= highest /\ i >= highest - PageSize}
      shown    == Newest(fetched, PageSize)
      unsupported(i) == rows[a][i].request.cites \subseteq erased
  IN [shown   |-> shown,
      invalid |-> fetched # expected \/ \E i \in shown : unsupported(i),
      next    |-> IF Cardinality(fetched) > PageSize
                  THEN CHOOSE i \in shown : \A j \in shown : i <= j ELSE 0]

\* A client asks for the first page, then for the next ones until there is none.
Read(a, before, got) ==
  /\ Exists(a)
  /\ LET page == Page(a, before)
     IN reader' = [memory  |-> a,
                   next    |-> page.next,
                   shown   |-> got.shown \cup page.shown,
                   count   |-> got.count + Cardinality(page.shown),
                   invalid |-> page.invalid]
  /\ UNCHANGED <<clock, head, rows, erased, results>>

FirstPage == \E a \in Assertion : Read(a, MaxRevision + 1, [shown |-> {}, count |-> 0])
NextPage  == reader # None /\ reader.next # 0 /\ Read(reader.memory, reader.next, reader)

Next ==
  \/ \E r \in Request :
       \/ Revise(r)
       \/ \E a \in Assertion : Remember(a, r)
  \/ \E x \in Assertion \cup Source : Purge(x)
  \/ Tick \/ StepBack
  \/ FirstPage \/ NextPage

Spec == Init /\ [][Next]_vars

-------------------------------------------------------------------------------
(* Properties *)

\* Once there is an assertion, exactly one of its revisions is known at every
\* instant, none before it, and each at the instant it was recorded: no gap, no
\* overlap and no empty interval, whatever the clock does (adopt_revision, check_assertion_history).
OneRevisionAtATime ==
  \A a \in Assertion : Exists(a) =>
    /\ \A t \in Time : Cardinality({i \in Revisions(a) : KnownAt(rows[a][i], t)})
                         = IF t >= rows[a][1].from THEN 1 ELSE 0
    /\ \A i \in Revisions(a) : KnownAt(rows[a][i], rows[a][i].from)

\* No step changes what a read as of a time before the clock gives, but for
\* purges: no request rewrites the past that clients have seen, as long as the
\* clock is not set back behind it (docs/PG_AGMEMORY_IMPLEMENTATION_PLAN.md on
\* system_time).
PastIsSettled ==
  [][\A t \in Time : t < clock =>
       Recall(t)' = {ref \in Recall(t) : ref[1] \notin erased'}]_vars

\* Every revision of an assertion that can be read, old ones included, still
\* has all it cites, and no purged assertion has a row left.
EvidenceStands ==
  \A a \in Assertion, i \in Number : rows[a][i] # None =>
    a \notin erased /\ rows[a][i].request.cites \cap erased = {}

\* A request is answered with a revision exactly when that revision is its
\* own, however often and after whatever others it is repeated: a client that
\* lost an answer reconciles it with its original key (docs/STATUS.md), and a
\* refusal means that nothing this request wrote is there.
AnswersStand ==
  LET shown == References
  IN \A r \in Request :
    {ref \in shown : rows[ref[1]][ref[2]].request = r}
         = IF Verdict(r) = "replayed"
             THEN {<<results[Id(r)].memory, results[Id(r)].revision>>} ELSE {}

\* A client that pages through a history sees every revision below its first
\* page's head once, and is never told that the history is invalid, although
\* revisions are added between its pages (assertion_history).
PagesJoinUp ==
  reader # None =>
    /\ ~reader.invalid
    /\ reader.count = Cardinality(reader.shown)
    /\ \E top \in Number :
         reader.shown = (IF reader.next = 0 THEN 1 ELSE reader.next) .. top

\* Writers get an append-only log in which a request takes effect once.
Contract == INSTANCE HistoryContract WITH
  log  <- [a \in Assertion |-> [i \in 1 .. head[a] |-> rows[a][i].request]],
  used <- {id \in Identity : results[id] # None},
  gone <- erased

ContractSpec == Contract!Spec

-------------------------------------------------------------------------------
(* The inductive invariant *)

\* An assertion has the revisions 1 to its head.  Each was written by a request
\* that expected the one before and named its assertion, if it existed.
Numbered ==
  \A a \in Assertion :
    /\ a \in erased => head[a] = 0
    /\ \A i \in Number :
         /\ rows[a][i] # None <=> i <= head[a]
         /\ i <= head[a] => /\ rows[a][i].request.expected = i - 1
                            /\ rows[a][i].request.memory = IF i = 1 THEN None ELSE a

\* The head is open, older intervals are not empty and end before later ones.
Ordered ==
  \A a \in Assertion, i \in Number :
    i <= head[a] =>
      /\ i = head[a] => rows[a][i].to = Open
      /\ i < head[a] => rows[a][i].to \in Time /\ rows[a][i].from < rows[a][i].to
      /\ \A j \in Number : i < j /\ j <= head[a] => rows[a][i].to <= rows[a][j].from

\* From its first revision on an assertion always has a known one.
Covered ==
  \A a \in Assertion, t \in Time :
    head[a] # 0 /\ rows[a][1].from <= t =>
      \E i \in Number : i <= head[a] /\ KnownAt(rows[a][i], t)

\* Stored results and revisions agree, as long as the assertion is there.
Stored ==
  /\ \A id \in Identity : results[id] # None =>
       /\ Id(results[id].request) = id
       /\ \/ results[id].memory \in erased
          \/ /\ results[id].revision <= head[results[id].memory]
             /\ rows[results[id].memory][results[id].revision].request = results[id].request
  /\ \A a \in Assertion, i \in Number : i <= head[a] =>
       results[Id(rows[a][i].request)]
         = [request |-> rows[a][i].request, memory |-> a, revision |-> i]

Inductive == TypeOK /\ Numbered /\ Ordered /\ Covered /\ EvidenceStands /\ Stored
===============================================================================
