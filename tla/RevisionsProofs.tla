---------------------------- MODULE RevisionsProofs ----------------------------
(***************************************************************************)
(* Theorems about Revisions for every set of assertions, sources and keys  *)
(* and every value of the bounds.                                          *)
(***************************************************************************)
EXTENDS Revisions, Sequences, FiniteSetTheorems, TLAPS

\* What a request that is adopted says, and what Verdict saw of the state.
Adoptable(a, r) ==
  /\ r \in Request /\ a \in Assertion \ erased
  /\ head[a] < MaxRevision
  /\ r.expected = head[a]
  /\ r.memory = IF head[a] = 0 THEN None ELSE a
  /\ results[Id(r)] = None
  /\ r.cites \cap erased = {}
  /\ head[a] # 0 => clock > rows[a][head[a]].from

\* The fields of a request.
LEMMA RequestFields ==
  ASSUME NEW r \in Request
  PROVE  /\ r.op = "remember" => r.memory = None /\ r.expected = 0
         /\ r.op = "revise" => r.memory \in Assertion /\ r.expected \in Number
         /\ r.op \in Operation /\ r.key \in Key /\ Id(r) \in Identity
         /\ r.cites \in SUBSET Source
  BY DEF Request, Operation, Identity, Id, Evidence

\* A request to remember adopts the first revision of a fresh assertion.
LEMMA RememberAdopts ==
  ASSUME TypeOK, NEW a \in Assertion, NEW r \in Request, Remember(a, r)
  PROVE  Adoptable(a, r) /\ Adopt(a, r)
  BY RequestFields, RevisionsAssumption
  DEF Remember, Verdict, Replayed, Judge, Adoptable, TypeOK

\* A request to revise adopts the revision after the one it expects.
LEMMA ReviseAdopts ==
  ASSUME TypeOK, NEW r \in Request, Revise(r)
  PROVE  /\ r.memory \in Assertion
         /\ Adoptable(r.memory, r) /\ Adopt(r.memory, r)
<1>1. /\ r.op = "revise" /\ r.memory \in Assertion /\ r.expected \in Number
      /\ Verdict(r) = "adopted" /\ Adopt(r.memory, r)
  BY RequestFields DEF Revise
<1>2. Exists(r.memory) /\ results[Id(r)] = None /\ Judge(r) = "adopted"
  BY <1>1 DEF Verdict, Replayed
<1>3. ~Conflicts(r) /\ ~LimitReached(r) /\ r.cites \cap erased = {} /\ ClockPassed(r)
  BY <1>2 DEF Judge
<1>4. head[r.memory] \in 0 .. MaxRevision
  BY <1>1 DEF TypeOK
<1>. QED
  BY <1>1, <1>2, <1>3, <1>4, RevisionsAssumption
  DEF Adoptable, Exists, Conflicts, LimitReached, ClockPassed

\* What an adoption leaves in the rows: a new head, the old one closed, the
\* rest, and every request and lower bound, as it was.
Adopted(a, r) ==
  /\ head[a] \in Nat /\ head[a] + 1 \in Number
  /\ head[a] # 0 => head[a] \in Number
  /\ \A b \in Assertion \ {a} : rows'[b] = rows[b] /\ head'[b] = head[b]
  /\ head'[a] = head[a] + 1
  /\ rows'[a][head[a] + 1] \in Row
  /\ rows'[a][head[a] + 1].from = clock
  /\ rows'[a][head[a] + 1].to = Open
  /\ rows'[a][head[a] + 1].request = r
  /\ head[a] # 0 => /\ rows[a][head[a]] \in Row /\ rows'[a][head[a]] \in Row
                    /\ rows'[a][head[a]].from = rows[a][head[a]].from
                    /\ rows'[a][head[a]].to = clock
                    /\ rows'[a][head[a]].request = rows[a][head[a]].request
  /\ \A i \in Number : i # head[a] + 1 /\ i # head[a] => rows'[a][i] = rows[a][i]
  /\ \A b \in Assertion, i \in Number : i <= head[b] =>
       /\ rows'[b][i].request = rows[b][i].request
       /\ rows'[b][i].from = rows[b][i].from
       /\ i <= head'[b]

\* What an adoption leaves in the row and in the one before.
LEMMA AdoptEffect ==
  ASSUME TypeOK, Numbered, NEW a \in Assertion, NEW r, Adoptable(a, r), Adopt(a, r)
  PROVE  Adopted(a, r)
<1> DEFINE n == head[a] + 1
           new == [from |-> clock, to |-> Open, request |-> r]
           old == rows[a][head[a]]
<1>1. head[a] \in Nat /\ n \in Number /\ (head[a] # 0 => head[a] \in Number)
  BY RevisionsAssumption DEF Adoptable, TypeOK, Number
<1>2. rows \in [Assertion -> [Number -> Row \cup {None}]] /\ clock \in Time
      /\ head \in [Assertion -> 0 .. MaxRevision]
  BY DEF TypeOK
<1>3. new \in Row
  BY <1>2 DEF Row, Adoptable
<1>4. ASSUME head[a] # 0
      PROVE  old \in Row /\ Closed(old) \in Row
  <2>1. old \in Row
    <3>1. rows[a][head[a]] # None
      BY <1>1, <1>4 DEF Numbered
    <3>. QED BY <1>1, <1>2, <1>4, <3>1
  <2>. QED BY <1>2, <2>1 DEF Row, Closed
<1>5. /\ \A b \in Assertion \ {a} : rows'[b] = rows[b] /\ head'[b] = head[b]
      /\ head'[a] = n
  BY <1>2 DEF Adopt
<1>6. /\ rows'[a][n] = new
      /\ head[a] # 0 => rows'[a][head[a]] = Closed(old)
      /\ \A i \in Number : i # n /\ i # head[a] => rows'[a][i] = rows[a][i]
  <2>1. CASE head[a] = 0
    <3>1. rows' = [rows EXCEPT ![a] = [rows[a] EXCEPT ![n] = new]]
      BY <2>1 DEF Adopt
    <3>. QED BY <1>1, <1>2, <2>1, <3>1
  <2>2. CASE head[a] # 0
    <3>1. rows' = [rows EXCEPT ![a] =
                     [[rows[a] EXCEPT ![head[a]] = Closed(old)] EXCEPT ![n] = new]]
      BY <2>2 DEF Adopt
    <3>2. rows'[a] = [[rows[a] EXCEPT ![head[a]] = Closed(old)] EXCEPT ![n] = new]
      BY <1>2, <3>1
    <3>3. rows[a] \in [Number -> Row \cup {None}]
      BY <1>2
    <3>. HIDE DEF new, old
    <3>. QED BY <1>1, <2>2, <3>2, <3>3
  <2>. QED BY <2>1, <2>2
<1>7. head[a] # 0 => /\ Closed(old).from = old.from /\ Closed(old).to = clock
                     /\ Closed(old).request = old.request
  BY DEF Closed
<1>8. ASSUME NEW b \in Assertion, NEW i \in Number, i <= head[b]
      PROVE  /\ rows'[b][i].request = rows[b][i].request
             /\ rows'[b][i].from = rows[b][i].from
             /\ i <= head'[b]
  <2>1. CASE b # a
    BY <1>5, <1>8, <2>1
  <2>2. CASE b = a /\ i = head[a]
    BY <1>1, <1>5, <1>6, <1>7, <2>2 DEF Number
  <2>3. CASE b = a /\ i # head[a]
    BY <1>1, <1>5, <1>6, <1>8, <2>3 DEF Number
  <2>. QED BY <2>1, <2>2, <2>3
<1>. QED BY <1>1, <1>3, <1>4, <1>5, <1>6, <1>7, <1>8 DEF Adopted

\* Adoptions preserve the types,
LEMMA AdoptType ==
  ASSUME TypeOK, Numbered, NEW a \in Assertion, NEW r, Adoptable(a, r), Adopt(a, r), Adopted(a, r)
  PROVE  TypeOK'
<1>1. r \in Request /\ Id(r) \in Identity
  BY RequestFields DEF Adoptable
<1>2. rows' \in [Assertion -> [Number -> Row \cup {None}]]
  <2>1. ASSUME NEW i \in Number PROVE rows'[a][i] \in Row \cup {None}
    <3>1. CASE i = head[a] + 1 \/ i = head[a]
      BY <3>1 DEF Number, Adopted
    <3>2. CASE ~(i = head[a] + 1 \/ i = head[a])
      BY <3>2 DEF TypeOK, Adopted
    <3>. QED BY <3>1, <3>2
  <2>2. rows'[a] \in [Number -> Row \cup {None}]
    BY <2>1 DEF Adopt, TypeOK
  <2>. QED BY <2>2 DEF Adopt, TypeOK
<1>3. results' \in [Identity -> Result \cup {None}]
  BY <1>1 DEF Adopt, TypeOK, Result, Adopted
<1>. QED BY <1>2, <1>3 DEF Adopt, TypeOK, Number, Adopted

\* the numbers of the revisions,
LEMMA AdoptNumbered ==
  ASSUME TypeOK, Numbered, NEW a \in Assertion, NEW r, Adoptable(a, r), Adopt(a, r), Adopted(a, r)
  PROVE  Numbered'
<1>1. a \notin erased /\ erased' = erased /\ r.expected = head[a]
      /\ r.memory = IF head[a] = 0 THEN None ELSE a
  BY DEF Adoptable, Adopt
<1>2. ASSUME NEW b \in Assertion \ {a}
      PROVE  /\ b \in erased => head'[b] = 0
             /\ \A i \in Number :
                  /\ rows'[b][i] # None <=> i <= head'[b]
                  /\ i <= head'[b] =>
                       /\ rows'[b][i].request.expected = i - 1
                       /\ rows'[b][i].request.memory = IF i = 1 THEN None ELSE b
  BY <1>2 DEF Numbered, Adopted
<1>3. ASSUME NEW i \in Number
      PROVE  /\ rows'[a][i] # None <=> i <= head'[a]
             /\ i <= head'[a] =>
                  /\ rows'[a][i].request.expected = i - 1
                  /\ rows'[a][i].request.memory = IF i = 1 THEN None ELSE a
  <2>1. CASE i = head[a] + 1
    BY <1>1, <2>1, RevisionsAssumption DEF Adopted
  <2>2. CASE i = head[a]
    <3>1. i > 0 /\ i \in Int
      BY DEF Number
    <3>2. rows'[a][i] # None /\ i <= head'[a]
      BY <2>2, <3>1, RevisionsAssumption DEF Adopted
    <3>. QED BY <2>2, <3>1, <3>2 DEF Numbered, Adopted
  <2>3. CASE i # head[a] + 1 /\ i # head[a]
    BY <2>3 DEF Numbered, Number, Adopted
  <2>. QED BY <2>1, <2>2, <2>3
<1>. QED BY <1>1, <1>2, <1>3 DEF Numbered

\* the order of their intervals,
LEMMA AdoptOrdered ==
  ASSUME TypeOK, Numbered, Ordered,
         NEW a \in Assertion, NEW r, Adoptable(a, r), Adopt(a, r), Adopted(a, r)
  PROVE  Ordered'
<1> DEFINE n == head[a] + 1
<1>1. clock \in Time /\ (head[a] # 0 => clock > rows[a][head[a]].from)
  BY DEF TypeOK, Adoptable
<1>2. ASSUME NEW b \in Assertion \ {a}, NEW i \in Number, i <= head'[b]
      PROVE  /\ i = head'[b] => rows'[b][i].to = Open
             /\ i < head'[b] => rows'[b][i].to \in Time /\ rows'[b][i].from < rows'[b][i].to
             /\ \A j \in Number : i < j /\ j <= head'[b] => rows'[b][i].to <= rows'[b][j].from
  BY <1>2 DEF Ordered, Adopted
<1>3. ASSUME NEW i \in Number, i <= head'[a]
      PROVE  /\ i = head'[a] => rows'[a][i].to = Open
             /\ i < head'[a] => rows'[a][i].to \in Time /\ rows'[a][i].from < rows'[a][i].to
             /\ \A j \in Number : i < j /\ j <= head'[a] => rows'[a][i].to <= rows'[a][j].from
  <2>1. CASE i = n
    BY <2>1 DEF Number, Adopted
  <2>2. CASE i = head[a]
    <3>1. rows'[a][i].to = clock /\ rows'[a][i].from = rows[a][i].from
          /\ head[a] # 0
      BY <2>2 DEF Number, Adopted
    <3>2. rows'[a][n].from = clock /\ head'[a] = n
      BY DEF Adopted
    <3>3. rows[a][i].from < clock /\ clock \in Int
      BY <1>1, <2>2, <3>1 DEF Time
    <3>4. ASSUME NEW j \in Number, i < j, j <= n PROVE j = n
      BY <2>2, <3>4 DEF Number
    <3>. QED BY <1>1, <2>2, <3>1, <3>2, <3>3, <3>4
  <2>3. CASE i < head[a]
    <3>1. rows'[a][i] = rows[a][i] /\ head'[a] = n /\ head[a] \in Nat
          /\ head[a] \in Number /\ i < head[a] /\ i \in Nat /\ rows'[a][n].from = clock
      BY <2>3 DEF Number, Adopted
    <3>2. rows[a][i].to \in Time /\ rows[a][i].from < rows[a][i].to
      BY <3>1 DEF Ordered, Number
    <3>3. ASSUME NEW j \in Number, i < j, j <= n
          PROVE  rows[a][i].to <= rows'[a][j].from
      <4>1. CASE j = n
        <5>1. rows[a][i].to <= rows[a][head[a]].from
          BY <3>1, <2>3 DEF Ordered, Number
        <5>2. rows[a][head[a]].from \in Int
          BY <3>1 DEF Row, Time, Adopted
        <5>. QED BY <1>1, <3>1, <3>2, <4>1, <5>1, <5>2 DEF Time
      <4>2. CASE j # n
        <5>1. j <= head[a]
          BY <3>3, <4>2 DEF Number, Adopted
        <5>2. rows'[a][j].from = rows[a][j].from
          BY <5>1 DEF Adopted
        <5>. QED BY <3>1, <3>3, <5>1, <5>2 DEF Ordered, Number
      <4>. QED BY <4>1, <4>2
    <3>. QED BY <3>1, <3>2, <3>3, <2>3 DEF Number
  <2>. QED BY <1>3, <2>1, <2>2, <2>3 DEF Number, Adopted
<1>. QED BY <1>2, <1>3 DEF Ordered

\* their coverage of the time since the first,
LEMMA AdoptCovered ==
  ASSUME TypeOK, Numbered, Ordered, Covered,
         NEW a \in Assertion, NEW r, Adoptable(a, r), Adopt(a, r), Adopted(a, r)
  PROVE  Covered'
<1> DEFINE n == head[a] + 1
<1> SUFFICES ASSUME NEW b \in Assertion, NEW t \in Time, head'[b] # 0, rows'[b][1].from <= t
             PROVE  \E i \in Number : i <= head'[b] /\ KnownAt(rows'[b][i], t)
  BY DEF Covered, KnownAt
<1>1. CASE b # a
  BY <1>1 DEF Covered, Adopted
<1>2. CASE b = a /\ clock <= t
  BY <1>2 DEF KnownAt, Number, Adopted
<1>3. CASE b = a /\ t < clock
  <2>1. n > 1 /\ 1 \in Number
    <3>1. head[a] = 0 => rows'[a][1].from = clock
      BY DEF Adopted
    <3>2. head[a] # 0
      BY <1>3, <3>1 DEF TypeOK, Time
    <3>. QED BY <3>2, RevisionsAssumption DEF Number, Adopted
  <2>2. rows[a][1].from <= t
    BY <1>3, <2>1 DEF Adopted
  <2>3. PICK i \in Number : i <= head[a] /\ KnownAt(rows[a][i], t)
    BY <2>1, <2>2 DEF Covered, Adopted
  <2>4. CASE i = n - 1
    <3>1. rows'[a][i].to = clock /\ rows'[a][i].from = rows[a][i].from
      BY <2>1, <2>4 DEF Adopted
    <3>. QED BY <1>3, <2>3, <2>4, <3>1 DEF KnownAt, Number, Adopted
  <2>5. CASE i # n - 1
    BY <1>3, <2>3, <2>5 DEF Number, Adopted
  <2>. QED BY <2>4, <2>5
<1>. QED BY <1>1, <1>2, <1>3 DEF TypeOK, Time

\* the evidence of every row,
LEMMA AdoptEvidence ==
  ASSUME TypeOK, Numbered, EvidenceStands,
         NEW a \in Assertion, NEW r, Adoptable(a, r), Adopt(a, r), Adopted(a, r)
  PROVE  EvidenceStands'
<1> SUFFICES ASSUME NEW b \in Assertion, NEW i \in Number, rows'[b][i] # None
             PROVE  b \notin erased /\ rows'[b][i].request.cites \cap erased = {}
  BY DEF EvidenceStands, Adopt
<1>1. CASE b = a /\ i = head[a] + 1
  BY <1>1 DEF Adoptable, Adopted
<1>2. CASE ~(b = a /\ i = head[a] + 1)
  <2>1. i <= head[b]
    BY <1>2, AdoptNumbered DEF Numbered, Number, Adopted
  <2>. QED BY <2>1 DEF EvidenceStands, Numbered, Adopted
<1>. QED BY <1>1, <1>2

\* and the agreement of rows and stored results.
LEMMA AdoptStored ==
  ASSUME TypeOK, Numbered, Stored,
         NEW a \in Assertion, NEW r, Adoptable(a, r), Adopt(a, r), Adopted(a, r)
  PROVE  Stored'
<1> DEFINE n == head[a] + 1
<1>1. /\ Id(r) \in Identity /\ results[Id(r)] = None /\ erased' = erased
      /\ results' = [results EXCEPT ![Id(r)] =
                       [request |-> r, memory |-> a, revision |-> n]]
  BY RequestFields DEF Adoptable, Adopt
<1>2. results'[Id(r)] = [request |-> r, memory |-> a, revision |-> n]
  BY <1>1 DEF TypeOK
<1>3. \A id \in Identity \ {Id(r)} : results'[id] = results[id]
  BY <1>1 DEF TypeOK
<1>4. ASSUME NEW id \in Identity, results'[id] # None
      PROVE  /\ Id(results'[id].request) = id
             /\ \/ results'[id].memory \in erased
                \/ /\ results'[id].revision <= head'[results'[id].memory]
                   /\ rows'[results'[id].memory][results'[id].revision].request
                        = results'[id].request
  <2>1. CASE id = Id(r)
    BY <1>2, <2>1 DEF Number, Adopted
  <2>2. CASE id # Id(r)
    <3>1. results'[id] = results[id] /\ results[id] \in Result
      BY <1>3, <1>4, <2>2 DEF TypeOK
    <3>2. results[id].memory \in Assertion /\ results[id].revision \in Number
      BY <3>1 DEF Result
    <3>. QED BY <1>4, <3>1, <3>2 DEF Stored, Adopted
  <2>. QED BY <2>1, <2>2
<1>5. ASSUME NEW b \in Assertion, NEW i \in Number, i <= head'[b]
      PROVE  results'[Id(rows'[b][i].request)]
               = [request |-> rows'[b][i].request, memory |-> b, revision |-> i]
  <2>1. CASE b = a /\ i = n
    BY <1>2, <2>1 DEF Adopted
  <2>2. CASE ~(b = a /\ i = n)
    <3>1. i <= head[b]
      BY <1>5, <2>2 DEF Number, Adopted
    <3>2. rows'[b][i].request = rows[b][i].request
      BY <3>1 DEF Adopted
    <3>3. rows[b][i] \in Row
      BY <3>1 DEF TypeOK, Numbered
    <3>4. Id(rows[b][i].request) \in Identity
      BY <3>3, RequestFields DEF Row
    <3>5. results[Id(rows[b][i].request)]
            = [request |-> rows[b][i].request, memory |-> b, revision |-> i]
      BY <3>1 DEF Stored
    <3>6. results[Id(rows[b][i].request)] # None
      <4>1. rows[b][i].request \in Request
        BY <3>3 DEF Row
      <4>. QED BY <3>5, <4>1, RevisionsAssumption DEF Result
    <3>. QED BY <1>1, <1>3, <3>2, <3>4, <3>5, <3>6
  <2>. QED BY <2>1, <2>2
<1>. QED BY <1>1, <1>4, <1>5 DEF Stored, Adopt

\* Adoptions preserve the inductive invariant.
LEMMA AdoptStep ==
  ASSUME Inductive, NEW a \in Assertion, NEW r, Adoptable(a, r), Adopt(a, r)
  PROVE  Inductive'
  BY AdoptEffect, AdoptType, AdoptNumbered, AdoptOrdered, AdoptCovered, AdoptEvidence,
     AdoptStored
  DEF Inductive

\* A purge takes whole assertions: those it names and those that cite.
LEMMA PurgeStep ==
  ASSUME Inductive, NEW x \in Assertion \cup Source, Purge(x)
  PROVE  Inductive'
<1> DEFINE targets == {x} \cup Citing({x})
<1>1. /\ targets \subseteq Assertion \cup Source
      /\ erased' = erased \cup targets
      /\ \A a \in Assertion : a \in targets =>
           /\ head'[a] = 0
           /\ \A i \in Number : rows'[a][i] = None
      /\ \A a \in Assertion \ targets : head'[a] = head[a] /\ rows'[a] = rows[a]
      /\ UNCHANGED <<clock, results, reader>>
  BY DEF Purge, Citing
<1>2. \A a \in Assertion, i \in Number : i <= head'[a] =>
        a \notin targets /\ head'[a] = head[a] /\ rows'[a] = rows[a]
  BY <1>1 DEF Number
<1>3. TypeOK'
  <2>1. rows' \in [Assertion -> [Number -> Row \cup {None}]]
    BY DEF Inductive, TypeOK, Purge
  <2>2. head' \in [Assertion -> 0 .. MaxRevision]
    BY RevisionsAssumption DEF Inductive, TypeOK, Purge
  <2>. QED BY <1>1, <2>1, <2>2 DEF Inductive, TypeOK
<1>4. Numbered'
  BY <1>1 DEF Inductive, Numbered, Number
<1>5. Ordered'
  <2>1. Ordered
    BY DEF Inductive
  <2>. QED BY <1>2, <2>1 DEF Ordered
<1>6. Covered'
  <2> SUFFICES ASSUME NEW a \in Assertion, NEW t \in Time,
                      head'[a] # 0, rows'[a][1].from <= t
               PROVE  \E i \in Number : i <= head'[a] /\ KnownAt(rows'[a][i], t)
    BY DEF Covered, KnownAt
  <2>1. head'[a] = head[a] /\ rows'[a] = rows[a]
    BY <1>1
  <2>. QED BY <2>1 DEF Inductive, Covered
<1>7. EvidenceStands'
  <2> SUFFICES ASSUME NEW a \in Assertion, NEW i \in Number, rows'[a][i] # None
               PROVE  a \notin erased' /\ rows'[a][i].request.cites \cap erased' = {}
    BY DEF EvidenceStands
  <2>1. a \notin targets /\ rows'[a] = rows[a] /\ rows[a][i] # None
    BY <1>1
  <2>2. rows[a][i].request \in Request
    BY <2>1 DEF Inductive, TypeOK, Row
  <2>3. rows[a][i].request.cites \subseteq Source
    BY <2>2, RequestFields
  <2>4. x \notin rows[a][i].request.cites
    BY <2>1 DEF Citing, Revisions
  <2>5. rows[a][i].request.cites \cap targets = {}
    BY <2>3, <2>4, RevisionsAssumption DEF Citing
  <2>. QED BY <1>1, <2>1, <2>5 DEF Inductive, EvidenceStands
<1>8. Stored'
  <2>1. ASSUME NEW id \in Identity, results'[id] # None
        PROVE  /\ Id(results'[id].request) = id
               /\ \/ results'[id].memory \in erased'
                  \/ /\ results'[id].revision <= head'[results'[id].memory]
                     /\ rows'[results'[id].memory][results'[id].revision].request
                          = results'[id].request
    <3>1. results[id] \in Result /\ results' = results
      BY <1>1, <2>1 DEF Inductive, TypeOK
    <3>2. results[id].memory \in Assertion
      BY <3>1 DEF Result
    <3>3. /\ Id(results[id].request) = id
          /\ \/ results[id].memory \in erased
             \/ /\ results[id].revision <= head[results[id].memory]
                /\ rows[results[id].memory][results[id].revision].request
                     = results[id].request
      BY <2>1, <3>1 DEF Inductive, Stored
    <3>4. CASE results[id].memory \in targets
      BY <1>1, <3>1, <3>3, <3>4
    <3>5. CASE results[id].memory \notin targets
      <4>1. head'[results[id].memory] = head[results[id].memory]
            /\ rows'[results[id].memory] = rows[results[id].memory]
        BY <1>1, <3>2, <3>5
      <4>. QED BY <1>1, <3>1, <3>3, <4>1
    <3>. QED BY <3>4, <3>5
  <2>2. ASSUME NEW a \in Assertion, NEW i \in Number, i <= head'[a]
        PROVE  results'[Id(rows'[a][i].request)]
                 = [request |-> rows'[a][i].request, memory |-> a, revision |-> i]
    <3>1. head'[a] = head[a] /\ rows'[a] = rows[a] /\ results' = results
      BY <1>1, <1>2, <2>2
    <3>. QED BY <2>2, <3>1 DEF Inductive, Stored
  <2>. QED BY <2>1, <2>2 DEF Stored
<1>. QED BY <1>3, <1>4, <1>5, <1>6, <1>7, <1>8 DEF Inductive

\* Clocks and readers change none of the tables.
LEMMA TypedReader ==
  ASSUME TypeOK, FirstPage \/ NextPage
  PROVE  /\ UNCHANGED <<clock, head, rows, erased, results>>
         /\ TypeOK'
<1>1. \A a, before : Page(a, before).shown \subseteq Number
  BY DEF Page, Newest, Revisions
<1>2. CASE FirstPage
  BY <1>1, <1>2 DEF FirstPage, Read, TypeOK
<1>3. CASE NextPage
  BY <1>1, <1>3 DEF NextPage, Read, TypeOK
<1>. QED BY <1>2, <1>3

\* So do steps that leave histories, results and tombstones alone.
LEMMA IdleStep ==
  ASSUME Inductive, TypeOK', UNCHANGED <<head, rows, erased, results>>
  PROVE  Inductive'
  BY DEF Inductive, Numbered, Ordered, Covered, KnownAt, EvidenceStands, Stored

\* It holds at first,
LEMMA InitInductive == Init => Inductive
<1> SUFFICES ASSUME Init PROVE Inductive
  OBVIOUS
<1>1. TypeOK
  BY RevisionsAssumption DEF Init, TypeOK
<1>. QED
  BY <1>1, RevisionsAssumption
  DEF Init, Inductive, Numbered, Ordered, Covered, EvidenceStands, Stored, Number

\* and every step preserves it.
LEMMA NextInductive == Inductive /\ [Next]_vars => Inductive'
<1> SUFFICES ASSUME Inductive, [Next]_vars PROVE Inductive'
  OBVIOUS
<1>1. ASSUME NEW r \in Request, Revise(r) PROVE Inductive'
  BY <1>1, ReviseAdopts, AdoptStep DEF Inductive
<1>2. ASSUME NEW r \in Request, NEW a \in Assertion, Remember(a, r) PROVE Inductive'
  BY <1>2, RememberAdopts, AdoptStep DEF Inductive
<1>3. ASSUME NEW x \in Assertion \cup Source, Purge(x) PROVE Inductive'
  BY <1>3, PurgeStep
<1>4. CASE Tick \/ StepBack
  <2>1. TypeOK'
    BY <1>4, RevisionsAssumption DEF Tick, StepBack, Inductive, TypeOK, Time
  <2>. QED BY <1>4, <2>1, IdleStep DEF Tick, StepBack
<1>5. CASE FirstPage \/ NextPage
  BY <1>5, TypedReader, IdleStep DEF Inductive
<1>6. CASE UNCHANGED vars
  BY <1>6, IdleStep DEF vars, Inductive, TypeOK
<1>. QED BY <1>1, <1>2, <1>3, <1>4, <1>5, <1>6 DEF Next

\* The numbers of the revisions, their intervals, their evidence and the stored
\* results fit together in every reachable state.
THEOREM HistoryInductive == Spec => []Inductive
  BY InitInductive, NextInductive, PTL DEF Spec

\* Every revision that is there has its assertion and all it cites: a purge
\* takes an assertion for what any of its revisions cited (forget).
THEOREM RevisionsAreSupported == Spec => []EvidenceStands
  BY HistoryInductive, PTL DEF Inductive

\* The numbers of an assertion's rows are those up to its head.
LEMMA LiveRows ==
  ASSUME Inductive, NEW a \in Assertion, NEW i \in Number
  PROVE  rows[a][i] # None <=> i <= head[a]
  BY DEF Inductive, Numbered

\* At an instant from the first revision on there is one known revision, and
\* before there is none (adopt_revision): intervals neither overlap nor leave
\* gaps, although the clock may be set back.
THEOREM OneIsKnown == Spec => []OneRevisionAtATime
<1>1. ASSUME Inductive PROVE OneRevisionAtATime
  <2> SUFFICES ASSUME NEW a \in Assertion, Exists(a)
               PROVE  /\ \A t \in Time :
                           Cardinality({i \in Revisions(a) : KnownAt(rows[a][i], t)})
                             = IF t >= rows[a][1].from THEN 1 ELSE 0
                      /\ \A i \in Revisions(a) : KnownAt(rows[a][i], rows[a][i].from)
    BY DEF OneRevisionAtATime
  <2> USE <1>1
  <2>1. /\ head[a] \in Nat /\ head[a] # 0 /\ 1 \in Number
        /\ Revisions(a) = {i \in Number : i <= head[a]}
        /\ \A i \in Revisions(a) :
             /\ rows[a][i] \in Row /\ rows[a][i].from \in Nat \ {0} /\ rows[a][i].to \in Nat
             /\ i = head[a] => rows[a][i].to = Open
             /\ i < head[a] => rows[a][i].to # Open /\ rows[a][i].from < rows[a][i].to
    <3>1. head[a] \in Nat /\ head[a] # 0 /\ 1 \in Number
      BY RevisionsAssumption DEF Exists, Inductive, TypeOK, Number
    <3>2. Revisions(a) = {i \in Number : i <= head[a]}
      BY LiveRows DEF Revisions
    <3>3. ASSUME NEW i \in Revisions(a)
          PROVE  /\ rows[a][i] \in Row /\ rows[a][i].from \in Nat \ {0} /\ rows[a][i].to \in Nat
                 /\ i = head[a] => rows[a][i].to = Open
                 /\ i < head[a] => rows[a][i].to # Open /\ rows[a][i].from < rows[a][i].to
      <4>1. rows[a][i] \in Row
        BY DEF Revisions, Inductive, TypeOK
      <4>2. i \in Number /\ i <= head[a]
        BY <3>2
      <4>. QED BY <4>1, <4>2 DEF Row, Time, Open, Inductive, Ordered
    <3>. QED BY <3>1, <3>2, <3>3
  <2>2. \A i, j \in Revisions(a) : i < j =>
          rows[a][i].to # Open /\ rows[a][i].to <= rows[a][j].from
    <3> SUFFICES ASSUME NEW i \in Revisions(a), NEW j \in Revisions(a), i < j
                 PROVE  rows[a][i].to # Open /\ rows[a][i].to <= rows[a][j].from
      OBVIOUS
    <3>1. i \in Number /\ j \in Number /\ i <= head[a] /\ j <= head[a] /\ i < head[a]
      BY <2>1 DEF Number
    <3>. QED BY <2>1, <3>1 DEF Inductive, Ordered
  <2>3. ASSUME NEW i \in Revisions(a) PROVE KnownAt(rows[a][i], rows[a][i].from)
    <3>1. i <= head[a] /\ i \in Int
      BY <2>1 DEF Number
    <3>. QED BY <2>1, <3>1 DEF KnownAt
  <2>4. ASSUME NEW t \in Time, NEW i \in Revisions(a), NEW j \in Revisions(a),
               KnownAt(rows[a][i], t), KnownAt(rows[a][j], t)
        PROVE  i = j
    <3>1. i \in Int /\ j \in Int /\ t \in Int
      BY <2>1 DEF Number, Time
    <3>2. ~(i < j)
      BY <2>1, <2>2, <2>4, <3>1 DEF KnownAt
    <3>3. ~(j < i)
      BY <2>1, <2>2, <2>4, <3>1 DEF KnownAt
    <3>. QED BY <3>1, <3>2, <3>3
  <2>5. ASSUME NEW t \in Time, t >= rows[a][1].from
        PROVE  Cardinality({i \in Revisions(a) : KnownAt(rows[a][i], t)}) = 1
    <3>1. rows[a][1].from <= t
      BY <2>1, <2>5 DEF Time
    <3>2. PICK i \in Revisions(a) : KnownAt(rows[a][i], t)
      BY <2>1, <3>1 DEF Inductive, Covered
    <3>3. {j \in Revisions(a) : KnownAt(rows[a][j], t)} = {i}
      BY <2>4, <3>2
    <3>. QED BY <3>3, FS_Singleton
  <2>6. ASSUME NEW t \in Time, ~(t >= rows[a][1].from)
        PROVE  Cardinality({i \in Revisions(a) : KnownAt(rows[a][i], t)}) = 0
    <3>1. ASSUME NEW i \in Revisions(a), KnownAt(rows[a][i], t) PROVE FALSE
      <4>1. 1 \in Revisions(a) /\ i \in Nat \ {0}
        BY <2>1 DEF Number
      <4>2. CASE i = 1
        BY <2>1, <2>6, <3>1, <4>2 DEF KnownAt, Time
      <4>3. CASE 1 < i
        <5>1. rows[a][1].to # Open /\ rows[a][1].to <= rows[a][i].from
          BY <2>2, <4>1, <4>3
        <5>2. 1 < head[a]
          BY <2>1, <4>1, <4>3
        <5>3. rows[a][1].from < rows[a][1].to
          BY <2>1, <4>1, <5>2
        <5>. QED BY <2>1, <2>6, <3>1, <4>1, <5>1, <5>3 DEF KnownAt, Time
      <4>. QED BY <4>1, <4>2, <4>3
    <3>2. {i \in Revisions(a) : KnownAt(rows[a][i], t)} = {}
      BY <3>1
    <3>. QED BY <3>2, FS_EmptySet
  <2>. QED BY <2>3, <2>5, <2>6
<1>. QED BY <1>1, HistoryInductive, PTL

\* A request whose revision is there is always answered with that revision,
\* and no other is (replay, save_result): repeating it is safe, and a refusal
\* is the truth.
THEOREM AnswersAreOwn == Spec => []AnswersStand
<1>1. ASSUME Inductive PROVE AnswersStand
  <2> SUFFICES ASSUME NEW r \in Request
               PROVE  {ref \in References : rows[ref[1]][ref[2]].request = r}
                        = IF Verdict(r) = "replayed"
                          THEN {<<results[Id(r)].memory, results[Id(r)].revision>>} ELSE {}
    BY DEF AnswersStand
  <2> USE <1>1
  <2> DEFINE own == {ref \in References : rows[ref[1]][ref[2]].request = r}
  <2>1. ASSUME NEW a \in Assertion, NEW i \in Number, <<a, i>> \in own
        PROVE  /\ results[Id(r)] = [request |-> r, memory |-> a, revision |-> i]
               /\ Verdict(r) = "replayed"
    <3>1. a \notin erased /\ rows[a][i] # None /\ rows[a][i].request = r /\ i <= head[a]
      BY <2>1, LiveRows DEF References
    <3>2. results[Id(r)] = [request |-> r, memory |-> a, revision |-> i]
      BY <3>1 DEF Inductive, Stored
    <3>3. results[Id(r)] # None
      BY <3>2, RevisionsAssumption DEF Result
    <3>4. head[a] # 0
      BY <3>1 DEF Number
    <3>5. r.op = "revise" => r.memory = a
      <4>1. r.memory = IF i = 1 THEN None ELSE a
        BY <3>1 DEF Inductive, Numbered
      <4>. QED BY <4>1, RequestFields, RevisionsAssumption
    <3>. QED BY <3>1, <3>2, <3>3, <3>4, <3>5 DEF Verdict, Replayed, Exists
  <2>2. ASSUME Verdict(r) = "replayed"
        PROVE  <<results[Id(r)].memory, results[Id(r)].revision>> \in own
    <3>1. results[Id(r)] # None /\ Replayed(r) = "replayed"
      BY <2>2 DEF Verdict, Judge
    <3>2. results[Id(r)].request = r /\ Exists(results[Id(r)].memory)
      BY <3>1 DEF Replayed
    <3>3. results[Id(r)] \in Result /\ Id(r) \in Identity
      BY <3>1, RequestFields DEF Inductive, TypeOK
    <3>4. results[Id(r)].memory \in Assertion /\ results[Id(r)].revision \in Number
      BY <3>3 DEF Result
    <3>5. /\ results[Id(r)].memory \notin erased
          /\ results[Id(r)].revision <= head[results[Id(r)].memory]
          /\ rows[results[Id(r)].memory][results[Id(r)].revision].request = r
      BY <3>1, <3>2, <3>3 DEF Exists, Inductive, Stored
    <3>. QED BY <3>4, <3>5, LiveRows DEF References
  <2>3. own \subseteq Assertion \X Number
    BY DEF References
  <2>4. CASE Verdict(r) = "replayed"
    <3>1. ASSUME NEW ref \in own
          PROVE  ref = <<results[Id(r)].memory, results[Id(r)].revision>>
      <4>1. PICK a \in Assertion, i \in Number : ref = <<a, i>>
        BY <2>3
      <4>2. <<a, i>> \in own
        BY <4>1
      <4>3. results[Id(r)] = [request |-> r, memory |-> a, revision |-> i]
        BY <2>1, <4>2
      <4>. HIDE DEF own
      <4>. QED BY <4>1, <4>3
    <3>. QED BY <2>2, <2>4, <3>1
  <2>5. CASE Verdict(r) # "replayed"
    <3>1. ASSUME NEW ref \in own PROVE FALSE
      <4>1. PICK a \in Assertion, i \in Number : ref = <<a, i>>
        BY <2>3
      <4>. QED BY <2>1, <2>5, <4>1
    <3>. QED BY <2>5, <3>1
  <2>. QED BY <2>4, <2>5
<1>. QED BY <1>1, HistoryInductive, PTL

\* What a step may change of what is known: an adoption only from the present
\* reading of the clock on, a purge only by taking references away.
LEMMA AdoptSettles ==
  ASSUME Inductive, NEW a \in Assertion, NEW r, Adoptable(a, r), Adopt(a, r),
         NEW t \in Time, t < clock, NEW b \in Assertion, NEW i \in Number
  PROVE  rows'[b][i] # None /\ KnownAt(rows'[b][i], t)
           <=> rows[b][i] # None /\ KnownAt(rows[b][i], t)
<1>1. Adopted(a, r)
  BY AdoptEffect DEF Inductive
<1>2. clock \in Nat /\ t \in Nat /\ head[a] \in Nat /\ i \in Nat
  BY <1>1 DEF Inductive, TypeOK, Time, Number, Adopted
<1>3. CASE b # a
  BY <1>1, <1>3 DEF Adopted
<1>4. CASE b = a /\ i = head[a] + 1
  <2>1. rows[b][i] = None
    BY <1>2, <1>4, LiveRows
  <2>2. ~KnownAt(rows'[b][i], t)
    BY <1>1, <1>2, <1>4 DEF Adopted, KnownAt
  <2>. QED BY <2>1, <2>2
<1>5. CASE b = a /\ i = head[a]
  <2>1. head[a] # 0
    BY <1>5 DEF Number
  <2>2. rows[b][i] # None /\ rows'[b][i] # None
    BY <1>1, <1>5, <2>1, RevisionsAssumption DEF Adopted
  <2>3. rows[b][i].to = Open
    BY <1>2, <1>5 DEF Inductive, Ordered
  <2>4. rows'[b][i].from = rows[b][i].from /\ rows'[b][i].to = clock
    BY <1>1, <1>5, <2>1 DEF Adopted
  <2>. QED BY <1>2, <2>2, <2>3, <2>4 DEF KnownAt
<1>6. CASE b = a /\ i # head[a] + 1 /\ i # head[a]
  BY <1>1, <1>6 DEF Adopted
<1>. QED BY <1>3, <1>4, <1>5, <1>6

\* What was known before the clock's present reading stays known, but for
\* purges: nobody writes into the past (adopt_revision).
THEOREM ThePastStands == Spec => PastIsSettled
<1> DEFINE Settles == \A t \in Time : t < clock =>
                        Recall(t)' = {ref \in Recall(t) : ref[1] \notin erased'}
<1>1. ASSUME Inductive, [Next]_vars PROVE [Settles]_vars
  <2> USE <1>1
  <2>1. ASSUME NEW a \in Assertion, NEW r, Adoptable(a, r), Adopt(a, r) PROVE Settles
    <3> SUFFICES ASSUME NEW t \in Time, t < clock
                 PROVE  Recall(t)' = {ref \in Recall(t) : ref[1] \notin erased'}
      OBVIOUS
    <3>1. erased' = erased
      BY <2>1 DEF Adopt
    <3>2. \A b \in Assertion, i \in Number :
            rows'[b][i] # None /\ KnownAt(rows'[b][i], t)
              <=> rows[b][i] # None /\ KnownAt(rows[b][i], t)
      BY <2>1, AdoptSettles
    <3>. QED BY <3>1, <3>2 DEF Recall, References, KnownAt
  <2>2. ASSUME NEW x \in Assertion \cup Source, Purge(x) PROVE Settles
    <3>1. \A a \in Assertion : a \notin erased' => rows'[a] = rows[a] /\ a \notin erased
      BY <2>2 DEF Purge
    <3>. QED BY <3>1 DEF Recall, References, KnownAt
  <2>3. ASSUME UNCHANGED <<rows, erased>> PROVE Settles
    BY <2>3 DEF Recall, References, KnownAt
  <2>4. ASSUME NEW r \in Request, Revise(r) PROVE Settles
    BY <2>1, <2>4, ReviseAdopts DEF Inductive
  <2>5. ASSUME NEW r \in Request, NEW a \in Assertion, Remember(a, r) PROVE Settles
    BY <2>1, <2>5, RememberAdopts DEF Inductive
  <2>6. CASE Tick \/ StepBack
    BY <2>3, <2>6 DEF Tick, StepBack
  <2>7. CASE FirstPage \/ NextPage
    BY <2>3, <2>7, TypedReader DEF Inductive
  <2>. QED BY <2>2, <2>4, <2>5, <2>6, <2>7 DEF Next
<1>. QED BY <1>1, HistoryInductive, PTL DEF Spec, PastIsSettled

\* The lengths and the entries of the contract's log.
LEMMA LogEntries ==
  ASSUME Inductive, NEW a \in Assertion
  PROVE  /\ head[a] \in Nat
         /\ \A i \in 1 .. head[a] :
              i \in Number /\ i <= head[a] /\ rows[a][i].request \in Request
         /\ [i \in 1 .. head[a] |-> rows[a][i].request] \in Seq(Request)
         /\ Len([i \in 1 .. head[a] |-> rows[a][i].request]) = head[a]
<1>1. head[a] \in 0 .. MaxRevision
  BY DEF Inductive, TypeOK
<1>2. ASSUME NEW i \in 1 .. head[a]
      PROVE  i \in Number /\ i <= head[a] /\ rows[a][i].request \in Request
  <2>1. i \in Number /\ i <= head[a]
    BY <1>1, RevisionsAssumption DEF Number
  <2>2. rows[a][i] \in Row
    BY <2>1, LiveRows DEF Inductive, TypeOK
  <2>. QED BY <2>1, <2>2 DEF Row
<1>. QED BY <1>1, <1>2

\* An adoption appends one entry to the log of the contract,
LEMMA AdoptImplementsWrite ==
  ASSUME Inductive, NEW a \in Assertion, NEW r \in Request, Adoptable(a, r), Adopt(a, r)
  PROVE  \E op \in Operation, k \in Key : Contract!Write(op, k)
<1> DEFINE log(b) == [i \in 1 .. head[b] |-> rows[b][i].request]
           entry == [op |-> r.op, key |-> r.key, expected |-> Len(log(a)), cites |-> r.cites,
                     memory |-> IF log(a) = << >> THEN None ELSE a]
<1>1. Adopted(a, r) /\ Id(r) \in Identity /\ r.op \in Operation /\ r.key \in Key
  BY AdoptEffect, RequestFields DEF Inductive
<1>2. r.cites \in (SUBSET Source) \ {{}}
  <2>1. r.cites \in Evidence
    BY DEF Request
  <2>2. Cardinality({}) = 0
    BY FS_EmptySet
  <2>3. r.cites \subseteq Source /\ Cardinality(r.cites) # 0
    BY <2>1, RevisionsAssumption DEF Evidence
  <2>4. r.cites # {}
    <3>1. r.cites = {} => Cardinality(r.cites) = Cardinality({})
      OBVIOUS
    <3>. QED BY <2>2, <2>3, <3>1
  <2>. QED BY <2>3, <2>4
<1>3. /\ a \notin erased /\ results[Id(r)] = None /\ r.cites \cap erased = {}
      /\ r.expected = head[a] /\ r.memory = IF head[a] = 0 THEN None ELSE a
      /\ erased' = erased
  BY DEF Adoptable, Adopt
<1>4. log(a) \in Seq(Request) /\ Len(log(a)) = head[a] /\ head[a] \in Nat
  BY LogEntries
<1>5. r = entry
  <2>1. log(a) = << >> <=> head[a] = 0
    BY <1>4
  <2>2. r.expected = Len(log(a)) /\ r.memory = IF log(a) = << >> THEN None ELSE a
    BY <1>3, <1>4, <2>1
  <2>. HIDE DEF log
  <2>. QED BY <2>2 DEF Request
<1>6. [i \in 1 .. head'[a] |-> rows'[a][i].request] = Append(log(a), r)
  <2>1. head'[a] = head[a] + 1 /\ rows'[a][head[a] + 1].request = r
    BY <1>1 DEF Adopted
  <2>2. \A i \in 1 .. head[a] : rows'[a][i].request = rows[a][i].request
    <3>1. \A i \in 1 .. head[a] : i \in Number /\ i <= head[a] /\ i # head[a] + 1
      BY <1>4, LogEntries
    <3>. QED BY <1>1, <3>1 DEF Adopted
  <2>. QED BY <1>4, <2>1, <2>2
<1>7. [b \in Assertion |-> [i \in 1 .. head'[b] |-> rows'[b][i].request]]
        = [[b \in Assertion |-> log(b)] EXCEPT ![a] = Append(@, entry)]
  <2>1. \A b \in Assertion \ {a} : head'[b] = head[b] /\ rows'[b] = rows[b]
    BY <1>1 DEF Adopted
  <2>. QED BY <1>5, <1>6, <2>1
<1>8. {id \in Identity : results'[id] # None}
        = {id \in Identity : results[id] # None} \cup {<<r.op, r.key>>}
  <2>1. results' = [results EXCEPT ![Id(r)] =
                      [request |-> r, memory |-> a, revision |-> head[a] + 1]]
    BY DEF Adopt
  <2>2. [request |-> r, memory |-> a, revision |-> head[a] + 1] # None
    BY <1>1, RevisionsAssumption DEF Adopted, Result
  <2>3. results \in [Identity -> Result \cup {None}] /\ Id(r) = <<r.op, r.key>>
    BY DEF Inductive, TypeOK, Id
  <2>. QED BY <1>1, <2>1, <2>2, <2>3
<1>9. PICK op \in Operation, k \in Key, cites \in (SUBSET Source) \ {{}} :
        op = r.op /\ k = r.key /\ cites = r.cites
  BY <1>1, <1>2
<1> DEFINE logs == [c \in Assertion |-> log(c)]
<1>10. \E b \in Assertion \ erased, S \in (SUBSET Source) \ {{}} :
         /\ S \cap erased = {}
         /\ [c \in Assertion |-> [i \in 1 .. head'[c] |-> rows'[c][i].request]]
              = [logs EXCEPT ![b] = Append(logs[b],
                   [op |-> op, key |-> k, expected |-> Len(logs[b]), cites |-> S,
                    memory |-> IF logs[b] = << >> THEN None ELSE b])]
  <2>1. logs[a] = log(a)
    OBVIOUS
  <2>2. entry = [op |-> op, key |-> k, expected |-> Len(logs[a]), cites |-> cites,
                 memory |-> IF logs[a] = << >> THEN None ELSE a]
    BY <1>9, <2>1
  <2>3. [c \in Assertion |-> [i \in 1 .. head'[c] |-> rows'[c][i].request]]
          = [logs EXCEPT ![a] = Append(logs[a], entry)]
    BY <1>7
  <2>. HIDE DEF log, logs, entry
  <2>. QED BY <1>3, <1>9, <2>2, <2>3
<1>11. /\ <<op, k>> \notin {id \in Identity : results[id] # None}
       /\ {id \in Identity : results'[id] # None}
            = {id \in Identity : results[id] # None} \cup {<<op, k>>}
       /\ erased' = erased
  BY <1>3, <1>8, <1>9 DEF Id
<1>12. Contract!Write(op, k)
  BY <1>10, <1>11, Zenon DEF Contract!Write, Contract!Entry
<1>. QED BY <1>12

\* and a purge erases the histories that cite what it takes.
LEMMA PurgeImplementsErase ==
  ASSUME Inductive, NEW x \in Assertion \cup Source, Purge(x)
  PROVE  \E objects \in SUBSET (Assertion \cup Source) : Contract!Erase(objects)
<1>. PICK targets : targets = {x} \cup Citing({x})
  OBVIOUS
<1>1. /\ erased' = erased \cup targets /\ results' = results
      /\ head' = [a \in Assertion |-> IF a \in targets THEN 0 ELSE head[a]]
      /\ rows' = [a \in Assertion |->
                    IF a \in targets THEN [i \in Number |-> None] ELSE rows[a]]
  BY DEF Purge
<1>2. [a \in Assertion |-> [i \in 1 .. head'[a] |-> rows'[a][i].request]]
        = [a \in Assertion |->
             IF a \in targets THEN << >>
             ELSE [b \in Assertion |-> [i \in 1 .. head[b] |-> rows[b][i].request]][a]]
  <2>1. ASSUME NEW a \in Assertion, a \in targets
        PROVE  [i \in 1 .. head'[a] |-> rows'[a][i].request] = << >>
    <3>1. head'[a] = 0
      BY <1>1, <2>1
    <3>. QED BY <3>1
  <2>2. ASSUME NEW a \in Assertion, a \notin targets
        PROVE  head'[a] = head[a] /\ rows'[a] = rows[a]
    BY <1>1, <2>2
  <2>. QED BY <2>1, <2>2
<1>3. ASSUME NEW a \in Assertion \ targets, NEW i \in 1 .. head[a]
      PROVE  rows[a][i].request.cites \cap targets = {}
  <2>1. i \in Number /\ rows[a][i].request \in Request /\ i <= head[a]
    BY LogEntries
  <2>2. rows[a][i] # None
    BY <2>1, LiveRows
  <2>3. x \notin rows[a][i].request.cites
    BY <2>1, <2>2 DEF Citing, Revisions
  <2>4. rows[a][i].request.cites \subseteq Source
    BY <2>1, RequestFields
  <2>. QED BY <2>3, <2>4, RevisionsAssumption DEF Citing
<1>4. targets \in SUBSET (Assertion \cup Source)
  BY DEF Citing
<1>. QED BY <1>1, <1>2, <1>3, <1>4 DEF Contract!Erase

\* Whatever clients repeat, purge or read, and whatever the clock does, writers
\* have an append-only log in which a request takes effect at most once, on the
\* revision it expects, and which is erased as a whole.
THEOREM HistoryImplementsContract == Spec => ContractSpec
<1>1. ASSUME Init PROVE Contract!Init
  BY <1>1, RevisionsAssumption DEF Init, Contract!Init
<1>2. ASSUME Inductive, [Next]_vars PROVE [Contract!Next]_(Contract!vars)
  <2> USE <1>2
  <2>1. ASSUME NEW r \in Request, NEW a \in Assertion, Adoptable(a, r), Adopt(a, r)
        PROVE  Contract!Next
    BY <2>1, AdoptImplementsWrite DEF Contract!Next
  <2>2. ASSUME NEW x \in Assertion \cup Source, Purge(x) PROVE Contract!Next
    BY <2>2, PurgeImplementsErase DEF Contract!Next
  <2>3. ASSUME UNCHANGED <<head, rows, erased, results>> PROVE UNCHANGED Contract!vars
    BY <2>3 DEF Contract!vars
  <2>4. ASSUME NEW r \in Request, Revise(r) PROVE Contract!Next
    BY <2>1, <2>4, ReviseAdopts DEF Inductive
  <2>5. ASSUME NEW r \in Request, NEW a \in Assertion, Remember(a, r) PROVE Contract!Next
    BY <2>1, <2>5, RememberAdopts DEF Inductive
  <2>6. CASE Tick \/ StepBack
    BY <2>3, <2>6 DEF Tick, StepBack
  <2>7. CASE FirstPage \/ NextPage
    BY <2>3, <2>7, TypedReader DEF Inductive
  <2>8. CASE UNCHANGED vars
    BY <2>3, <2>8 DEF vars
  <2>. QED BY <2>2, <2>4, <2>5, <2>6, <2>7, <2>8 DEF Next
<1>. QED
  BY <1>1, <1>2, HistoryInductive, PTL DEF Spec, ContractSpec, Contract!Spec

-------------------------------------------------------------------------------
(* Pages *)

\* A client's position is within the history it reads, as long as that exists.
PagesSound ==
  /\ PagesJoinUp
  /\ reader # None =>
       /\ reader.memory \in Assertion
       /\ reader.next \in {0} \cup (2 .. MaxRevision)
       /\ reader.next # 0 /\ reader.memory \notin erased => reader.next <= head[reader.memory]

\* The newest of an interval are its upper end.
LEMMA NewestOfInterval ==
  ASSUME NEW l \in Nat, NEW h \in Nat, NEW n \in Nat
  PROVE  Newest(l .. h, n) = {i \in l .. h : h - i < n}
<1>1. ASSUME NEW i \in l .. h
      PROVE  Cardinality({j \in l .. h : j > i}) = h - i
  <2>1. {j \in l .. h : j > i} = i + 1 .. h
    OBVIOUS
  <2>2. i + 1 \in Int /\ h \in Int /\ i <= h
    OBVIOUS
  <2>3. Cardinality(i + 1 .. h) = IF i + 1 > h THEN 0 ELSE h - (i + 1) + 1
    BY <2>2, FS_Interval
  <2>4. Cardinality(i + 1 .. h) = h - i
    BY <2>2, <2>3
  <2> QED
    BY <2>1, <2>4
<1> QED
  BY <1>1 DEF Newest

\* One page of a history: whole, supported, up to its highest revision.
LEMMA OnePage ==
  ASSUME Inductive, NEW a \in Assertion, Exists(a), NEW before \in 2 .. MaxRevision + 1,
         NEW low, low = IF Page(a, before).next = 0 THEN 1 ELSE Page(a, before).next
  PROVE  /\ Highest(a, before) \in Number
         /\ low \in 1 .. Highest(a, before)
         /\ Page(a, before).next \in {0} \cup (2 .. Highest(a, before))
         /\ Page(a, before).shown = low .. Highest(a, before)
         /\ ~Page(a, before).invalid
<1> USE RevisionsAssumption
<1>1. head[a] \in Number
  BY DEF Inductive, TypeOK, Exists, Number
<1> DEFINE h == Highest(a, before)
           P == PageSize
           fetched == Newest({i \in Revisions(a) : i <= h}, P + 1)
<1>2. /\ h \in Nat /\ h >= 1 /\ h <= head[a] /\ h <= MaxRevision
      /\ P \in Nat /\ P >= 1 /\ MaxRevision \in Nat
  BY <1>1 DEF Highest, Number
<1>4. {i \in Revisions(a) : i <= h} = 1 .. h
  <2>1. \A i \in Number : rows[a][i] # None <=> i <= head[a]
    BY LiveRows
  <2> QED
    BY <1>1, <1>2, <2>1 DEF Revisions, Number
<1> HIDE DEF h, P
<1>0. \E first \in Nat : IF h <= P THEN first = 1 ELSE first = h - P
  <2>1. CASE h <= P
    <3> WITNESS 1 \in Nat
    <3> QED
      BY <2>1
  <2>2. CASE ~(h <= P)
    <3>1. h - P \in Nat
      BY <1>2, <2>2
    <3> WITNESS h - P \in Nat
    <3> QED
      BY <2>2
  <2> QED
    BY <2>1, <2>2
<1> PICK first \in Nat : IF h <= P THEN first = 1 ELSE first = h - P
  BY <1>0
<1>3. first >= 1 /\ first <= h
  BY <1>2
<1>5. fetched = first .. h
  <2>1. fetched = Newest(1 .. h, P + 1)
    BY <1>4
  <2>2. P + 1 \in Nat
    BY <1>2
  <2>3. Newest(1 .. h, P + 1) = {i \in 1 .. h : h - i < P + 1}
    BY <1>2, <2>2, NewestOfInterval
  <2>4. \A i \in 1 .. h : h - i < P + 1 <=> i >= first
    BY <1>2, <1>3
  <2>5. {i \in 1 .. h : h - i < P + 1} = first .. h
    BY <1>2, <1>3, <2>4
  <2> QED
    BY <2>1, <2>3, <2>5
<1>6. fetched = {i \in Number : i <= h /\ i >= h - P}
  <2>1. \A i \in Number : i <= h => (i >= h - P <=> i >= first)
    BY <1>2, <1>3 DEF Number
  <2>2. {i \in Number : i <= h /\ i >= h - P} = first .. h
    BY <1>2, <1>3, <2>1 DEF Number
  <2> QED
    BY <1>5, <2>2
<1>7. Newest(fetched, P) = IF h < P THEN 1 .. h ELSE h - P + 1 .. h
  <2>1. Newest(first .. h, P) = {i \in first .. h : h - i < P}
    BY <1>2, NewestOfInterval
  <2>2. CASE h < P
    <3>1. {i \in first .. h : h - i < P} = 1 .. h
      BY <1>2, <1>3, <2>2
    <3> QED
      BY <1>5, <2>1, <2>2, <3>1
  <2>3. CASE ~(h < P)
    <3>1. {i \in first .. h : h - i < P} = h - P + 1 .. h
      BY <1>2, <1>3, <2>3
    <3> QED
      BY <1>5, <2>1, <2>3, <3>1
  <2> QED
    BY <2>2, <2>3
<1>8. Cardinality(fetched) = h - first + 1
  <2>1. first \in Int /\ h \in Int /\ ~(first > h)
    BY <1>2, <1>3
  <2> QED
    BY <1>5, <2>1, FS_Interval
<1>9. \A i \in Newest(fetched, P) : ~(rows[a][i].request.cites \subseteq erased)
  <2> SUFFICES ASSUME NEW i \in Number, i <= head[a]
               PROVE  ~(rows[a][i].request.cites \subseteq erased)
    <3>1. \A i \in Newest(fetched, P) : i \in Nat /\ i >= 1 /\ i <= h
      BY <1>2, <1>7
    <3>2. \A i \in Newest(fetched, P) : i \in Number /\ i <= head[a]
      BY <1>1, <1>2, <3>1 DEF Number
    <3> QED
      BY <3>2
  <2>1. rows[a][i] \in Row
    BY LiveRows DEF Inductive, TypeOK
  <2>2. rows[a][i].request \in Request
    BY <2>1 DEF Row
  <2>3. rows[a][i].request.cites \in Evidence
    BY <2>2 DEF Request
  <2>4. rows[a][i].request.cites # {}
    <3>1. Cardinality(rows[a][i].request.cites) \in 1 .. MaxCites
      BY <2>3 DEF Evidence
    <3>2. Cardinality({}) = 0
      BY FS_EmptySet
    <3>3. 0 \notin 1 .. MaxCites
      OBVIOUS
    <3> QED
      BY <3>1, <3>2, <3>3, Zenon
  <2>5. rows[a][i].request.cites \cap erased = {}
    BY LiveRows DEF Inductive, EvidenceStands
  <2> QED
    BY <2>4, <2>5
<1> DEFINE shown == Newest(fetched, P)
           next == IF Cardinality(fetched) > P
                   THEN CHOOSE i \in shown : \A j \in shown : i <= j ELSE 0
<1>10. Page(a, before).shown = shown /\ Page(a, before).next = next /\ ~Page(a, before).invalid
  BY <1>6, <1>9 DEF Page, h, P
<1>11. next = IF h <= P THEN 0 ELSE h - P + 1
  <2>1. CASE h <= P
    <3>1. Cardinality(fetched) = h
      BY <1>2, <1>8, <2>1
    <3> QED
      BY <1>2, <2>1, <3>1
  <2>2. CASE h > P
    <3>1. shown = h - P + 1 .. h
      BY <1>2, <1>3, <1>7, <2>2 DEF Number
    <3>2. Cardinality(fetched) > P
      <4>1. first = h - P
        BY <1>2, <2>2
      <4>2. Cardinality(fetched) = P + 1
        BY <1>2, <1>8, <4>1
      <4> HIDE DEF fetched
      <4> QED
        BY <1>2, <4>2
    <3>3. h - P + 1 \in shown /\ \A j \in shown : h - P + 1 <= j
      <4> HIDE DEF shown
      <4>1. h - P + 1 \in h - P + 1 .. h
        BY <1>2, <2>2
      <4> QED
        BY <1>2, <3>1, <4>1
    <3>4. \A i \in shown : (\A j \in shown : i <= j) => i = h - P + 1
      BY <1>2, <1>3, <3>1, <3>3 DEF Number
    <3> HIDE DEF shown
    <3> QED
      BY <1>2, <1>3, <2>2, <3>2, <3>3, <3>4 DEF Number
  <2> QED
    BY <1>2, <1>3, <2>1, <2>2 DEF Number
<1>12. shown = IF h <= P THEN 1 .. h ELSE h - P + 1 .. h
  BY <1>2, <1>3, <1>7 DEF Number
<1> HIDE DEF shown, next
<1>13. /\ low = IF h <= P THEN 1 ELSE h - P + 1
       /\ next \in {0} \cup (2 .. h)
  BY <1>2, <1>3, <1>10, <1>11 DEF Number
<1>14. low \in 1 .. h /\ shown = low .. h
  BY <1>2, <1>3, <1>12, <1>13 DEF Number
<1> QED
  BY <1>2, <1>10, <1>13, <1>14 DEF h, Number

\* The next page joins the ones before it.
LEMMA PageJoins ==
  ASSUME Inductive, NEW a \in Assertion, NEW before \in 2 .. MaxRevision + 1, NEW got,
         Read(a, before, got),
         \/ got = [shown |-> {}, count |-> 0]
         \/ /\ before <= head[a] /\ got.count = Cardinality(got.shown)
            /\ \E top \in Number : got.shown = before .. top
  PROVE  PagesSound'
<1> USE RevisionsAssumption
<1> DEFINE page == Page(a, before)
           h == Highest(a, before)
<1>1. Exists(a) /\ UNCHANGED <<head, rows, erased>>
  BY DEF Read
<1>2. /\ reader'.memory = a /\ reader'.next = page.next
      /\ reader'.shown = got.shown \cup page.shown
      /\ reader'.count = got.count + Cardinality(page.shown)
      /\ reader'.invalid = page.invalid
  BY DEF Read
<1> PICK low : low = IF page.next = 0 THEN 1 ELSE page.next
  OBVIOUS
<1>3. /\ h \in Number /\ low \in 1 .. h /\ page.next \in {0} \cup (2 .. h)
      /\ page.shown = low .. h /\ ~page.invalid
  BY <1>1, OnePage
<1>4. h <= head[a] /\ head[a] \in Number
  <2>1. head[a] \in 0 .. MaxRevision /\ head[a] # 0
    BY <1>1 DEF Inductive, TypeOK, Exists
  <2>2. MaxRevision \in Nat /\ before \in Int
    OBVIOUS
  <2>3. head[a] \in Number
    BY <2>1, <2>2 DEF Number
  <2>4. Highest(a, before) <= head[a]
    BY <2>2, <2>3 DEF Highest, Number
  <2> QED
    BY <2>3, <2>4
<1>5. IsFiniteSet(low .. h) /\ Cardinality(low .. h) \in Nat
  <2>1. low \in Int /\ h \in Int
    BY <1>3 DEF Number
  <2>2. IsFiniteSet(low .. h)
    BY <2>1, FS_Interval
  <2> QED
    BY <2>2, FS_CardinalityType
<1>6. reader'.count = Cardinality(reader'.shown) /\ \E top \in Number : reader'.shown = low .. top
  <2>1. CASE got = [shown |-> {}, count |-> 0]
    <3>1. got.shown = {} /\ got.count = 0
      BY <2>1
    <3>2. reader'.shown = low .. h /\ reader'.count = Cardinality(low .. h)
      BY <1>2, <1>3, <1>5, <3>1
    <3> QED
      BY <1>3, <3>2
  <2>2. CASE /\ before <= head[a] /\ got.count = Cardinality(got.shown)
             /\ \E top \in Number : got.shown = before .. top
    <3>1. PICK top \in Number : got.shown = before .. top
      BY <2>2
    <3>2. h = before - 1
      BY <1>4, <2>2 DEF Highest, Number
    <3>3. CASE before <= top
      <4>1. (before .. top) \cup (low .. h) = low .. top
        BY <1>3, <3>2, <3>3 DEF Number
      <4>2. /\ Cardinality(before .. top) = top - before + 1
            /\ Cardinality(low .. h) = h - low + 1
            /\ Cardinality(low .. top) = top - low + 1
        <5>1. /\ before \in Int /\ top \in Int /\ low \in Int /\ h \in Int
              /\ ~(before > top) /\ ~(low > h) /\ ~(low > top)
          BY <1>3, <3>2, <3>3 DEF Number
        <5> QED
          BY <5>1, FS_Interval
      <4>3. reader'.shown = low .. top
        BY <1>2, <1>3, <3>1, <4>1
      <4>4. reader'.count = Cardinality(before .. top) + Cardinality(low .. h)
        BY <1>2, <1>3, <2>2, <3>1
      <4>5. reader'.count = top - low + 1
        <5>1. before \in Int /\ top \in Int /\ low \in Int
          BY <1>3 DEF Number
        <5>2. reader'.count = (top - before + 1) + (h - low + 1)
          BY <4>2, <4>4
        <5>3. reader'.count = (top - before + 1) + ((before - 1) - low + 1)
          BY <3>2, <5>2
        <5> HIDE DEF h
        <5> PICK b \in Int : b = before
          BY <5>1
        <5> PICK l \in Int : l = low
          BY <5>1
        <5> PICK t \in Int : t = top
          BY <5>1
        <5>4. (t - b + 1) + ((b - 1) - l + 1) = t - l + 1
          BY ONLY b \in Int, l \in Int, t \in Int
        <5> QED
          BY <5>3, <5>4
      <4> QED
        BY <4>2, <4>3, <4>5
    <3>4. CASE before > top
      <4>1. before .. top = {} /\ Cardinality(before .. top) = 0
        BY <3>4, FS_EmptySet DEF Number
      <4>2. reader'.shown = low .. h /\ reader'.count = 0 + Cardinality(low .. h)
        BY <1>2, <1>3, <2>2, <3>1, <4>1
      <4> QED
        BY <1>3, <1>5, <4>2
    <3> QED
      BY <3>3, <3>4 DEF Number
  <2> QED
    BY <2>1, <2>2
<1>7. PagesJoinUp'
  BY <1>2, <1>3, <1>6 DEF PagesJoinUp
<1>8. /\ reader'.memory \in Assertion
      /\ reader'.next \in {0} \cup (2 .. MaxRevision)
      /\ reader'.next # 0 => reader'.next <= head'[reader'.memory]
  BY <1>1, <1>2, <1>3, <1>4 DEF Number
<1> QED
  BY <1>7, <1>8 DEF PagesSound

\* What others do does not lose a client's position.
LEMMA PositionStays ==
  ASSUME PagesSound, UNCHANGED reader,
         \A a \in Assertion : a \notin erased' => a \notin erased /\ head[a] <= head'[a],
         head \in [Assertion -> Nat], head' \in [Assertion -> Nat]
  PROVE  PagesSound'
<1>1. PagesJoinUp'
  BY DEF PagesSound, PagesJoinUp
<1>2. ASSUME reader # None
      PROVE  /\ reader.memory \in Assertion
             /\ reader.next \in {0} \cup (2 .. MaxRevision)
             /\ reader.next # 0 /\ reader.memory \notin erased' => reader.next <= head'[reader.memory]
  <2>1. /\ reader.memory \in Assertion
        /\ reader.next \in {0} \cup (2 .. MaxRevision)
        /\ reader.next # 0 /\ reader.memory \notin erased => reader.next <= head[reader.memory]
    BY <1>2 DEF PagesSound
  <2>2. reader.next \in Nat
    BY <2>1, RevisionsAssumption
  <2> QED
    BY <2>1, <2>2
<1> QED
  BY <1>1, <1>2 DEF PagesSound

\* A client that pages through a history sees every revision below its first page's
\* head once and is never told that it is invalid (assertion_history), whoever writes
\* and purges between its pages, for any page size.
THEOREM PagesAreWhole == Spec => []PagesJoinUp
<1>1. Init => PagesSound
  BY DEF Init, PagesSound, PagesJoinUp
<1>2. Inductive /\ Inductive' /\ PagesSound /\ [Next]_vars => PagesSound'
  <2> SUFFICES ASSUME Inductive, Inductive', PagesSound, [Next]_vars PROVE PagesSound'
    OBVIOUS
  <2> USE RevisionsAssumption
  <2>0. head \in [Assertion -> Nat] /\ head' \in [Assertion -> Nat]
    BY DEF Inductive, TypeOK
  <2>1. ASSUME NEW a \in Assertion, NEW r, Adoptable(a, r), Adopt(a, r) PROVE PagesSound'
    <3>1. /\ a \notin erased /\ UNCHANGED <<erased, reader>>
          /\ head' = [head EXCEPT ![a] = head[a] + 1]
      BY <2>1 DEF Adoptable, Adopt
    <3>2. \A b \in Assertion : head[b] <= head'[b]
      BY <2>0, <3>1
    <3> QED
      BY <2>0, <3>1, <3>2, PositionStays
  <2>2. ASSUME NEW x \in Assertion \cup Source, Purge(x) PROVE PagesSound'
    <3>1. UNCHANGED reader /\ erased \subseteq erased'
      BY <2>2 DEF Purge
    <3>2. \A a \in Assertion : a \notin erased' => head'[a] = head[a]
      BY <2>2 DEF Purge
    <3>3. \A a \in Assertion : a \notin erased' => a \notin erased /\ head[a] <= head'[a]
      BY <2>0, <3>1, <3>2
    <3> QED
      BY <2>0, <3>1, <3>3, PositionStays
  <2>3. CASE FirstPage
    <3>1. PICK a \in Assertion : Read(a, MaxRevision + 1, [shown |-> {}, count |-> 0])
      BY <2>3 DEF FirstPage
    <3> QED
      BY <3>1, PageJoins
  <2>4. CASE NextPage
    <3>1. /\ reader # None /\ reader.next # 0 /\ Read(reader.memory, reader.next, reader)
          /\ Exists(reader.memory)
      BY <2>4 DEF NextPage, Read
    <3>2. /\ reader.memory \in Assertion /\ reader.next \in 2 .. MaxRevision + 1
          /\ reader.next <= head[reader.memory]
          /\ reader.count = Cardinality(reader.shown)
          /\ \E top \in Number : reader.shown = reader.next .. top
      BY <3>1 DEF PagesSound, PagesJoinUp, Exists
    <3> QED
      BY <3>1, <3>2, PageJoins
  <2>5. CASE Tick \/ StepBack \/ UNCHANGED vars
    BY <2>0, <2>5, PositionStays DEF Tick, StepBack, vars
  <2>6. ASSUME NEW r \in Request, Revise(r) PROVE PagesSound'
    BY <2>1, <2>6, ReviseAdopts DEF Inductive
  <2>7. ASSUME NEW r \in Request, NEW a \in Assertion, Remember(a, r) PROVE PagesSound'
    BY <2>1, <2>7, RememberAdopts DEF Inductive
  <2> QED
    BY <2>2, <2>3, <2>4, <2>5, <2>6, <2>7 DEF Next
<1>3. PagesSound => PagesJoinUp
  BY DEF PagesSound
<1> QED
  BY <1>1, <1>2, <1>3, HistoryInductive, PTL DEF Spec

\* Histories, tombstones, results and positions keep their types; revisions and what
\* they cite stay within their limits.
THEOREM HistoriesTyped == Spec => []TypeOK
<1>1. Inductive => TypeOK
  BY DEF Inductive
<1> QED
  BY <1>1, HistoryInductive, PTL
================================================================================
