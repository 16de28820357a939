------------------------------ MODULE ReadsProofs ------------------------------
(***************************************************************************)
(* The reads that an answer is put together for step by step.  For any     *)
(* rows the pages of a listing are one listing, whatever is inserted and   *)
(* purged between them, and a context pack has the length it states; for   *)
(* any graph an expansion is the first of all simple paths.  The order of  *)
(* a query is known by ranks: as many rows come before a row as are        *)
(* smaller.                                                                *)
(***************************************************************************)
EXTENDS Pages, ContextPack, GraphExpand, FiniteSetTheorems, TLAPS

-------------------------------------------------------------------------------
(* Orders *)

\* R orders S strictly, and leaves no two of its elements side by side.
StrictOrder(S, R) ==
  /\ \A x \in S : <<x, x>> \notin R
  /\ \A x, y, z \in S : <<x, y>> \in R /\ <<y, z>> \in R => <<x, z>> \in R
  /\ \A x, y \in S : x = y \/ <<x, y>> \in R \/ <<y, x>> \in R

Smaller(x, S, R) == {y \in S : <<y, x>> \in R}

\* The rank of an element is below the size of the set, and grows with the order.
LEMMA RanksGrow ==
  ASSUME NEW S, IsFiniteSet(S), NEW R, StrictOrder(S, R), NEW x \in S
  PROVE  /\ Cardinality(Smaller(x, S, R)) \in 0..Cardinality(S) - 1
         /\ Cardinality(S) \in Nat
         /\ \A y \in S : <<x, y>> \in R =>
              Cardinality(Smaller(x, S, R)) < Cardinality(Smaller(y, S, R))
<1>1. ASSUME NEW T, IsFiniteSet(T), NEW U \in SUBSET T, x \in T, x \notin U
      PROVE  /\ Cardinality(U) \in Nat /\ Cardinality(T) \in Nat
             /\ Cardinality(U) < Cardinality(T)
  <2>1. /\ IsFiniteSet(U) /\ Cardinality(U) <= Cardinality(T)
        /\ Cardinality(T) = Cardinality(U) => T = U
    BY <1>1, FS_Subset
  <2>2. Cardinality(T) # Cardinality(U)
    BY <1>1, <2>1
  <2>3. Cardinality(U) \in Nat /\ Cardinality(T) \in Nat
    BY <1>1, <2>1, FS_CardinalityType
  <2> QED
    BY <2>1, <2>2, <2>3
<1>2. Smaller(x, S, R) \in SUBSET S /\ x \notin Smaller(x, S, R)
  BY DEF Smaller, StrictOrder
<1>3. /\ Cardinality(Smaller(x, S, R)) \in Nat /\ Cardinality(S) \in Nat
      /\ Cardinality(Smaller(x, S, R)) < Cardinality(S)
  BY <1>1, <1>2
<1>4. ASSUME NEW y \in S, <<x, y>> \in R
      PROVE  Cardinality(Smaller(x, S, R)) < Cardinality(Smaller(y, S, R))
  <2>1. Smaller(x, S, R) \in SUBSET Smaller(y, S, R)
    BY <1>4 DEF Smaller, StrictOrder
  <2>2. x \in Smaller(y, S, R) /\ Smaller(y, S, R) \in SUBSET S
    BY <1>4 DEF Smaller
  <2>3. IsFiniteSet(Smaller(y, S, R))
    BY <2>2, FS_Subset
  <2> QED
    BY <1>1, <1>2, <2>1, <2>2, <2>3
<1> QED
  BY <1>3, <1>4

\* Ranks tell elements apart, so every number below the size of the set is one.
LEMMA RanksAreTaken ==
  ASSUME NEW S, IsFiniteSet(S), NEW R, StrictOrder(S, R)
  PROVE  /\ \A x, y \in S :
              Cardinality(Smaller(x, S, R)) = Cardinality(Smaller(y, S, R)) => x = y
         /\ \A n \in 1..Cardinality(S) :
              \E x \in S : Cardinality(Smaller(x, S, R)) = n - 1
<1> DEFINE Places == 0..Cardinality(S) - 1
           rank   == [x \in S |-> Cardinality(Smaller(x, S, R))]
<1>1. Cardinality(S) \in Nat
  BY FS_CardinalityType
<1>2. \A x \in S : Cardinality(Smaller(x, S, R)) \in Places
  BY RanksGrow
<1>3. ASSUME NEW x \in S, NEW y \in S, <<x, y>> \in R
      PROVE  Cardinality(Smaller(x, S, R)) # Cardinality(Smaller(y, S, R))
  BY <1>1, <1>2, <1>3, RanksGrow
<1>4. \A x, y \in S :
        Cardinality(Smaller(x, S, R)) = Cardinality(Smaller(y, S, R)) => x = y
  BY <1>3 DEF StrictOrder
<1>5. rank \in [S -> Places]
  BY <1>2
<1>6. rank \in Injection(S, Places)
  BY <1>4, <1>5 DEF Injection, IsInjective
<1>7. IsFiniteSet(Places) /\ Cardinality(Places) = Cardinality(S)
  <2>1. 0 \in Int /\ Cardinality(S) - 1 \in Int
    BY <1>1
  <2>2. IsFiniteSet(Places)
        /\ Cardinality(Places) = IF 0 > Cardinality(S) - 1 THEN 0 ELSE Cardinality(S) - 1 - 0 + 1
    BY <2>1, FS_Interval
  <2> QED
    BY <1>1, <2>2
<1>8. rank \in Surjection(S, Places)
  <2> HIDE DEF rank, Places
  <2> QED
    BY <1>6, <1>7, FS_Injection
<1>9. \A p \in Places : \E x \in S : rank[x] = p
  BY <1>8 DEF Surjection
<1>10. ASSUME NEW n \in 1..Cardinality(S)
       PROVE  \E x \in S : Cardinality(Smaller(x, S, R)) = n - 1
  <2>1. n - 1 \in Places
    BY <1>1
  <2> QED
    BY <1>9, <2>1
<1> QED
  BY <1>4, <1>10

-------------------------------------------------------------------------------
(* Sequences *)

\* A function from the first numbers is a sequence of that length.
LEMMA FunctionsAreSequences ==
  ASSUME NEW S, NEW n \in Nat, NEW f \in [1..n -> S]
  PROVE  f \in Seq(S) /\ Len(f) = n /\ DOMAIN f = 1..n
<1>1. f \in Seq(S)
  OBVIOUS
<1>2. Len(f) \in Nat /\ DOMAIN f = 1..Len(f)
  BY <1>1
<1>3. 1..Len(f) = 1..n
  BY <1>2
<1> QED
  BY <1>1, <1>2, <1>3

\* Where the elements of a concatenation are.
LEMMA Concatenated ==
  ASSUME NEW S, NEW s \in Seq(S), NEW t \in Seq(S)
  PROVE  /\ s \o t \in Seq(S) /\ Len(s \o t) = Len(s) + Len(t)
         /\ DOMAIN (s \o t) = 1..Len(s) + Len(t)
         /\ \A n \in 1..Len(s) : (s \o t)[n] = s[n]
         /\ \A n \in 1..Len(t) : (s \o t)[Len(s) + n] = t[n]
  OBVIOUS

-------------------------------------------------------------------------------
(* Pages *)

Born == {r \in Row : rowState[r] # "unborn"}

\* Rows have a time once they are there, and what was shown was there.
RowsAreDated ==
  /\ IsFiniteSet(Born)
  /\ \A r \in Born : recordedAt[r] >= 1
  /\ ToSet(shown) \subseteq Born

\* The client's position is below the last row it was shown.
CursorIsLast ==
  /\ paging = "idle" => shown = <<>> /\ cursor = None /\ steady = {}
  /\ paging = "more" =>
       /\ shown # <<>>
       /\ cursor = [at |-> recordedAt[shown[Len(shown)]], row |-> shown[Len(shown)]]

\* The rows of all pages are in the order of one.
ShownInOrder == \A m, n \in DOMAIN shown : m < n => Newer(shown[m], shown[n])

\* What was there all the time has been shown or is still to come.
NothingIsLost == steady \subseteq ToSet(shown) \cup (IF paging = "more" THEN Selected ELSE {})

PagesSound == PagesTypeOK /\ RowsAreDated /\ CursorIsLast /\ ShownInOrder /\ NothingIsLost

\* There are no rows.
LEMMA PagesInitSound == PagesInit => PagesSound
<1> SUFFICES ASSUME PagesInit PROVE PagesSound
  OBVIOUS
<1>1. Born = {}
  BY DEF PagesInit, Born
<1>2. ToSet(shown) = {}
  BY DEF PagesInit, ToSet
<1>3. PagesTypeOK
  BY PagesAssumption DEF PagesInit, PagesTypeOK
<1>4. RowsAreDated
  BY <1>1, <1>2, FS_EmptySet DEF RowsAreDated
<1> QED
  BY <1>3, <1>4 DEF PagesInit, PagesSound, CursorIsLast, ShownInOrder, NothingIsLost

\* A step between two pages that leaves rows and their times as they are, or adds one,
\* and keeps what is there and steady among what is selected.
LEMMA BetweenPages ==
  ASSUME PagesSound, PagesTypeOK', UNCHANGED <<cursor, shown, paging>>,
         \A r \in Born : r \in Born' /\ recordedAt'[r] = recordedAt[r],
         IsFiniteSet(Born'), \A r \in Born' : recordedAt'[r] >= 1,
         steady' \subseteq steady, steady' \cap Selected \subseteq Selected'
  PROVE  PagesSound'
<1>1. \A n \in DOMAIN shown : shown[n] \in Born
  BY DEF PagesSound, RowsAreDated, ToSet
<1>2. ToSet(shown)' = ToSet(shown)
  BY DEF ToSet
<1>3. RowsAreDated'
  BY <1>2 DEF PagesSound, RowsAreDated
<1>4. shown # <<>> => shown[Len(shown)] \in Born
  BY <1>1 DEF PagesSound, PagesTypeOK
<1>5. CursorIsLast'
  BY <1>4 DEF PagesSound, CursorIsLast
<1>6. ShownInOrder'
  BY <1>1 DEF PagesSound, ShownInOrder, Newer
<1>7. NothingIsLost'
  BY <1>2 DEF PagesSound, NothingIsLost
<1> QED
  BY <1>3, <1>5, <1>6, <1>7 DEF PagesSound

ByAge == {pair \in Row \X Row : Newer(pair[1], pair[2])}

\* Rows are in order by their times and their ids.
LEMMA ByAgeIsAnOrder ==
  ASSUME PagesTypeOK, NEW S \in SUBSET Row
  PROVE  /\ StrictOrder(S, ByAge)
         /\ \A r, s \in Row : <<r, s>> \in ByAge <=> Newer(r, s)
         /\ \A r \in S : Smaller(r, S, ByAge) = {s \in S : Newer(s, r)}
<1>1. \A r, s \in Row : <<r, s>> \in ByAge <=> Newer(r, s)
  BY DEF ByAge
<1>2. Row \subseteq Nat /\ \A r \in Row : recordedAt[r] \in Nat
  BY PagesAssumption DEF PagesTypeOK
<1>3. StrictOrder(S, ByAge)
  BY <1>1, <1>2 DEF StrictOrder, Newer
<1>4. \A r \in S : Smaller(r, S, ByAge) = {s \in S : Newer(s, r)}
  BY <1>1 DEF Smaller
<1> QED
  BY <1>1, <1>3, <1>4

\* The rows of a selection, one by one from the newest.
LEMMA NthRows ==
  ASSUME PagesSound
  PROVE  /\ IsFiniteSet(Selected) /\ Cardinality(Selected) \in Nat
         /\ \A n \in 1..Cardinality(Selected) : Nth(n) \in Selected
         /\ \A m, n \in 1..Cardinality(Selected) : m < n => Newer(Nth(m), Nth(n))
         /\ \A r \in Selected : \E n \in 1..Cardinality(Selected) : r = Nth(n)
<1> DEFINE Rank(r) == Cardinality(Smaller(r, Selected, ByAge))
<1>1. Selected \in SUBSET Born /\ Selected \in SUBSET Row
  BY DEF PagesSound, PagesTypeOK, Selected, Born
<1>2. IsFiniteSet(Selected) /\ Cardinality(Selected) \in Nat
  BY <1>1, FS_Subset, FS_CardinalityType DEF PagesSound, RowsAreDated
<1>3. /\ StrictOrder(Selected, ByAge)
      /\ \A r, s \in Row : <<r, s>> \in ByAge <=> Newer(r, s)
      /\ \A r \in Selected : Smaller(r, Selected, ByAge) = {s \in Selected : Newer(s, r)}
  BY <1>1, ByAgeIsAnOrder DEF PagesSound
<1>4. ASSUME NEW n \in 1..Cardinality(Selected)
      PROVE  Nth(n) \in Selected /\ Rank(Nth(n)) = n - 1
  <2>0. PICK r \in Selected : Rank(r) = n - 1
    BY <1>2, <1>3, RanksAreTaken
  <2>1. Cardinality({s \in Selected : Newer(s, r)}) = n - 1
    BY <1>3, <2>0
  <2>2. Nth(n) \in Selected /\ Cardinality({s \in Selected : Newer(s, Nth(n))}) = n - 1
    BY <2>1 DEF Nth
  <2> QED
    BY <1>3, <2>2
<1>5. ASSUME NEW m \in 1..Cardinality(Selected), NEW n \in 1..Cardinality(Selected), m < n
      PROVE  Newer(Nth(m), Nth(n))
  <2>1. /\ Nth(m) \in Selected /\ Nth(n) \in Selected
        /\ Rank(Nth(m)) = m - 1 /\ Rank(Nth(n)) = n - 1
    BY <1>4
  <2>2. Nth(m) # Nth(n)
    BY <1>2, <1>5, <2>1
  <2>3. CASE <<Nth(n), Nth(m)>> \in ByAge
    <3>1. Rank(Nth(n)) < Rank(Nth(m))
      BY <1>2, <1>3, <2>1, <2>3, RanksGrow
    <3> QED
      BY <1>2, <1>5, <2>1, <3>1
  <2> QED
    BY <1>1, <1>3, <2>1, <2>2, <2>3 DEF StrictOrder
<1>6. ASSUME NEW r \in Selected PROVE \E n \in 1..Cardinality(Selected) : r = Nth(n)
  <2>1. Rank(r) \in 0..Cardinality(Selected) - 1
    BY <1>2, <1>3, RanksGrow
  <2> DEFINE n == Rank(r) + 1
  <2>2. n \in 1..Cardinality(Selected) /\ Rank(r) = n - 1
    BY <1>2, <2>1
  <2>3. Nth(n) \in Selected /\ Rank(Nth(n)) = Rank(r)
    BY <1>4, <2>2
  <2>4. r = Nth(n)
    BY <1>2, <1>3, <2>3, RanksAreTaken
  <2> QED
    BY <2>2, <2>4
<1> QED
  BY <1>2, <1>4, <1>5, <1>6

\* A page continues the listing, and its last row is where the next one starts.
LEMMA ReadPageSound == ASSUME PagesSound, ReadPage PROVE PagesSound'
<1> DEFINE more == Cardinality(Selected) > PageSize
           size == IF more THEN PageSize ELSE Cardinality(Selected)
           page == [n \in 1..size |-> Nth(n)]
<1>1. /\ IsFiniteSet(Selected) /\ Cardinality(Selected) \in Nat
      /\ \A n \in 1..Cardinality(Selected) : Nth(n) \in Selected
      /\ \A m, n \in 1..Cardinality(Selected) : m < n => Newer(Nth(m), Nth(n))
      /\ \A r \in Selected : \E n \in 1..Cardinality(Selected) : r = Nth(n)
  BY NthRows
<1>2. size \in Nat /\ 1..size \subseteq 1..Cardinality(Selected) /\ (more => size >= 1)
  BY <1>1, PagesAssumption
<1>3. /\ paging # "done"
      /\ shown' = shown \o page
      /\ paging' = IF more THEN "more" ELSE "done"
      /\ cursor' = IF more THEN [at |-> recordedAt[Nth(size)], row |-> Nth(size)] ELSE None
      /\ steady' = IF paging = "idle" THEN Selected ELSE steady
      /\ UNCHANGED <<listed, rowState, recordedAt, matching>>
  BY DEF ReadPage
<1>4. /\ shown \in Seq(Row) /\ Len(shown) \in Nat /\ DOMAIN shown = 1..Len(shown)
      /\ \A n \in 1..Len(shown) : shown[n] \in Row /\ shown[n] \in Born
  BY DEF PagesSound, PagesTypeOK, RowsAreDated, ToSet
<1>5. Selected \subseteq Born /\ Selected \subseteq Row /\ Selected \subseteq matching
  BY DEF PagesSound, PagesTypeOK, Selected, Born
<1>6. page \in [1..size -> Row]
  BY <1>1, <1>2, <1>5
<1>7. page \in Seq(Row) /\ Len(page) = size
  BY <1>2, <1>6, FunctionsAreSequences
<1>8. /\ shown' \in Seq(Row) /\ Len(shown') = Len(shown) + size
      /\ DOMAIN shown' = 1..Len(shown) + size
      /\ \A n \in 1..Len(shown) : shown'[n] = shown[n]
      /\ \A n \in 1..size : shown'[Len(shown) + n] = Nth(n)
  BY <1>2, <1>3, <1>4, <1>7, Concatenated
<1> HIDE DEF more, size, page
<1>9. ASSUME NEW i \in 1..Len(shown) + size
      PROVE  i \in 1..Len(shown) \/ \E n \in 1..size : i = Len(shown) + n
  <2>1. i > Len(shown) => i - Len(shown) \in 1..size /\ i = Len(shown) + (i - Len(shown))
    BY <1>2, <1>4
  <2> QED
    BY <1>4, <2>1
<1>10. ToSet(shown') = ToSet(shown) \cup {Nth(n) : n \in 1..size}
  <2>1. 1..Len(shown) \subseteq 1..Len(shown) + size
        /\ \A n \in 1..size : Len(shown) + n \in 1..Len(shown) + size
    BY <1>2, <1>4
  <2>2. ToSet(shown) = {shown[n] : n \in 1..Len(shown)}
    BY <1>4 DEF ToSet
  <2>3. ToSet(shown') = {shown'[n] : n \in 1..Len(shown) + size}
    BY <1>8 DEF ToSet
  <2>4. ToSet(shown') \subseteq ToSet(shown) \cup {Nth(n) : n \in 1..size}
    <3> SUFFICES ASSUME NEW i \in 1..Len(shown) + size
                 PROVE  shown'[i] \in ToSet(shown) \cup {Nth(n) : n \in 1..size}
      BY <2>3
    <3>1. CASE i \in 1..Len(shown)
      BY <1>8, <2>2, <3>1
    <3>2. CASE i \notin 1..Len(shown)
      BY <1>8, <1>9, <3>2
    <3> QED
      BY <3>1, <3>2
  <2>5. ToSet(shown) \subseteq ToSet(shown')
    BY <1>8, <2>1, <2>2, <2>3
  <2>6. {Nth(n) : n \in 1..size} \subseteq ToSet(shown')
    BY <1>8, <2>1, <2>3
  <2> QED
    BY <2>4, <2>5, <2>6
<1>11. PagesTypeOK'
  <2>0. \A r \in Born : recordedAt[r] \in 1..MaxTime
    BY PagesAssumption DEF PagesSound, PagesTypeOK, RowsAreDated, Born
  <2>1. more => Nth(size) \in Row /\ recordedAt[Nth(size)] \in 1..MaxTime
    <3>1. more => size \in 1..Cardinality(Selected)
      BY <1>1, <1>2
    <3> QED
      BY <1>1, <1>5, <2>0, <3>1
  <2> QED
    BY <1>3, <1>5, <1>8, <2>1 DEF PagesSound, PagesTypeOK
<1>12. RowsAreDated'
  BY <1>1, <1>2, <1>3, <1>5, <1>10 DEF PagesSound, RowsAreDated, Born
<1>13. CursorIsLast'
  BY <1>2, <1>3, <1>4, <1>8 DEF CursorIsLast
<1>14. ShownInOrder'
  <2>1. ASSUME NEW m \in 1..Len(shown), NEW r \in Selected PROVE Newer(shown[m], r)
    <3> DEFINE last == shown[Len(shown)]
    <3>1. paging = "more" /\ Len(shown) \in 1..Len(shown)
      BY <1>3, <1>4 DEF PagesSound, CursorIsLast, PagesTypeOK
    <3>2. /\ cursor = [at |-> recordedAt[last], row |-> last]
          /\ last \in Row /\ shown[m] \in Row /\ r \in Row
      BY <1>4, <1>5, <3>1 DEF PagesSound, CursorIsLast
    <3>3. /\ Row \subseteq Nat /\ None \notin [at : Nat, row : Row]
          /\ \A q \in Row : recordedAt[q] \in Nat
      BY PagesAssumption DEF PagesSound, PagesTypeOK
    <3>4. cursor \in [at : Nat, row : Row] /\ cursor.at = recordedAt[last] /\ cursor.row = last
      BY <3>2, <3>3
    <3>5. Newer(last, r)
      <4>1. Below(r, cursor)
        BY <3>3, <3>4 DEF Selected
      <4> HIDE DEF last
      <4> QED
        BY <3>2, <3>3, <3>4, <4>1 DEF Below, Newer
    <3>6. shown[m] = last \/ Newer(shown[m], last)
      BY <1>4, <3>1 DEF PagesSound, ShownInOrder
    <3>7. \A q \in {last, r, shown[m]} : q \in Nat /\ recordedAt[q] \in Nat
      BY <3>2, <3>3
    <3> PICK v, w : v = shown[m] /\ w = last
      OBVIOUS
    <3> HIDE DEF last
    <3>8. v \in Nat /\ recordedAt[v] \in Nat /\ w \in Nat /\ recordedAt[w] \in Nat
          /\ r \in Nat /\ recordedAt[r] \in Nat
      BY <3>7
    <3>9. CASE v = w
      BY <3>5, <3>9
    <3>10. CASE Newer(v, w)
      <4>1. Newer(w, r)
        BY <3>5
      <4>2. Newer(v, r)
        BY ONLY <3>8, <3>10, <4>1 DEF Newer
      <4> QED
        BY <4>2
    <3> QED
      BY <3>6, <3>9, <3>10
  <2>2. \A m, n \in 1..Len(shown) : m < n => Newer(shown[m], shown[n])
    BY <1>4 DEF PagesSound, ShownInOrder
  <2>3. \A m, n \in 1..size : m < n => Newer(Nth(m), Nth(n))
    BY <1>1, <1>2
  <2>4. \A n \in 1..size : Nth(n) \in Selected
    BY <1>1, <1>2
  <2>5. ASSUME NEW i \in 1..Len(shown) + size, NEW j \in 1..Len(shown) + size, i < j
        PROVE  Newer(shown'[i], shown'[j])
    <3>1. CASE i \in 1..Len(shown) /\ j \in 1..Len(shown)
      BY <1>8, <2>2, <2>5, <3>1
    <3>2. CASE i \in 1..Len(shown) /\ j \notin 1..Len(shown)
      <4>1. PICK n \in 1..size : j = Len(shown) + n
        BY <1>9, <3>2
      <4>2. shown'[i] = shown[i] /\ shown'[j] = Nth(n)
        BY <1>8, <3>2, <4>1
      <4>3. Newer(shown[i], Nth(n))
        BY <2>1, <2>4, <3>2
      <4> QED
        BY <4>2, <4>3
    <3>3. CASE i \notin 1..Len(shown)
      <4>1. PICK m \in 1..size : i = Len(shown) + m
        BY <1>9, <3>3
      <4>2. PICK n \in 1..size : j = Len(shown) + n
        <5>1. j \notin 1..Len(shown)
          BY <1>4, <2>5, <3>3
        <5> QED
          BY <1>9, <5>1
      <4>3. m < n
        BY <1>2, <1>4, <2>5, <4>1, <4>2
      <4> QED
        BY <1>8, <2>3, <4>1, <4>2, <4>3
    <3> QED
      BY <3>1, <3>2, <3>3
  <2>6. \A r, s : Newer(r, s)' <=> Newer(r, s)
    BY <1>3 DEF Newer
  <2> QED
    BY <1>8, <2>5, <2>6 DEF ShownInOrder
<1>15. NothingIsLost'
  <2>1. ASSUME NEW r \in Selected
        PROVE  r \in {Nth(n) : n \in 1..size} \/ (more /\ r \in Selected')
    <3>1. PICK n \in 1..Cardinality(Selected) : r = Nth(n)
      BY <1>1
    <3>2. CASE n \in 1..size
      BY <3>1, <3>2
    <3>3. CASE n \notin 1..size
      <4>1. more /\ size \in 1..Cardinality(Selected) /\ size < n
        BY <1>1, <1>2, <3>3, PagesAssumption DEF more, size
      <4>2. Newer(Nth(size), r)
        BY <1>1, <3>1, <4>1
      <4>0. Row \subseteq Nat /\ \A q \in Row : recordedAt[q] \in Nat
        BY PagesAssumption DEF PagesSound, PagesTypeOK
      <4>3. /\ Nth(size) \in Nat /\ r \in Nat
            /\ recordedAt[Nth(size)] \in Nat /\ recordedAt[r] \in Nat
        BY <1>1, <1>5, <4>0, <4>1
      <4>4. cursor' = [at |-> recordedAt[Nth(size)], row |-> Nth(size)]
        BY <1>3, <4>1
      <4>5. \/ recordedAt[r] < recordedAt[Nth(size)]
            \/ recordedAt[r] = recordedAt[Nth(size)] /\ r < Nth(size)
        BY <4>2, <4>3 DEF Newer
      <4>6. \/ recordedAt'[r] < cursor'.at
            \/ recordedAt'[r] = cursor'.at /\ r < cursor'.row
        BY <1>3, <4>4, <4>5
      <4>7. r \in matching' /\ rowState'[r] = "there"
        BY <1>3 DEF Selected
      <4> QED
        BY <4>1, <4>6, <4>7 DEF Selected, Below
    <3> QED
      BY <3>2, <3>3
  <2>2. steady' \subseteq ToSet(shown) \cup Selected
    BY <1>3 DEF PagesSound, NothingIsLost
  <2> QED
    BY <1>3, <1>10, <2>1, <2>2 DEF NothingIsLost
<1> QED
  BY <1>11, <1>12, <1>13, <1>14, <1>15 DEF PagesSound

\* Every step preserves it.
LEMMA PagesStepSound == PagesSound /\ [PagesNext]_pagesVars => PagesSound'
<1> SUFFICES ASSUME PagesSound, [PagesNext]_pagesVars PROVE PagesSound'
  OBVIOUS
<1>1. ASSUME NEW r \in Row, NEW t \in 1..MaxTime, InsertRow(r, t) PROVE PagesSound'
  <2>1. /\ rowState[r] = "unborn" /\ rowState' = [rowState EXCEPT ![r] = "there"]
        /\ recordedAt' = [recordedAt EXCEPT ![r] = t]
        /\ matching' \in {matching, matching \cup {r}}
        /\ UNCHANGED <<listed, cursor, shown, paging, steady>>
    BY <1>1 DEF InsertRow
  <2>2. PagesTypeOK'
    BY <2>1 DEF PagesSound, PagesTypeOK
  <2>3. Born' = Born \cup {r} /\ r \notin Born
    BY <2>1 DEF PagesSound, PagesTypeOK, Born
  <2>4. IsFiniteSet(Born')
    BY <2>3, FS_AddElement DEF PagesSound, RowsAreDated
  <2>5. \A s \in Born : s \in Born' /\ recordedAt'[s] = recordedAt[s]
    BY <2>1, <2>3 DEF PagesSound, PagesTypeOK, Born
  <2>6. \A s \in Born' : recordedAt'[s] >= 1
    BY <2>1, <2>3, <2>5 DEF PagesSound, PagesTypeOK, RowsAreDated
  <2>7. Selected \subseteq Selected'
    <3>1. \A s \in Selected : s \in Born /\ s # r
      BY <2>1, <2>3 DEF PagesSound, PagesTypeOK, Selected, Born
    <3> QED
      BY <2>1, <2>5, <3>1 DEF PagesSound, PagesTypeOK, Selected, Below
  <2> QED
    BY <2>1, <2>2, <2>4, <2>5, <2>6, <2>7, BetweenPages
<1>2. ASSUME NEW r \in Row, PurgeRow(r) PROVE PagesSound'
  <2>1. /\ rowState[r] = "there" /\ rowState' = [rowState EXCEPT ![r] = "gone"]
        /\ steady' = steady \ {r}
        /\ UNCHANGED <<listed, recordedAt, matching, cursor, shown, paging>>
    BY <1>2 DEF PurgeRow
  <2>2. PagesTypeOK'
    BY <2>1 DEF PagesSound, PagesTypeOK
  <2>3. Born' = Born
    BY <2>1 DEF PagesSound, PagesTypeOK, Born
  <2>4. \A s \in Born : recordedAt'[s] = recordedAt[s]
    BY <2>1
  <2>5. steady' \cap Selected \subseteq Selected'
    BY <2>1 DEF PagesSound, PagesTypeOK, Selected, Below
  <2>6. IsFiniteSet(Born') /\ \A s \in Born' : recordedAt'[s] >= 1
    BY <2>1, <2>3 DEF PagesSound, RowsAreDated
  <2> QED
    BY <2>1, <2>2, <2>3, <2>4, <2>5, <2>6, BetweenPages
<1>3. ASSUME NEW r \in Row, ChangeState(r) PROVE PagesSound'
  <2>1. /\ matching' = IF r \in matching THEN matching \ {r} ELSE matching \cup {r}
        /\ steady' = steady \ {r}
        /\ UNCHANGED <<listed, rowState, recordedAt, cursor, shown, paging>>
    BY <1>3 DEF ChangeState
  <2>2. PagesTypeOK'
    BY <2>1 DEF PagesSound, PagesTypeOK
  <2>3. Born' = Born
    BY <2>1 DEF Born
  <2>5. steady' \cap Selected \subseteq Selected'
    BY <2>1 DEF PagesSound, PagesTypeOK, Selected, Below
  <2>6. IsFiniteSet(Born') /\ \A s \in Born' : recordedAt'[s] >= 1
    BY <2>1, <2>3 DEF PagesSound, RowsAreDated
  <2> QED
    BY <2>1, <2>2, <2>3, <2>5, <2>6, BetweenPages
<1>4. CASE UNCHANGED pagesVars
  BY <1>4, BetweenPages
  DEF pagesVars, PagesSound, PagesTypeOK, RowsAreDated, Selected, Below, Born
<1> QED
  BY <1>1, <1>2, <1>3, <1>4, ReadPageSound DEF PagesNext

\* query_episodes, Jobs.query, query_entities: for any number of rows, page size and
\* clock, the pages are one listing that misses nothing that was there all the time.
THEOREM PagesAreOneListing == PagesSpec => []PagesAgree
<1>1. PagesSound => PagesAgree
  <2> SUFFICES ASSUME PagesSound PROVE PagesAgree
    OBVIOUS
  <2>1. \A m, n \in DOMAIN shown : m < n => Newer(shown[m], shown[n])
    BY DEF PagesSound, ShownInOrder
  <2>2. paging = "done" => steady \subseteq ToSet(shown)
    BY DEF PagesSound, NothingIsLost
  <2> QED
    BY <2>1, <2>2 DEF PagesAgree
<1> QED
  BY <1>1, PagesInitSound, PagesStepSound, PTL DEF PagesSpec

-------------------------------------------------------------------------------
(* Numbers *)

\* A set of numbers has a least one.
LEMMA LeastOf ==
  ASSUME NEW T \in SUBSET Nat, T # {}
  PROVE  \E x \in T : \A y \in T : x <= y
<1>1. PICK R : IsWellFoundedOn(R, Nat) /\ \A x, y \in Nat : x < y => <<x, y>> \in R
  <2>1. IsWellFoundedOn(OpToRel(<, Nat), Nat)
    BY NatLessThanWellFounded, Zenon
  <2>2. \A x, y \in Nat : x < y => <<x, y>> \in OpToRel(<, Nat)
    BY Zenon DEF OpToRel
  <2> QED
    BY <2>1, <2>2, Zenon
<1>2. IsWellFoundedOn(R, Nat) /\ T \subseteq Nat
  BY <1>1, Zenon
<1>3. PICK x \in T : \A y \in T : ~(<<y, x>> \in R)
  BY <1>2, WFMin, Zenon
<1>4. \A y \in T : ~(y < x)
  BY <1>1, <1>2, <1>3, Zenon
<1> QED
  BY <1>2, <1>4

\* f adds up a along p, which leads from a number to a smaller one or ends there.
AddsUp(f, a, p, D) ==
  /\ f \in [D -> Nat]
  /\ \A m \in D : f[m] = a[m] + (IF p[m] < m THEN f[p[m]] ELSE 0)

\* Two sums agree as far as both go.
LEMMA SumsAgree ==
  ASSUME NEW a \in [Nat -> Nat], NEW p \in [Nat -> Nat], NEW n \in Nat, NEW k \in Nat,
         k <= n
  PROVE  \A f, g : AddsUp(f, a, p, 0..n) /\ AddsUp(g, a, p, 0..k) => f[k] = g[k]
<1> SUFFICES ASSUME NEW f, NEW g, AddsUp(f, a, p, 0..n), AddsUp(g, a, p, 0..k)
             PROVE  f[k] = g[k]
  OBVIOUS
<1> DEFINE Differ == {i \in Nat : i <= k /\ f[i] # g[i]}
<1>1. SUFFICES ASSUME Differ # {} PROVE FALSE
  <2>1. k \in Differ \/ f[k] = g[k]
    OBVIOUS
  <2> HIDE DEF Differ
  <2> QED
    BY <2>1
<1>2. PICK i \in Nat : /\ i <= k /\ f[i] # g[i]
                       /\ \A j \in Nat : j < i => f[j] = g[j]
  <2>1. Differ \in SUBSET Nat
    OBVIOUS
  <2>2. PICK i \in Differ : \A j \in Differ : i <= j
    <3> HIDE DEF Differ
    <3> QED
      BY <1>1, <2>1, LeastOf
  <2>3. i \in Nat /\ i <= k /\ f[i] # g[i]
    OBVIOUS
  <2>4. \A j \in Nat : j < i => j \notin Differ
    <3> HIDE DEF Differ
    <3> QED
      BY <2>1, <2>2, <2>3
  <2> QED
    BY <2>3, <2>4
<1> HIDE DEF Differ
<1>3. i \in 0..n /\ i \in 0..k
  BY <1>2
<1>4. /\ f[i] = a[i] + (IF p[i] < i THEN f[p[i]] ELSE 0)
      /\ g[i] = a[i] + (IF p[i] < i THEN g[p[i]] ELSE 0)
  BY <1>3 DEF AddsUp
<1>5. PICK q \in Nat : q = p[i]
  OBVIOUS
<1>6. q < i => f[q] = g[q]
  BY <1>2
<1> QED
  BY <1>2, <1>4, <1>5, <1>6

\* There is a sum up to any number,
LEMMA SumsGoOn ==
  ASSUME NEW a \in [Nat -> Nat], NEW p \in [Nat -> Nat], NEW n \in Nat
  PROVE  \E f : AddsUp(f, a, p, 0..n)
<1> DEFINE Bad == {i \in Nat : ~\E f : AddsUp(f, a, p, 0..i)}
<1>1. SUFFICES ASSUME Bad # {} PROVE FALSE
  OBVIOUS
<1>2. PICK i \in Bad : \A j \in Bad : i <= j
  <2> HIDE DEF Bad
  <2>1. Bad \in SUBSET Nat
    BY DEF Bad
  <2> QED
    BY <1>1, <2>1, LeastOf
<1>3. i \in Nat /\ p[i] \in Nat /\ a[i] \in Nat
  OBVIOUS
<1>4. CASE i = 0
  <2> DEFINE f == [m \in 0..0 |-> a[0]]
  <2>1. AddsUp(f, a, p, 0..0)
    BY <1>3, <1>4 DEF AddsUp
  <2> QED
    BY <1>4, <2>1
<1>5. CASE i # 0
  <2>1. i - 1 \in Nat /\ i - 1 \notin Bad
    <3> HIDE DEF Bad
    <3> QED
      BY <1>2, <1>3, <1>5
  <2>2. PICK f : AddsUp(f, a, p, 0..i - 1)
    BY <2>1
  <2> DEFINE last == a[i] + (IF p[i] < i THEN f[p[i]] ELSE 0)
             g    == [m \in 0..i |-> IF m < i THEN f[m] ELSE last]
  <2>3. f \in [0..i - 1 -> Nat]
        /\ \A m \in 0..i - 1 : f[m] = a[m] + (IF p[m] < m THEN f[p[m]] ELSE 0)
    BY <2>2 DEF AddsUp
  <2>4. last \in Nat
    <3>1. p[i] < i => p[i] \in 0..i - 1
      BY <1>3
    <3>2. p[i] < i => f[p[i]] \in Nat
      BY <2>3, <3>1
    <3>3. PICK rest \in Nat : rest = IF p[i] < i THEN f[p[i]] ELSE 0
      BY <3>2
    <3>4. PICK own \in Nat : own = a[i]
      BY <1>3
    <3>5. last = own + rest
      BY <3>3, <3>4
    <3> HIDE DEF last
    <3> QED
      BY <3>5
  <2> HIDE DEF last
  <2>5. g \in [0..i -> Nat]
    <3>1. ASSUME NEW m \in 0..i PROVE (IF m < i THEN f[m] ELSE last) \in Nat
      <4>1. m < i => m \in 0..i - 1
        BY <1>3
      <4> QED
        BY <2>3, <2>4, <4>1
    <3> QED
      BY <3>1
  <2>6. \A m \in 0..i - 1 : g[m] = f[m]
    BY <1>3
  <2>7. ASSUME NEW m \in 0..i - 1
        PROVE  g[m] = a[m] + (IF p[m] < m THEN g[p[m]] ELSE 0)
    <3>1. p[m] < m => p[m] \in 0..i - 1
      BY <1>3
    <3> HIDE DEF g
    <3> QED
      BY <2>3, <2>6, <3>1
  <2>8. g[i] = a[i] + (IF p[i] < i THEN g[p[i]] ELSE 0)
    <3>1. p[i] < i => p[i] \in 0..i - 1
      BY <1>3
    <3>2. g[i] = last
      BY <1>3
    <3> HIDE DEF g
    <3> QED
      BY <2>6, <3>1, <3>2 DEF last
  <2>9. \A m \in 0..i : m = i \/ m \in 0..i - 1
    BY <1>3
  <2>10. AddsUp(g, a, p, 0..i)
    <3> HIDE DEF g
    <3> QED
      BY <2>5, <2>7, <2>8, <2>9 DEF AddsUp
  <2> QED
    BY <2>10
<1> QED
  BY <1>4, <1>5

\* and so for all of them.
LEMMA SumsExist ==
  ASSUME NEW a \in [Nat -> Nat], NEW p \in [Nat -> Nat]
  PROVE  \E f : AddsUp(f, a, p, Nat)
<1> DEFINE upto(n) == CHOOSE f : AddsUp(f, a, p, 0..n)
           f == [n \in Nat |-> upto(n)[n]]
<1>1. \A n \in Nat : AddsUp(upto(n), a, p, 0..n)
  BY SumsGoOn
<1> HIDE DEF upto
<1>2. \A n \in Nat : upto(n)[n] \in Nat
  <2> TAKE n \in Nat
  <2>1. upto(n) \in [0..n -> Nat] /\ n \in 0..n
    BY <1>1 DEF AddsUp
  <2> QED
    BY <2>1
<1>3. f \in [Nat -> Nat]
  BY <1>2
<1>4. ASSUME NEW m \in Nat PROVE f[m] = a[m] + (IF p[m] < m THEN f[p[m]] ELSE 0)
  <2>1. m \in 0..m /\ AddsUp(upto(m), a, p, 0..m)
    BY <1>1
  <2>2. upto(m)[m] = a[m] + (IF p[m] < m THEN upto(m)[p[m]] ELSE 0)
    BY <2>1 DEF AddsUp
  <2>3. ASSUME p[m] < m PROVE upto(m)[p[m]] = upto(p[m])[p[m]]
    <3>1. PICK k \in Nat : k = p[m]
      OBVIOUS
    <3>2. k <= m
      BY <2>3, <3>1
    <3>3. AddsUp(upto(k), a, p, 0..k)
      BY <1>1
    <3>4. \A u, v : AddsUp(u, a, p, 0..m) /\ AddsUp(v, a, p, 0..k) => u[k] = v[k]
      BY <3>2, SumsAgree
    <3> QED
      BY <2>1, <3>1, <3>3, <3>4
  <2> QED
    BY <2>2, <2>3
<1>5. AddsUp(f, a, p, Nat)
  <2> HIDE DEF f
  <2> QED
    BY <1>3, <1>4 DEF AddsUp
<1> QED
  BY <1>5

-------------------------------------------------------------------------------
(* The number of digits, and the length that counts itself *)

\* The digits of a number are one more than those of its tenth.
LEMMA DigitsAreCounted ==
  \A n \in Nat : Digits[n] = IF n < 10 THEN 1 ELSE 1 + Digits[n \div 10]
<1> DEFINE a == [n \in Nat |-> 1]
           p == [n \in Nat |-> IF n < 10 THEN n ELSE n \div 10]
<1>1. a \in [Nat -> Nat] /\ p \in [Nat -> Nat]
  OBVIOUS
<1>2. \A n \in Nat : a[n] = 1 /\ (n < 10 => ~(p[n] < n))
                     /\ (n >= 10 => p[n] = n \div 10 /\ p[n] < n)
  OBVIOUS
<1> HIDE DEF a, p
<1>3. PICK f : AddsUp(f, a, p, Nat)
  BY <1>1, SumsExist
<1>4. \A n \in Nat : f[n] = IF n < 10 THEN 1 ELSE 1 + f[n \div 10]
  <2> TAKE n \in Nat
  <2>1. f[n] = a[n] + (IF p[n] < n THEN f[p[n]] ELSE 0)
    BY <1>3 DEF AddsUp
  <2>2. CASE n < 10
    BY <1>2, <2>1, <2>2
  <2>3. CASE n >= 10
    BY <1>2, <2>1, <2>3
  <2> QED
    BY <2>2, <2>3
<1>5. f = [n \in Nat |-> IF n < 10 THEN 1 ELSE 1 + f[n \div 10]]
  BY <1>3, <1>4 DEF AddsUp
<1>6. Digits = [n \in Nat |-> IF n < 10 THEN 1 ELSE 1 + Digits[n \div 10]]
  BY <1>5 DEF Digits
<1> QED
  BY <1>6

\* There is at least one, and there are no more than the number says.
LEMMA DigitsAreFew ==
  \A n \in Nat : Digits[n] \in Nat /\ Digits[n] >= 1 /\ (n >= 1 => Digits[n] <= n)
<1> DEFINE Good(n) == Digits[n] \in Nat /\ Digits[n] >= 1 /\ (n >= 1 => Digits[n] <= n)
           Bad == {n \in Nat : ~Good(n)}
<1>1. SUFFICES ASSUME Bad # {} PROVE FALSE
  OBVIOUS
<1>2. PICK n \in Nat : ~Good(n) /\ \A k \in Nat : k < n => Good(k)
  <2>1. Bad \in SUBSET Nat /\ \A k \in Nat : k \in Bad <=> ~Good(k)
    OBVIOUS
  <2> HIDE DEF Bad, Good
  <2>2. PICK n \in Bad : \A k \in Bad : n <= k
    BY <1>1, <2>1, LeastOf
  <2>3. \A k \in Nat : k < n => k \notin Bad
    BY <2>1, <2>2
  <2> QED
    BY <2>1, <2>2, <2>3
<1>3. CASE n < 10
  BY <1>2, <1>3, DigitsAreCounted
<1>4. CASE n >= 10
  <2>1. PICK k \in Nat : k = n \div 10 /\ 1 <= k /\ k + 1 <= n
    BY <1>4
  <2>2. Digits[n] = 1 + Digits[k]
    BY <1>4, <2>1, DigitsAreCounted
  <2>3. Digits[k] \in Nat /\ Digits[k] >= 1 /\ Digits[k] <= k
    BY <1>2, <2>1
  <2> QED
    BY <1>2, <2>1, <2>2, <2>3
<1> QED
  BY <1>3, <1>4

\* A larger number has no fewer digits.
LEMMA DigitsGrow == \A n \in Nat : \A m \in 0..n : Digits[m] <= Digits[n]
<1> DEFINE Good(n) == \A m \in 0..n : Digits[m] <= Digits[n]
           Bad == {n \in Nat : ~Good(n)}
<1>1. SUFFICES ASSUME Bad # {} PROVE FALSE
  OBVIOUS
<1>2. PICK n \in Nat : ~Good(n) /\ \A k \in Nat : k < n => Good(k)
  <2>1. Bad \in SUBSET Nat /\ \A k \in Nat : k \in Bad <=> ~Good(k)
    OBVIOUS
  <2> HIDE DEF Bad, Good
  <2>2. PICK n \in Bad : \A k \in Bad : n <= k
    BY <1>1, <2>1, LeastOf
  <2>3. \A k \in Nat : k < n => k \notin Bad
    BY <2>1, <2>2
  <2> QED
    BY <2>1, <2>2, <2>3
<1>3. PICK m \in Nat : m <= n /\ ~(Digits[m] <= Digits[n])
  BY <1>2
<1>4. CASE m < 10
  <2>1. Digits[m] = 1
    BY <1>4, DigitsAreCounted
  <2>2. Digits[n] \in Nat /\ Digits[n] >= 1
    BY DigitsAreFew
  <2> QED
    BY <1>3, <2>1, <2>2
<1>5. CASE m >= 10
  <2>1. PICK k \in Nat, i \in Nat :
          k = n \div 10 /\ i = m \div 10 /\ k < n /\ i <= k
    BY <1>3, <1>5
  <2>2. Digits[n] = 1 + Digits[k] /\ Digits[m] = 1 + Digits[i]
    BY <1>3, <1>5, <2>1, DigitsAreCounted
  <2>3. Digits[i] <= Digits[k]
    BY <1>2, <2>1
  <2>4. Digits[i] \in Nat /\ Digits[k] \in Nat
    BY DigitsAreFew
  <2> QED
    BY <1>3, <2>2, <2>3, <2>4
<1> QED
  BY <1>4, <1>5

\* Ten times a number has one digit more.
LEMMA DigitsOfTenfold == \A n \in Nat \ {0} : Digits[10 * n] = Digits[n] + 1
<1> TAKE n \in Nat \ {0}
<1>1. 10 * n \in Nat /\ ~(10 * n < 10) /\ (10 * n) \div 10 = n
  OBVIOUS
<1>2. Digits[10 * n] = 1 + Digits[n]
  BY <1>1, DigitsAreCounted
<1>3. Digits[n] \in Nat
  BY DigitsAreFew
<1> QED
  BY <1>2, <1>3

\* How many digits the length of a text of this size has, that count included.
OwnDigits(base) ==
  LET own == {d \in 1..Digits[base] + 1 : Digits[base + d] = d}
  IN CHOOSE d \in own : \A c \in own : d <= c

\* They are those of the size without them, or one more where these tip it over.
LEMMA OwnDigitsFound ==
  ASSUME NEW base \in Nat \ {0}
  PROVE  /\ Digits[base] \in Nat \ {0}
         /\ OwnDigits(base) \in {Digits[base], Digits[base] + 1}
         /\ Digits[base + OwnDigits(base)] = OwnDigits(base)
         /\ OwnDigits(base) = Digits[base] + 1 =>
              Digits[base + Digits[base]] = Digits[base] + 1
<1> PICK d \in Nat : d = Digits[base] /\ d >= 1 /\ d <= base
  BY DigitsAreFew
<1> DEFINE own == {c \in 1..d + 1 : Digits[base + c] = c}
<1>1. Digits[10 * base] = d + 1
  BY DigitsOfTenfold
<1>2. ASSUME NEW n \in Nat, base <= n, n <= 10 * base PROVE Digits[n] \in {d, d + 1}
  <2>1. base \in 0..n /\ n \in 0..10 * base /\ 10 * base \in Nat
    BY <1>2
  <2>2. d <= Digits[n] /\ Digits[n] <= d + 1
    BY <1>1, <2>1, DigitsGrow
  <2>3. Digits[n] \in Nat
    BY DigitsAreFew
  <2> QED
    BY <2>2, <2>3
<1>3. Digits[base + d] \in {d, d + 1} /\ Digits[base + (d + 1)] \in {d, d + 1}
  BY <1>2
<1>4. Digits[base + d] <= Digits[base + (d + 1)]
  BY DigitsGrow
<1>5. Digits[base + d] = d \/ (Digits[base + d] = d + 1 /\ Digits[base + (d + 1)] = d + 1)
  BY <1>3, <1>4
<1>6. \A c \in own : c >= d
  <2> SUFFICES ASSUME NEW c \in 1..d + 1, Digits[base + c] = c PROVE c >= d
    OBVIOUS
  <2>1. Digits[base + c] >= d
    BY DigitsGrow
  <2> QED
    BY <2>1
<1>7. d \in own \/ (d \notin own /\ d + 1 \in own)
  BY <1>5
<1>8. \E c \in own : \A e \in own : c <= e
  <2>1. CASE d \in own
    BY <1>6, <2>1
  <2>2. CASE d \notin own /\ d + 1 \in own
    <3>1. \A e \in own : e \in Nat /\ e # d
      BY <2>2
    <3>2. \A e \in own : d + 1 <= e
      BY <1>6, <3>1
    <3> HIDE DEF own
    <3> QED
      BY <2>2, <3>2
  <2> QED
    BY <1>7, <2>1, <2>2
<1>9. OwnDigits(base) = CHOOSE c \in own : \A e \in own : c <= e
  BY DEF OwnDigits
<1>10. OwnDigits(base) \in own /\ \A e \in own : OwnDigits(base) <= e
  <2> HIDE DEF own
  <2> QED
    BY <1>8, <1>9
<1>11. OwnDigits(base) \in {d, d + 1} /\ Digits[base + OwnDigits(base)] = OwnDigits(base)
  BY <1>6, <1>10
<1>12. OwnDigits(base) = d + 1 => Digits[base + d] = d + 1
  BY <1>5, <1>10
<1> QED
  BY <1>11, <1>12

\* The length that counts itself grows with the text.
LEMMA OwnLengthGrows ==
  ASSUME NEW b \in Nat \ {0}, NEW c \in Nat, b <= c
  PROVE  b + OwnDigits(b) <= c + OwnDigits(c)
<1>1. CASE b = c
  BY <1>1, OwnDigitsFound
<1>2. CASE b < c
  <2>1. PICK d \in Nat, e \in Nat :
          /\ d = Digits[b] /\ e = Digits[c]
          /\ OwnDigits(b) \in {d, d + 1} /\ OwnDigits(c) \in {e, e + 1}
    BY <1>2, OwnDigitsFound
  <2>2. d <= e
    BY <1>2, <2>1, DigitsGrow
  <2> QED
    BY <1>2, <2>1, <2>2
<1> QED
  BY <1>1, <1>2

\* Three counts are enough: a count that starts no higher than the right one ends
\* there, and the fourth changes nothing.
LEMMA CountedIsRight ==
  ASSUME NEW text \in Nat, NEW count \in Nat,
         count <= Frame + text + OwnDigits(Frame + text)
  PROVE  /\ Counted(text, count) = Frame + text + OwnDigits(Frame + text)
         /\ Size(text, Counted(text, count)) = Counted(text, count)
<1> PICK base \in Nat \ {0} : base = Frame + text
  BY ContextAssumption
<1> PICK d \in Nat, own \in Nat :
      /\ d = Digits[base] /\ own = OwnDigits(base) /\ d >= 1
      /\ own \in {d, d + 1} /\ Digits[base + own] = own
      /\ own = d + 1 => Digits[base + d] = d + 1
  <2>1. Digits[base] \in Nat \ {0} /\ OwnDigits(base) \in {Digits[base], Digits[base] + 1}
    BY OwnDigitsFound
  <2>2. OwnDigits(base) \in Nat
    BY <2>1
  <2> QED
    BY <2>1, <2>2, OwnDigitsFound
<1>1. \A n \in Nat : Size(text, n) = base + Digits[n] /\ Digits[n] \in Nat /\ Digits[n] >= 1
  BY DigitsAreFew DEF Size
<1>2. ASSUME NEW n \in Nat, n <= base + own PROVE Digits[n] <= own
  <2>1. n \in 0..base + own
    BY <1>2
  <2> QED
    BY <2>1, DigitsGrow
<1>3. ASSUME NEW n \in Nat, base <= n PROVE d <= Digits[n]
  <2>1. base \in 0..n
    BY <1>3
  <2> QED
    BY <2>1, DigitsGrow
<1>4. PICK one \in Nat : one = Size(text, count) /\ base <= one /\ one <= base + own
  BY <1>1, <1>2
<1>5. PICK two \in Nat : two = Size(text, one) /\ base + d <= two /\ two <= base + own
  BY <1>1, <1>2, <1>3, <1>4
<1>6. Size(text, two) = base + own
  <2>1. Digits[two] <= own /\ d <= Digits[two] /\ Digits[two] \in Nat
    BY <1>1, <1>2, <1>3, <1>5
  <2>2. CASE own = d
    BY <1>1, <2>1, <2>2
  <2>3. CASE own = d + 1
    <3>1. base + d \in 0..two
      BY <1>5
    <3>2. d + 1 <= Digits[two]
      BY <2>3, <3>1, DigitsGrow
    <3> QED
      BY <1>1, <2>1, <2>3, <3>2
  <2> QED
    BY <2>2, <2>3
<1>7. Size(text, base + own) = base + own
  BY <1>1
<1> QED
  BY <1>4, <1>5, <1>6, <1>7 DEF Counted

-------------------------------------------------------------------------------
(* The text of a pack *)

\* A set of numbers that is left by no step upwards holds all of them.
LEMMA CountUp ==
  ASSUME NEW k \in Nat, NEW Good \in SUBSET Nat, 0 \in Good,
         \A n \in 1..k : n - 1 \in Good => n \in Good
  PROVE  k \in Good
<1> SUFFICES ASSUME k \notin Good PROVE FALSE
  OBVIOUS
<1> DEFINE Bad == {n \in Nat : n \notin Good}
<1>1. Bad \in SUBSET Nat /\ Bad # {} /\ k \in Bad /\ 0 \notin Bad
      /\ \A n \in Nat : n \in Bad <=> n \notin Good
  OBVIOUS
<1> HIDE DEF Bad
<1>2. PICK n \in Bad : \A m \in Bad : n <= m
  BY <1>1, LeastOf
<1>3. n \in 1..k /\ n - 1 \in Nat /\ n - 1 \notin Bad
  BY <1>1, <1>2
<1> QED
  BY <1>1, <1>2, <1>3

\* Rows have sizes.
LEMMA SizesAreNumbers ==
  ASSUME found \in Seq(LineSizes)
  PROVE  Len(found) \in Nat /\ \A n \in 1..Len(found) : found[n] \in Nat
<1>1. Len(found) \in Nat /\ \A n \in 1..Len(found) : found[n] \in LineSizes
  OBVIOUS
<1> QED
  BY <1>1, ContextAssumption

\* The sums of the lines of rows.
Totals(total, rows) ==
  /\ total \in [0..Len(found) -> Nat]
  /\ LinesOf(rows) = total[Len(found)]
  /\ total[0] = 0
  /\ \A n \in 1..Len(found) :
       total[n] = total[n - 1] + (IF n \in rows THEN found[n] ELSE 0)

\* The lines of rows are added up row by row.
LEMMA LinesAddUp ==
  ASSUME found \in Seq(LineSizes)
  PROVE  \A rows : \E total : Totals(total, rows)
<1> TAKE rows
<1> PICK k \in Nat : k = Len(found)
  BY SizesAreNumbers
<1>1. \A n \in 1..k : found[n] \in Nat
  BY SizesAreNumbers
<1> DEFINE a == [n \in Nat |-> IF n \in 1..k /\ n \in rows THEN found[n] ELSE 0]
           p == [n \in Nat |-> IF n = 0 THEN 0 ELSE n - 1]
<1>2. a \in [Nat -> Nat] /\ p \in [Nat -> Nat]
  BY <1>1
<1>3. /\ a[0] = 0 /\ ~(p[0] < 0)
      /\ \A n \in 1..k : /\ p[n] = n - 1 /\ p[n] < n
                         /\ a[n] = IF n \in rows THEN found[n] ELSE 0
  OBVIOUS
<1> HIDE DEF a, p
<1>4. PICK f : AddsUp(f, a, p, Nat)
  BY <1>2, SumsExist
<1> DEFINE t == [n \in 0..k |-> f[n]]
           Step(g) == [n \in 0..k |-> IF n = 0 THEN 0
                         ELSE g[n - 1] + IF n \in rows THEN found[n] ELSE 0]
<1>5. t = Step(t)
  <2>1. f[0] = 0
    <3>1. f[0] = a[0] + (IF p[0] < 0 THEN f[p[0]] ELSE 0)
      BY <1>4 DEF AddsUp
    <3> QED
      BY <1>3, <3>1
  <2>2. ASSUME NEW n \in 1..k
        PROVE  f[n] = f[n - 1] + (IF n \in rows THEN found[n] ELSE 0)
    <3>1. f[n] = a[n] + (IF p[n] < n THEN f[p[n]] ELSE 0)
      BY <1>4 DEF AddsUp
    <3>2. f[n] = a[n] + f[n - 1]
      BY <1>3, <3>1
    <3>3. n \in Nat /\ n - 1 \in Nat
      OBVIOUS
    <3>4. f \in [Nat -> Nat]
      BY <1>4 DEF AddsUp
    <3>5. f[n - 1] \in Nat /\ a[n] \in Nat
      BY <1>2, <3>3, <3>4
    <3> QED
      BY <1>3, <3>2, <3>5
  <2>3. \A n \in 0..k : n = 0 \/ (n \in 1..k /\ n - 1 \in 0..k)
    OBVIOUS
  <2>4. \A n \in 0..k : t[n] = f[n]
    OBVIOUS
  <2>5. ASSUME NEW n \in 0..k PROVE t[n] = Step(t)[n]
    <3>1. CASE n = 0
      BY <2>1, <2>4, <3>1
    <3>2. CASE n \in 1..k
      <4>1. Step(t)[n] = t[n - 1] + IF n \in rows THEN found[n] ELSE 0
        BY <3>2
      <4> QED
        BY <2>2, <2>3, <2>4, <3>2, <4>1
    <3> QED
      BY <2>3, <3>1, <3>2
  <2> QED
    BY <2>5
<1> DEFINE total == CHOOSE g : g = Step(g)
<1>6. total = Step(total)
  <2> HIDE DEF t, Step
  <2> QED
    BY <1>5
<1>7. LinesOf(rows) = total[k]
  BY DEF LinesOf
<1> HIDE DEF total
<1>8. total[0] = 0 /\ \A n \in 1..k : total[n] = total[n - 1]
                                        + (IF n \in rows THEN found[n] ELSE 0)
  BY <1>6
<1>9. ASSUME NEW m \in 0..k PROVE total[m] \in Nat
  <2> DEFINE Good == {n \in Nat : n <= m => total[n] \in Nat}
  <2>1. Good \in SUBSET Nat /\ 0 \in Good
    BY <1>8
  <2>2. ASSUME NEW n \in 1..m, n - 1 \in Good PROVE n \in Good
    <3>1. n \in 1..k /\ n - 1 \in Nat /\ n - 1 <= m
      OBVIOUS
    <3>2. total[n - 1] \in Nat
      BY <2>2, <3>1
    <3>3. total[n] = total[n - 1] + (IF n \in rows THEN found[n] ELSE 0) /\ found[n] \in Nat
      BY <1>1, <1>8, <3>1
    <3>4. total[n] \in Nat
      BY <3>2, <3>3
    <3> QED
      BY <3>4
  <2>3. m \in Good
    <3> HIDE DEF Good
    <3> QED
      BY <2>1, <2>2, CountUp
  <2> QED
    BY <2>3
<1>10. total \in [0..k -> Nat]
  BY <1>6, <1>9
<1>11. Totals(total, rows)
  BY <1>7, <1>8, <1>10 DEF Totals
<1> QED
  BY <1>11

\* More rows have no shorter lines,
LEMMA LinesGrow ==
  ASSUME found \in Seq(LineSizes), NEW rows, NEW more, rows \subseteq more
  PROVE  LinesOf(rows) \in Nat /\ LinesOf(more) \in Nat /\ LinesOf(rows) <= LinesOf(more)
<1>1. PICK t : Totals(t, rows)
  BY LinesAddUp
<1>2. PICK u : Totals(u, more)
  BY LinesAddUp
<1> PICK k \in Nat : k = Len(found)
  BY SizesAreNumbers
<1>3. t \in [0..k -> Nat] /\ u \in [0..k -> Nat] /\ t[0] = 0 /\ u[0] = 0
  BY <1>1, <1>2 DEF Totals
<1> DEFINE Good == {n \in Nat : n <= k => t[n] <= u[n]}
<1>4. Good \in SUBSET Nat /\ 0 \in Good
  BY <1>3
<1>5. ASSUME NEW n \in 1..k, n - 1 \in Good PROVE n \in Good
  <2>1. t[n - 1] <= u[n - 1]
    BY <1>5
  <2>0. n - 1 \in 0..k
    OBVIOUS
  <2>2. t[n - 1] \in Nat /\ u[n - 1] \in Nat /\ found[n] \in Nat
    BY <1>3, <2>0, SizesAreNumbers
  <2>3. /\ t[n] = t[n - 1] + (IF n \in rows THEN found[n] ELSE 0)
        /\ u[n] = u[n - 1] + (IF n \in more THEN found[n] ELSE 0)
    BY <1>1, <1>2 DEF Totals
  <2>4. t[n] <= u[n]
    BY <2>1, <2>2, <2>3
  <2> QED
    BY <2>4
<1>6. k \in Good
  <2> HIDE DEF Good
  <2> QED
    BY <1>4, <1>5, CountUp
<1>7. t[k] \in Nat /\ u[k] \in Nat /\ t[k] <= u[k]
  BY <1>3, <1>6
<1> QED
  BY <1>1, <1>2, <1>7 DEF Totals

\* one more row has one line more,
LEMMA LinesOfOneMore ==
  ASSUME found \in Seq(LineSizes), NEW rows, NEW r \in 1..Len(found), r \notin rows
  PROVE  LinesOf(rows \cup {r}) = LinesOf(rows) + found[r]
<1>1. PICK t : Totals(t, rows)
  BY LinesAddUp
<1>2. PICK u : Totals(u, rows \cup {r})
  BY LinesAddUp
<1> PICK k \in Nat : k = Len(found)
  BY SizesAreNumbers
<1>3. t \in [0..k -> Nat] /\ u \in [0..k -> Nat] /\ t[0] = 0 /\ u[0] = 0
  BY <1>1, <1>2 DEF Totals
<1> DEFINE Good == {n \in Nat : n <= k => u[n] = IF n < r THEN t[n] ELSE t[n] + found[r]}
<1>4. Good \in SUBSET Nat /\ 0 \in Good
  BY <1>3
<1>5. ASSUME NEW n \in 1..k, n - 1 \in Good PROVE n \in Good
  <2>1. u[n - 1] = IF n - 1 < r THEN t[n - 1] ELSE t[n - 1] + found[r]
    BY <1>5
  <2>0. n - 1 \in 0..k
    OBVIOUS
  <2>2. t[n - 1] \in Nat /\ found[n] \in Nat /\ found[r] \in Nat
    BY <1>3, <2>0, SizesAreNumbers
  <2>3. /\ t[n] = t[n - 1] + (IF n \in rows THEN found[n] ELSE 0)
        /\ u[n] = u[n - 1] + (IF n \in rows \cup {r} THEN found[n] ELSE 0)
    BY <1>1, <1>2 DEF Totals
  <2>4. u[n] = IF n < r THEN t[n] ELSE t[n] + found[r]
    <3>1. CASE n = r
      BY <2>1, <2>2, <2>3, <3>1
    <3>2. CASE n # r
      BY <2>1, <2>2, <2>3, <3>2
    <3> QED
      BY <3>1, <3>2
  <2> QED
    BY <2>4
<1>6. k \in Good
  <2> HIDE DEF Good
  <2> QED
    BY <1>4, <1>5, CountUp
<1>7. u[k] = t[k] + found[r]
  BY <1>6
<1> QED
  BY <1>1, <1>2, <1>7 DEF Totals

\* and no rows have none.
LEMMA LinesOfNone ==
  ASSUME found \in Seq(LineSizes)
  PROVE  LinesOf({}) = 0
<1>1. PICK t : Totals(t, {})
  BY LinesAddUp
<1> PICK k \in Nat : k = Len(found)
  BY SizesAreNumbers
<1> DEFINE Good == {n \in Nat : n <= k => t[n] = 0}
<1>2. Good \in SUBSET Nat /\ 0 \in Good
  BY <1>1 DEF Totals
<1>3. ASSUME NEW n \in 1..k, n - 1 \in Good PROVE n \in Good
  <2>1. t[n] = t[n - 1] + 0
    BY <1>1 DEF Totals
  <2>2. t[n - 1] = 0
    BY <1>3
  <2>3. t[n] = 0
    BY <2>1, <2>2
  <2> QED
    BY <2>3
<1>4. k \in Good
  <2> HIDE DEF Good
  <2> QED
    BY <1>2, <1>3, CountUp
<1> QED
  BY <1>1, <1>4 DEF Totals

\* The same of texts.
LEMMA TextsGrow ==
  ASSUME found \in Seq(LineSizes), NEW rows, NEW more, rows \subseteq more
  PROVE  TextOf(rows) \in Nat /\ TextOf(more) \in Nat /\ TextOf(rows) <= TextOf(more)
<1>1. LinesOf(rows) \in Nat /\ LinesOf(more) \in Nat /\ LinesOf(rows) <= LinesOf(more)
  BY LinesGrow
<1>2. Header \in Nat
  BY ContextAssumption
<1> QED
  BY <1>1, <1>2 DEF TextOf

LEMMA TextOfOneMore ==
  ASSUME found \in Seq(LineSizes), NEW rows, NEW r \in 1..Len(found), r \notin rows,
         pack.text = TextOf(rows)
  PROVE  With(r) = TextOf(rows \cup {r})
<1>1. LinesOf(rows) \in Nat /\ found[r] \in Nat /\ Header \in Nat
  BY LinesGrow, SizesAreNumbers, ContextAssumption
<1>2. LinesOf(rows \cup {r}) = LinesOf(rows) + found[r]
  BY LinesOfOneMore
<1>3. TextOf(rows \cup {r}) = Header + LinesOf(rows \cup {r})
  BY DEF TextOf
<1>4. CASE rows = {}
  <2>1. With(r) = Header + found[r]
    BY <1>4 DEF TextOf, With
  <2>2. LinesOf({}) = 0
    BY LinesOfNone
  <2> QED
    BY <1>1, <1>2, <1>3, <1>4, <2>1, <2>2
<1>5. CASE rows # {}
  <2>1. pack.text = Header + LinesOf(rows)
    BY <1>5 DEF TextOf
  <2>2. With(r) = pack.text + found[r]
    BY <1>1, <2>1 DEF With
  <2> QED
    BY <1>1, <1>2, <1>3, <2>1, <2>2
<1> QED
  BY <1>4, <1>5

\* The length of a pack is its text's and its frame's with their count, and grows.
LEMMA LengthsGrow ==
  ASSUME found \in Seq(LineSizes), NEW rows, NEW more, rows \subseteq more
  PROVE  /\ LengthOf(rows) = Frame + TextOf(rows) + OwnDigits(Frame + TextOf(rows))
         /\ LengthOf(rows) \in Nat /\ LengthOf(more) \in Nat
         /\ LengthOf(rows) <= LengthOf(more)
<1>1. \A set : LengthOf(set) = Frame + TextOf(set) + OwnDigits(Frame + TextOf(set))
  BY DEF LengthOf, OwnDigits
<1>2. TextOf(rows) \in Nat /\ TextOf(more) \in Nat /\ TextOf(rows) <= TextOf(more)
  BY TextsGrow
<1>3. PICK b \in Nat \ {0} : b = Frame + TextOf(rows)
  BY <1>2, ContextAssumption
<1>4. PICK c \in Nat \ {0} : c = Frame + TextOf(more) /\ b <= c
  BY <1>2, <1>3, ContextAssumption
<1>5. b + OwnDigits(b) <= c + OwnDigits(c)
  BY <1>4, OwnLengthGrows
<1>6. \A n \in Nat \ {0} : OwnDigits(n) \in Nat
  <2> TAKE n \in Nat \ {0}
  <2>1. Digits[n] \in Nat \ {0} /\ OwnDigits(n) \in {Digits[n], Digits[n] + 1}
    BY OwnDigitsFound
  <2> QED
    BY <2>1
<1> QED
  BY <1>1, <1>3, <1>4, <1>5, <1>6

-------------------------------------------------------------------------------
(* Context packs *)

\* What a recall asked for can be met by the rows that were found.
RequestFits ==
  IF packing = "idle"
    THEN next = 1 /\ selected = {} /\ omitted = FALSE /\ pack = [text |-> 0, count |-> 0]
    ELSE /\ recall \in RecallRequest
         /\ recall.required <= Len(found) /\ recall.required <= recall.limit
         /\ next <= Items + 1

\* The pack is that of the selected rows, and one not selected was left out.
PackIsSelected ==
  /\ selected \subseteq 1..next - 1
  /\ pack.text = TextOf(selected)
  /\ omitted <=> selected # 1..next - 1

\* The pack so far states its length, within the budget, and has every required row.
StillFits ==
  packing = "packing" =>
    /\ pack.count = IF selected = {} THEN 0 ELSE LengthOf(selected)
    /\ pack.count <= recall.budget
    /\ \A r \in 1..next - 1 : r <= recall.required => r \in selected

\* How a recall ends.
EndsRight ==
  /\ packing = "packed" =>
       /\ next = Items + 1
       /\ pack.count = LengthOf(selected) /\ pack.count <= recall.budget
       /\ pack.count = Size(pack.text, pack.count)
       /\ 1..recall.required \subseteq selected
  /\ packing = "refused" => LengthOf(1..recall.required) > recall.budget

ContextSound == ContextTypeOK /\ RequestFits /\ PackIsSelected /\ StillFits /\ EndsRight

\* Nothing was recalled.
LEMMA ContextInitSound == ContextInit => ContextSound
<1> SUFFICES ASSUME ContextInit PROVE ContextSound
  OBVIOUS
<1>0. /\ found = <<>> /\ recall = NoRecall /\ next = 1 /\ pack = [text |-> 0, count |-> 0]
      /\ selected = {} /\ omitted = FALSE /\ packing = "idle" /\ MaxRows \in Nat
  BY ContextAssumption DEF ContextInit
<1>1. ContextTypeOK
  <2>1. found \in Seq(LineSizes) /\ Len(found) <= MaxRows
    BY <1>0
  <2>2. next \in 1..MaxRows + 1
    BY <1>0
  <2> QED
    BY <1>0, <2>1, <2>2 DEF ContextTypeOK
<1>2. 1..next - 1 = {} /\ TextOf({}) = 0
  BY DEF ContextInit, TextOf
<1> QED
  BY <1>1, <1>2 DEF ContextInit, ContextSound, RequestFits, PackIsSelected, StillFits, EndsRight

\* The parts of a request.
LEMMA RequestParts ==
  ASSUME recall \in RecallRequest
  PROVE  recall.budget \in Nat /\ recall.limit \in Nat \ {0} /\ recall.required \in 0..MaxRows
BY ContextAssumption DEF RecallRequest

\* As many items as were found and asked for.
LEMMA ItemsAreFew ==
  ASSUME recall \in RecallRequest, found \in Seq(LineSizes)
  PROVE  /\ Items \in Nat /\ Items <= Len(found) /\ Items <= recall.limit
         /\ Items = Len(found) \/ Items = recall.limit
BY RequestParts, SizesAreNumbers DEF Items

\* Lengths depend on the rows found, and on nothing else.
LEMMA LengthsStay ==
  ASSUME UNCHANGED found
  PROVE  /\ \A rows : TextOf(rows)' = TextOf(rows) /\ LengthOf(rows)' = LengthOf(rows)
<1>1. \A rows : LinesOf(rows)' = LinesOf(rows)
  BY DEF LinesOf
<1>2. \A rows : TextOf(rows)' = TextOf(rows)
  BY <1>1 DEF TextOf
<1> QED
  BY <1>2 DEF LengthOf

\* While it is packed, a pack that is to hold more rows is counted right.
LEMMA MoreIsCounted ==
  ASSUME ContextSound, packing = "packing", NEW rows, selected \subseteq rows
  PROVE  /\ Counted(TextOf(rows), pack.count) = LengthOf(rows)
         /\ Size(TextOf(rows), LengthOf(rows)) = LengthOf(rows)
         /\ TextOf(rows) \in Nat /\ LengthOf(rows) \in Nat
<1>1. found \in Seq(LineSizes) /\ pack.count \in Nat
  BY DEF ContextSound, ContextTypeOK
<1>2. /\ LengthOf(rows) = Frame + TextOf(rows) + OwnDigits(Frame + TextOf(rows))
      /\ LengthOf(selected) <= LengthOf(rows) /\ LengthOf(rows) \in Nat
  <2>1. LengthOf(selected) <= LengthOf(rows) /\ LengthOf(rows) \in Nat
    BY <1>1, LengthsGrow
  <2>2. rows \subseteq rows
    OBVIOUS
  <2>3. LengthOf(rows) = Frame + TextOf(rows) + OwnDigits(Frame + TextOf(rows))
    BY <1>1, <2>2, LengthsGrow
  <2> QED
    BY <2>1, <2>3
<1>3. pack.count = 0 \/ pack.count = LengthOf(selected)
  BY DEF ContextSound, StillFits
<1>4. pack.count <= Frame + TextOf(rows) + OwnDigits(Frame + TextOf(rows))
  BY <1>1, <1>2, <1>3
<1>5. TextOf(rows) \in Nat
  BY <1>1, TextsGrow
<1> QED
  BY <1>1, <1>2, <1>4, <1>5, CountedIsRight

\* Rows are found.
LEMMA FindRowsSound == ASSUME ContextSound, FindRows PROVE ContextSound'
<1>1. /\ packing = "idle" /\ packing' = "packing"
      /\ \E n \in 0..MaxRows : found' \in [1..n -> LineSizes]
      /\ recall' \in RecallRequest
      /\ recall'.required <= Len(found') /\ recall'.required <= recall'.limit
      /\ UNCHANGED <<next, pack, selected, omitted>>
  BY DEF FindRows
<1>2. /\ next = 1 /\ selected = {} /\ omitted = FALSE /\ pack = [text |-> 0, count |-> 0]
  BY <1>1 DEF ContextSound, RequestFits
<1>3. found' \in Seq(LineSizes) /\ Len(found') <= MaxRows
  BY <1>1, FunctionsAreSequences, ContextAssumption
<1>4. ContextTypeOK'
  BY <1>1, <1>3 DEF ContextSound, ContextTypeOK
<1>5. recall'.budget \in Nat /\ Items' \in Nat
  <2>1. recall'.budget \in Nat /\ recall'.limit \in Nat
    BY <1>1, ContextAssumption DEF RecallRequest
  <2> QED
    BY <1>3, <2>1 DEF Items
<1>6. 1..next' - 1 = {} /\ TextOf({})' = 0
  BY <1>1, <1>2 DEF TextOf
<1>7. RequestFits'
  <2>1. PICK i \in Nat : i = Items'
    BY <1>5
  <2>2. next' = 1 /\ 1 <= i + 1
    BY <1>1, <1>2
  <2>3. next' <= (Items + 1)'
    BY <2>1, <2>2
  <2> QED
    BY <1>1, <2>3 DEF RequestFits
<1>8. PackIsSelected'
  BY <1>1, <1>2, <1>6 DEF PackIsSelected
<1>9. StillFits'
  BY <1>1, <1>2, <1>5, <1>6 DEF StillFits
<1>10. EndsRight'
  BY <1>1 DEF EndsRight
<1> QED
  BY <1>4, <1>7, <1>8, <1>9, <1>10 DEF ContextSound

\* A row is packed, left out, or cannot be done without.
LEMMA ConsiderRowSound == ASSUME ContextSound, ConsiderRow PROVE ContextSound'
<1> PICK rows : rows = selected \cup {next}
  OBVIOUS
<1>1. /\ packing = "packing" /\ next <= Items /\ next' = next + 1
      /\ UNCHANGED <<found, recall>>
  BY DEF ConsiderRow
<1>2. /\ found \in Seq(LineSizes) /\ recall \in RecallRequest /\ next \in Nat \ {0}
      /\ Len(found) \in Nat /\ Len(found) <= MaxRows /\ selected \subseteq 1..next - 1
  BY <1>1, SizesAreNumbers
  DEF ContextSound, ContextTypeOK, RequestFits, PackIsSelected
<1>3. next \in 1..Len(found) /\ next \in 1..MaxRows /\ next \notin selected
  BY <1>1, <1>2, ItemsAreFew, ContextAssumption
<1>4. With(next) = TextOf(rows)
  BY <1>2, <1>3, TextOfOneMore DEF ContextSound, PackIsSelected
<1>5. /\ Counted(With(next), pack.count) = LengthOf(rows)
      /\ TextOf(rows) \in Nat /\ LengthOf(rows) \in Nat
  BY <1>1, <1>4, MoreIsCounted
<1>6. 1..next' - 1 = (1..next - 1) \cup {next}
  BY <1>1, <1>2
<1>7. /\ \A set : TextOf(set)' = TextOf(set) /\ LengthOf(set)' = LengthOf(set)
      /\ Items' = Items
  BY <1>1, LengthsStay DEF Items
<1>8. RequestFits'
  <2>1. packing' # "idle"
    BY <1>1 DEF ConsiderRow
  <2>2. next' <= Items + 1
    BY <1>1, <1>2, ItemsAreFew
  <2> QED
    BY <1>1, <1>7, <2>1, <2>2 DEF ContextSound, RequestFits
<1>9. recall.budget \in Nat /\ recall.required \in Nat
  BY <1>2, RequestParts
<1>10. \A r \in 1..next - 1 : r <= recall.required => r \in selected
  BY <1>1 DEF ContextSound, StillFits
<1>11. next' \in 1..MaxRows + 1 /\ rows \subseteq 1..MaxRows
  BY <1>1, <1>2, <1>3, ContextAssumption DEF ContextSound, ContextTypeOK
<1>12. CASE LengthOf(rows) <= recall.budget
  <2>1. /\ pack' = [text |-> TextOf(rows), count |-> LengthOf(rows)]
        /\ selected' = rows
        /\ UNCHANGED <<omitted, packing>>
    BY <1>4, <1>5, <1>12 DEF ConsiderRow
  <2>2. ContextTypeOK'
    BY <1>1, <1>11, <1>5, <2>1 DEF ContextSound, ContextTypeOK
  <2>3. PackIsSelected'
    <3>1. next \notin 1..next - 1
      BY <1>2
    <3>2. rows = (1..next - 1) \cup {next} => selected = 1..next - 1
      <4>1. \A n : n \in selected <=> n \in rows /\ n # next
        BY <1>3
      <4>2. \A n : n \in 1..next - 1 <=> n \in (1..next - 1) \cup {next} /\ n # next
        BY <3>1
      <4> QED
        BY <4>1, <4>2
    <3>3. rows \subseteq (1..next - 1) \cup {next}
      BY <1>2
    <3>4. omitted <=> selected # 1..next - 1
      BY DEF ContextSound, PackIsSelected
    <3>5. pack'.text = TextOf(selected)'
      BY <1>7, <2>1
    <3> QED
      BY <1>6, <2>1, <3>2, <3>3, <3>4, <3>5 DEF PackIsSelected
  <2>4. StillFits'
    BY <1>1, <1>6, <1>7, <1>10, <1>12, <2>1 DEF StillFits
  <2>5. EndsRight'
    BY <1>1, <2>1 DEF EndsRight
  <2> QED
    BY <1>8, <2>2, <2>3, <2>4, <2>5 DEF ContextSound
<1>13. CASE ~(LengthOf(rows) <= recall.budget)
  <2>1. /\ omitted' = TRUE
        /\ packing' = IF next <= recall.required THEN "refused" ELSE "packing"
        /\ UNCHANGED <<pack, selected>>
    BY <1>4, <1>5, <1>13 DEF ConsiderRow
  <2>2. ContextTypeOK'
    BY <1>1, <1>11, <2>1 DEF ContextSound, ContextTypeOK
  <2>3. PackIsSelected'
    BY <1>2, <1>3, <1>6, <1>7, <2>1 DEF ContextSound, PackIsSelected
  <2>4. StillFits'
    <3> SUFFICES ASSUME packing' = "packing"
                 PROVE  /\ pack'.count = IF selected' = {} THEN 0 ELSE LengthOf(selected)'
                        /\ pack'.count <= recall'.budget
                        /\ \A r \in 1..next' - 1 : r <= recall'.required => r \in selected'
      BY <1>1, <1>7, <2>1 DEF StillFits
    <3>1. ~(next <= recall.required)
      BY <2>1
    <3>2. \A r \in (1..next - 1) \cup {next} : r <= recall.required => r \in selected
      BY <1>10, <3>1
    <3> QED
      BY <1>1, <1>6, <1>7, <2>1, <3>2 DEF ContextSound, StillFits
  <2>5. EndsRight'
    <3> SUFFICES ASSUME packing' = "refused"
                 PROVE  LengthOf(1..recall.required) > recall.budget
      BY <1>1, <1>7, <2>1 DEF EndsRight
    <3>1. next <= recall.required
      BY <2>1
    <3>2. rows \subseteq 1..recall.required
      BY <1>2, <1>9, <3>1
    <3>3. LengthOf(rows) <= LengthOf(1..recall.required)
          /\ LengthOf(1..recall.required) \in Nat
      BY <1>2, <3>2, LengthsGrow
    <3> QED
      BY <1>5, <1>9, <1>13, <3>3
  <2> QED
    BY <1>8, <2>2, <2>3, <2>4, <2>5 DEF ContextSound
<1> QED
  BY <1>12, <1>13

\* The pack is delivered, or an empty one is already too large.
LEMMA FinishPackSound == ASSUME ContextSound, FinishPack PROVE ContextSound'
<1>1. /\ packing = "packing" /\ next > Items
      /\ UNCHANGED <<found, recall, next, selected, omitted>>
  BY DEF FinishPack
<1>2. /\ found \in Seq(LineSizes) /\ recall \in RecallRequest /\ next \in Nat \ {0}
      /\ Len(found) \in Nat /\ pack \in [text : Nat, count : Nat]
      /\ pack.text = TextOf(selected) /\ selected \subseteq 1..next - 1 /\ next <= Items + 1
  BY <1>1, SizesAreNumbers
  DEF ContextSound, ContextTypeOK, RequestFits, PackIsSelected
<1>3. /\ Counted(pack.text, pack.count) = LengthOf(selected)
      /\ Size(pack.text, LengthOf(selected)) = LengthOf(selected)
      /\ LengthOf(selected) \in Nat
  BY <1>1, <1>2, MoreIsCounted
<1>4. /\ pack' = [pack EXCEPT !.count = LengthOf(selected)]
      /\ packing' = IF LengthOf(selected) > recall.budget THEN "refused" ELSE "packed"
  BY <1>3 DEF FinishPack
<1>5. pack' \in [text : Nat, count : Nat] /\ pack'.text = pack.text
      /\ pack'.count = LengthOf(selected)
  BY <1>2, <1>3, <1>4
<1>6. /\ \A set : TextOf(set)' = TextOf(set) /\ LengthOf(set)' = LengthOf(set)
      /\ Items' = Items
  BY <1>1, LengthsStay DEF Items
<1>7. next = Items + 1
  BY <1>1, <1>2, ItemsAreFew
<1>8. recall.budget \in Nat /\ recall.required \in Nat /\ recall.required <= Items
  BY <1>1, <1>2, RequestParts, ItemsAreFew DEF ContextSound, RequestFits
<1>9. 1..recall.required \subseteq selected
  BY <1>1, <1>2, <1>7, <1>8, ItemsAreFew DEF ContextSound, StillFits
<1>10. ContextTypeOK'
  BY <1>1, <1>4, <1>5 DEF ContextSound, ContextTypeOK
<1>11. RequestFits' /\ PackIsSelected' /\ StillFits'
  BY <1>1, <1>2, <1>4, <1>5, <1>6
  DEF ContextSound, RequestFits, PackIsSelected, StillFits
<1>12. LengthOf(selected) > recall.budget => LengthOf(1..recall.required) > recall.budget
  <2> SUFFICES ASSUME LengthOf(selected) > recall.budget
               PROVE  LengthOf(1..recall.required) > recall.budget
    OBVIOUS
  <2>1. selected = {}
    BY <1>1, <1>3, <1>8 DEF ContextSound, StillFits
  <2>2. LengthOf(selected) <= LengthOf(1..recall.required)
        /\ LengthOf(1..recall.required) \in Nat
    BY <1>2, <2>1, LengthsGrow
  <2> QED
    BY <1>3, <1>8, <2>2
<1>13. Size(pack'.text, pack'.count) = pack'.count
  BY <1>3, <1>5
<1>14. EndsRight'
  BY <1>1, <1>3, <1>4, <1>5, <1>6, <1>7, <1>8, <1>9, <1>12, <1>13 DEF EndsRight, Size
<1> QED
  BY <1>10, <1>11, <1>14 DEF ContextSound

\* build_context, for any rows, sizes and budgets.
THEOREM PacksFit == ContextSpec => []PackFits
<1>1. ContextSound /\ [ContextNext]_contextVars => ContextSound'
  <2> SUFFICES ASSUME ContextSound, UNCHANGED contextVars PROVE ContextSound'
    BY FindRowsSound, ConsiderRowSound, FinishPackSound DEF ContextNext
  <2>1. UNCHANGED <<found, recall, next, pack, selected, omitted, packing>>
    BY DEF contextVars
  <2>2. /\ \A set : TextOf(set)' = TextOf(set) /\ LengthOf(set)' = LengthOf(set)
        /\ Items' = Items
    BY <2>1, LengthsStay DEF Items
  <2> QED
    BY <2>1, <2>2
    DEF ContextSound, ContextTypeOK, RequestFits, PackIsSelected, StillFits, EndsRight, Size
<1>2. ContextSound => PackFits
  <2> SUFFICES ASSUME ContextSound, packing = "packed"
               PROVE  /\ HookAccepts
                      /\ pack.count = LengthOf(selected)
                      /\ 1..recall.required \subseteq selected
                      /\ Truncated <=> selected # DOMAIN found
                      /\ selected = {} => (EmptyReason = "not_found" <=> found = <<>>)
    BY DEF PackFits, ContextSound, EndsRight
  <2>1. /\ found \in Seq(LineSizes) /\ recall \in RecallRequest /\ Len(found) \in Nat
        /\ selected \subseteq 1..Items /\ (omitted <=> selected # 1..Items)
    <3>1. /\ found \in Seq(LineSizes) /\ recall \in RecallRequest
          /\ next = Items + 1
      BY DEF ContextSound, ContextTypeOK, RequestFits, EndsRight
    <3>2. next - 1 = Items
      BY <3>1, ItemsAreFew
    <3> QED
      BY <3>1, <3>2, SizesAreNumbers DEF ContextSound, PackIsSelected
  <2>2. /\ Items \in Nat /\ Items <= Len(found) /\ Items <= recall.limit
        /\ Items = Len(found) \/ Items = recall.limit
    BY <2>1, ItemsAreFew
  <2>3. recall.limit \in Nat \ {0}
    BY <2>1, RequestParts
  <2>4. Cardinality(selected) <= recall.limit
    <3>1. 1 \in Int /\ Items \in Int
      BY <2>2
    <3>2. IsFiniteSet(1..Items) /\ Cardinality(1..Items) = IF 1 > Items THEN 0 ELSE Items - 1 + 1
      BY <3>1, FS_Interval
    <3>3. Cardinality(selected) <= Cardinality(1..Items) /\ IsFiniteSet(selected)
      BY <2>1, <3>2, FS_Subset
    <3>4. Cardinality(selected) \in Nat
      BY <3>3, FS_CardinalityType
    <3> QED
      BY <2>2, <2>3, <3>2, <3>3, <3>4
  <2>5. DOMAIN found = 1..Len(found) /\ (found = <<>> <=> Len(found) = 0)
    BY <2>1
  <2>6. Truncated <=> selected # DOMAIN found
    <3>1. CASE Items = Len(found)
      BY <2>1, <2>2, <2>3, <2>5, <3>1 DEF Truncated
    <3>2. CASE Items # Len(found)
      <4>1. Len(found) > recall.limit /\ Len(found) \notin selected
        BY <2>1, <2>2, <2>3, <3>2
      <4> QED
        BY <2>1, <2>3, <2>5, <4>1 DEF Truncated
    <3> QED
      BY <3>1, <3>2
  <2>7. EmptyReason = "not_found" <=> found = <<>>
    <3>1. Items > 0 <=> Len(found) # 0
      BY <2>1, <2>2, <2>3
    <3> QED
      BY <2>5, <3>1 DEF EmptyReason
  <2> QED
    BY <2>4, <2>6, <2>7 DEF ContextSound, EndsRight, HookAccepts
<1> QED
  BY <1>1, <1>2, ContextInitSound, PTL DEF ContextSpec

-------------------------------------------------------------------------------
(* Expansions: walks and their order *)

\* The triples of a relation, an entity and the one that it leads to.
Links == {link \in Relation \X Entity \X Entity : LeadsTo(link[1], link[2], link[3])}

\* Links stay in a scope, and a relation leads from an entity to one other at most.
AreLinks(T) ==
  /\ \A r \in Relation : \A e, f \in Entity : <<r, e, f>> \in T => ScopeOf[e] = ScopeOf[f]
  /\ \A r \in Relation : \A e, f, g \in Entity :
       <<r, e, f>> \in T /\ <<r, e, g>> \in T /\ f # e /\ g # e => f = g

\* The simple paths of k links from S, and those of up to h links.
PathsOf(T, S, k) ==
  {w \in [nodes : [1..k + 1 -> Entity], relations : [1..k -> Relation]] :
     /\ w.nodes[1] \in S
     /\ \A m, n \in 1..k + 1 : w.nodes[m] = w.nodes[n] => m = n
     /\ \A n \in 1..k : <<w.relations[n], w.nodes[n], w.nodes[n + 1]>> \in T}

PathsUpTo(T, S, h) == UNION {PathsOf(T, S, k) : k \in 1..h}

\* A path of k links without its last one.
Cut(w, k) ==
  [nodes |-> [n \in 1..k |-> w.nodes[n]], relations |-> [n \in 1..k - 1 |-> w.relations[n]]]

\* The paths of k links that go on from a walk of one less, and where walks end.
Onward(T, S, k, u) == {w \in PathsOf(T, S, k) : Cut(w, k) = u}

LastNodes(walks) == {Last(w.nodes) : w \in walks}

\* A path is a walk of so many relations.
LEMMA PathsAreWalks ==
  ASSUME NEW T, NEW S, NEW k \in Nat, NEW w \in PathsOf(T, S, k)
  PROVE  /\ w \in Walk /\ w = [nodes |-> w.nodes, relations |-> w.relations]
         /\ w.nodes \in [1..k + 1 -> Entity] /\ w.relations \in [1..k -> Relation]
         /\ w.nodes \in Seq(Entity) /\ Len(w.nodes) = k + 1 /\ DOMAIN w.nodes = 1..k + 1
         /\ w.relations \in Seq(Relation) /\ Len(w.relations) = k
         /\ DOMAIN w.relations = 1..k
<1>1. /\ w \in [nodes : [1..k + 1 -> Entity], relations : [1..k -> Relation]]
  BY DEF PathsOf
<1>2. w.nodes \in [1..k + 1 -> Entity] /\ w.relations \in [1..k -> Relation]
  BY <1>1
<1>3. k + 1 \in Nat
  OBVIOUS
<1>4. w.nodes \in Seq(Entity) /\ Len(w.nodes) = k + 1 /\ DOMAIN w.nodes = 1..k + 1
  BY <1>2, <1>3, FunctionsAreSequences
<1>5. w.relations \in Seq(Relation) /\ Len(w.relations) = k /\ DOMAIN w.relations = 1..k
  BY <1>2, FunctionsAreSequences
<1>6. w \in Walk /\ w = [nodes |-> w.nodes, relations |-> w.relations]
  BY <1>1, <1>4, <1>5 DEF Walk
<1> QED
  BY <1>2, <1>4, <1>5, <1>6

\* What Before says of paths.
LEMMA BeforeOfPaths ==
  ASSUME NEW T, NEW S, NEW j \in Nat, NEW k \in Nat,
         NEW v \in PathsOf(T, S, j), NEW w \in PathsOf(T, S, k)
  PROVE  Before(v, w) <=>
           \/ j < k
           \/ /\ j = k
              /\ \/ v.nodes[1] < w.nodes[1]
                 \/ /\ v.nodes[1] = w.nodes[1]
                    /\ \E n \in 1..k :
                         /\ v.relations[n] < w.relations[n]
                         /\ \A m \in 1..n - 1 : v.relations[m] = w.relations[m]
<1>1. Len(v.relations) = j /\ DOMAIN v.relations = 1..j
  BY PathsAreWalks
<1>2. Len(w.relations) = k
  BY PathsAreWalks
<1> QED
  BY <1>1, <1>2 DEF Before

\* Ids are numbers.
LEMMA PathsHaveNumbers ==
  ASSUME NEW T, NEW S, NEW k \in Nat, NEW w \in PathsOf(T, S, k)
  PROVE  w.nodes[1] \in Nat /\ \A n \in 1..k : w.relations[n] \in Nat
<1>1. w.nodes \in [1..k + 1 -> Entity] /\ w.relations \in [1..k -> Relation]
  BY PathsAreWalks
<1>2. 1 \in 1..k + 1
  OBVIOUS
<1> QED
  BY <1>1, <1>2, GraphAssumption

\* No two paths are before each other.
LEMMA BeforeIsAsymmetric ==
  ASSUME NEW T, NEW S, NEW j \in Nat, NEW k \in Nat,
         NEW v \in PathsOf(T, S, j), NEW w \in PathsOf(T, S, k), Before(v, w)
  PROVE  ~Before(w, v)
<1> SUFFICES ASSUME Before(w, v) PROVE FALSE
  OBVIOUS
<1>1. /\ v.nodes[1] \in Nat /\ w.nodes[1] \in Nat
      /\ \A n \in 1..j : v.relations[n] \in Nat
      /\ \A n \in 1..k : w.relations[n] \in Nat
  BY PathsHaveNumbers
<1>2. j = k /\ v.nodes[1] = w.nodes[1]
  BY <1>1, BeforeOfPaths
<1>3. PICK m \in 1..k : /\ v.relations[m] < w.relations[m]
                        /\ \A i \in 1..m - 1 : v.relations[i] = w.relations[i]
  BY <1>1, <1>2, BeforeOfPaths
<1>4. PICK n \in 1..k : /\ w.relations[n] < v.relations[n]
                        /\ \A i \in 1..n - 1 : w.relations[i] = v.relations[i]
  BY <1>1, <1>2, BeforeOfPaths
<1>5. v.relations[m] \in Nat /\ w.relations[m] \in Nat
      /\ v.relations[n] \in Nat /\ w.relations[n] \in Nat
  BY <1>1, <1>2
<1>6. m = n \/ m \in 1..n - 1 \/ n \in 1..m - 1
  OBVIOUS
<1> QED
  BY <1>3, <1>4, <1>5, <1>6

\* A path without its last link is a path.
LEMMA CutIsPath ==
  ASSUME NEW T, NEW S, NEW k \in Nat \ {0}, NEW w \in PathsOf(T, S, k)
  PROVE  /\ Cut(w, k) \in PathsOf(T, S, k - 1)
         /\ \A n \in 1..k : Cut(w, k).nodes[n] = w.nodes[n]
         /\ \A n \in 1..k - 1 : Cut(w, k).relations[n] = w.relations[n]
<1>1. w.nodes \in [1..k + 1 -> Entity] /\ w.relations \in [1..k -> Relation]
  BY PathsAreWalks
<1>2. /\ w.nodes[1] \in S
      /\ \A m, n \in 1..k + 1 : w.nodes[m] = w.nodes[n] => m = n
      /\ \A n \in 1..k : <<w.relations[n], w.nodes[n], w.nodes[n + 1]>> \in T
  BY DEF PathsOf
<1>3. /\ \A n \in 1..k : Cut(w, k).nodes[n] = w.nodes[n]
      /\ \A n \in 1..k - 1 : Cut(w, k).relations[n] = w.relations[n]
  BY DEF Cut
<1>4. (k - 1) + 1 = k /\ k - 1 \in Nat
  OBVIOUS
<1>5. Cut(w, k) \in [nodes : [1..(k - 1) + 1 -> Entity], relations : [1..k - 1 -> Relation]]
  <2>1. [n \in 1..k |-> w.nodes[n]] \in [1..k -> Entity]
    BY <1>1
  <2>2. [n \in 1..k - 1 |-> w.relations[n]] \in [1..k - 1 -> Relation]
    BY <1>1
  <2> QED
    BY <1>4, <2>1, <2>2 DEF Cut
<1>6. Cut(w, k).nodes[1] \in S
  BY <1>2, <1>3
<1>7. ASSUME NEW m \in 1..k, NEW n \in 1..k, Cut(w, k).nodes[m] = Cut(w, k).nodes[n]
      PROVE  m = n
  BY <1>2, <1>3, <1>7
<1>8. ASSUME NEW n \in 1..k - 1
      PROVE  <<Cut(w, k).relations[n], Cut(w, k).nodes[n], Cut(w, k).nodes[n + 1]>> \in T
  <2>1. n \in 1..k /\ n + 1 \in 1..k
    BY <1>4
  <2> QED
    BY <1>2, <1>3, <2>1
<1>9. \A m, n \in 1..(k - 1) + 1 : Cut(w, k).nodes[m] = Cut(w, k).nodes[n] => m = n
  BY <1>4, <1>7
<1> QED
  BY <1>3, <1>5, <1>6, <1>8, <1>9 DEF PathsOf

\* Functions that agree everywhere are one.
LEMMA SameFunction ==
  \A D, R : \A f, g \in [D -> R] : (\A x \in D : f[x] = g[x]) => f = g
  OBVIOUS

\* A path is known by where it starts and by its relations.
LEMMA PathsAreKnownByRelations ==
  ASSUME NEW T, AreLinks(T), NEW S, NEW k \in Nat,
         NEW v \in PathsOf(T, S, k), NEW w \in PathsOf(T, S, k),
         v.nodes[1] = w.nodes[1], \A n \in 1..k : v.relations[n] = w.relations[n]
  PROVE  v = w
<1>1. /\ v = [nodes |-> v.nodes, relations |-> v.relations]
      /\ v.nodes \in [1..k + 1 -> Entity] /\ v.relations \in [1..k -> Relation]
  BY PathsAreWalks
<1>2. /\ w = [nodes |-> w.nodes, relations |-> w.relations]
      /\ w.nodes \in [1..k + 1 -> Entity] /\ w.relations \in [1..k -> Relation]
  BY PathsAreWalks
<1>3. /\ \A m, n \in 1..k + 1 : v.nodes[m] = v.nodes[n] => m = n
      /\ \A m, n \in 1..k + 1 : w.nodes[m] = w.nodes[n] => m = n
      /\ \A n \in 1..k : <<v.relations[n], v.nodes[n], v.nodes[n + 1]>> \in T
      /\ \A n \in 1..k : <<w.relations[n], w.nodes[n], w.nodes[n + 1]>> \in T
  BY DEF PathsOf
<1> DEFINE Good == {n \in Nat : v.nodes[n + 1] = w.nodes[n + 1]}
<1>4. 0 \in Good
  OBVIOUS
<1>5. ASSUME NEW n \in 1..k, n - 1 \in Good PROVE n \in Good
  <2>1. n \in 1..k + 1 /\ n + 1 \in 1..k + 1 /\ n + 1 # n /\ (n - 1) + 1 = n
    OBVIOUS
  <2>2. v.nodes[n] = w.nodes[n] /\ v.relations[n] = w.relations[n]
    BY <1>5, <2>1
  <2>3. v.nodes[n + 1] # v.nodes[n] /\ w.nodes[n + 1] # w.nodes[n]
    BY <1>3, <2>1
  <2>4. /\ v.nodes[n] \in Entity /\ v.nodes[n + 1] \in Entity /\ w.nodes[n + 1] \in Entity
        /\ v.relations[n] \in Relation
    BY <1>1, <1>2, <2>1
  <2>5. /\ <<v.relations[n], v.nodes[n], v.nodes[n + 1]>> \in T
        /\ <<v.relations[n], v.nodes[n], w.nodes[n + 1]>> \in T
    BY <1>3, <2>2
  <2>6. v.nodes[n + 1] = w.nodes[n + 1]
    BY <2>2, <2>3, <2>4, <2>5 DEF AreLinks
  <2> QED
    BY <2>6
<1>6. ASSUME NEW m \in 1..k + 1 PROVE v.nodes[m] = w.nodes[m]
  <2>1. m - 1 \in Nat /\ m - 1 \in 0..k /\ (m - 1) + 1 = m
    OBVIOUS
  <2>2. \A n \in 1..m - 1 : n \in 1..k
    OBVIOUS
  <2>3. Good \in SUBSET Nat
    OBVIOUS
  <2>4. \A n \in 1..m - 1 : n - 1 \in Good => n \in Good
    BY <1>5, <2>2
  <2> HIDE DEF Good
  <2>5. m - 1 \in Good
    BY <1>4, <2>1, <2>3, <2>4, CountUp
  <2> QED
    BY <2>1, <2>5 DEF Good
<1>7. v.nodes = w.nodes
  <2>1. \A m \in 1..k + 1 : v.nodes[m] = w.nodes[m]
    BY <1>6
  <2>2. PICK f, g : f = v.nodes /\ g = w.nodes
    OBVIOUS
  <2>3. /\ f \in [1..k + 1 -> Entity] /\ g \in [1..k + 1 -> Entity]
        /\ \A m \in 1..k + 1 : f[m] = g[m]
    BY <1>1, <1>2, <2>1, <2>2
  <2>4. f = g
    BY <2>3, SameFunction
  <2> QED
    BY <2>2, <2>4
<1>8. v.relations = w.relations
  <2>2. PICK f, g : f = v.relations /\ g = w.relations
    OBVIOUS
  <2>3. /\ f \in [1..k -> Relation] /\ g \in [1..k -> Relation]
        /\ \A m \in 1..k : f[m] = g[m]
    BY <1>1, <1>2, <2>2
  <2>4. f = g
    BY <2>3, SameFunction
  <2> QED
    BY <2>2, <2>4
<1> QED
  BY <1>1, <1>2, <1>7, <1>8

\* Of two paths of one length the order is that of their cuts, unless these are one.
LEMMA CutsAreOrdered ==
  ASSUME NEW T, AreLinks(T), NEW S, NEW k \in Nat \ {0},
         NEW v \in PathsOf(T, S, k), NEW w \in PathsOf(T, S, k)
  PROVE  /\ Before(Cut(v, k), Cut(w, k)) => Before(v, w)
         /\ Before(v, w) => Cut(v, k) = Cut(w, k) \/ Before(Cut(v, k), Cut(w, k))
<1> DEFINE i == k - 1
           x == Cut(v, k)
           y == Cut(w, k)
<1>1. /\ i \in Nat /\ x \in PathsOf(T, S, i) /\ y \in PathsOf(T, S, i)
      /\ x.nodes[1] = v.nodes[1] /\ y.nodes[1] = w.nodes[1]
      /\ \A n \in 1..i : x.relations[n] = v.relations[n] /\ y.relations[n] = w.relations[n]
  BY CutIsPath
<1>2. \A n \in 1..k : n \in 1..i \/ n = k
  OBVIOUS
<1>3. \A n \in 1..i : n \in 1..k /\ \A m \in 1..n - 1 : m \in 1..i
  OBVIOUS
<1>4. \A m \in 1..k - 1 : m \in 1..i
  OBVIOUS
<1> HIDE DEF i, x, y
<1>5. Before(x, y) <=>
        \/ x.nodes[1] < y.nodes[1]
        \/ /\ x.nodes[1] = y.nodes[1]
           /\ \E n \in 1..i : /\ x.relations[n] < y.relations[n]
                              /\ \A m \in 1..n - 1 : x.relations[m] = y.relations[m]
  BY <1>1, BeforeOfPaths
<1>6. Before(v, w) <=>
        \/ v.nodes[1] < w.nodes[1]
        \/ /\ v.nodes[1] = w.nodes[1]
           /\ \E n \in 1..k : /\ v.relations[n] < w.relations[n]
                              /\ \A m \in 1..n - 1 : v.relations[m] = w.relations[m]
  BY BeforeOfPaths
<1>7. ASSUME Before(x, y) PROVE Before(v, w)
  BY <1>1, <1>3, <1>5, <1>6, <1>7
<1>8. ASSUME Before(v, w) PROVE x = y \/ Before(x, y)
  <2>1. CASE v.nodes[1] < w.nodes[1]
    BY <1>1, <1>5, <2>1
  <2>2. CASE ~(v.nodes[1] < w.nodes[1])
    <3>1. v.nodes[1] = w.nodes[1]
      BY <1>6, <1>8, <2>2
    <3>2. PICK n \in 1..k : /\ v.relations[n] < w.relations[n]
                            /\ \A m \in 1..n - 1 : v.relations[m] = w.relations[m]
      BY <1>6, <1>8, <2>2
    <3>3. CASE n \in 1..i
      BY <1>1, <1>3, <1>5, <3>1, <3>2, <3>3
    <3>4. CASE n = k
      <4>1. \A m \in 1..i : x.relations[m] = y.relations[m]
        BY <1>1, <3>2, <3>4 DEF i
      <4> QED
        BY <1>1, <3>1, <4>1, PathsAreKnownByRelations
    <3> QED
      BY <1>2, <3>3, <3>4
  <2> QED
    BY <2>1, <2>2
<1> QED
  BY <1>7, <1>8 DEF x, y

ByNumber(ids) == {pair \in ids \X ids : pair[1] < pair[2]}

\* Ids one by one.
LEMMA AscendingIds ==
  ASSUME NEW ids, IsFiniteSet(ids), \A i \in ids : i \in Nat
  PROVE  /\ Cardinality(ids) \in Nat
         /\ Ascending(ids) \in [1..Cardinality(ids) -> ids]
         /\ \A m, n \in 1..Cardinality(ids) : m < n => Ascending(ids)[m] < Ascending(ids)[n]
         /\ \A i \in ids : \E n \in 1..Cardinality(ids) : i = Ascending(ids)[n]
<1> DEFINE Rank(i) == Cardinality(Smaller(i, ids, ByNumber(ids)))
<1>1. IsFiniteSet(ids) /\ Cardinality(ids) \in Nat
  BY FS_CardinalityType
<1>2. \A i, j \in ids : <<i, j>> \in ByNumber(ids) <=> i < j
  BY DEF ByNumber
<1>3. StrictOrder(ids, ByNumber(ids))
  BY <1>2 DEF StrictOrder
<1>4. \A i \in ids : Smaller(i, ids, ByNumber(ids)) = {j \in ids : j < i}
  BY <1>2 DEF Smaller
<1>5. ASSUME NEW n \in 1..Cardinality(ids)
      PROVE  Ascending(ids)[n] \in ids /\ Rank(Ascending(ids)[n]) = n - 1
  <2>1. PICK i \in ids : Rank(i) = n - 1
    BY <1>1, <1>3, RanksAreTaken
  <2>2. Cardinality({j \in ids : j < i}) = n - 1
    BY <1>4, <2>1
  <2>3. Ascending(ids)[n] = CHOOSE c \in ids : Cardinality({j \in ids : j < c}) = n - 1
    BY DEF Ascending
  <2>4. /\ Ascending(ids)[n] \in ids
        /\ Cardinality({j \in ids : j < Ascending(ids)[n]}) = n - 1
    BY <2>2, <2>3
  <2> QED
    BY <1>4, <2>4
<1>6. Ascending(ids) \in [1..Cardinality(ids) -> ids]
  BY <1>5 DEF Ascending
<1>7. ASSUME NEW m \in 1..Cardinality(ids), NEW n \in 1..Cardinality(ids), m < n
      PROVE  Ascending(ids)[m] < Ascending(ids)[n]
  <2>0. PICK i, j : i = Ascending(ids)[m] /\ j = Ascending(ids)[n]
    OBVIOUS
  <2>1. i \in ids /\ j \in ids /\ Rank(i) = m - 1 /\ Rank(j) = n - 1
    BY <1>5, <2>0
  <2>2. i # j
    BY <1>1, <1>7, <2>1
  <2>3. CASE j < i
    <3>1. Rank(j) < Rank(i)
      BY <1>1, <1>2, <1>3, <2>1, <2>3, RanksGrow
    <3> QED
      BY <1>1, <1>7, <2>1, <3>1
  <2>4. i < j \/ j < i
    BY <2>1, <2>2
  <2> QED
    BY <2>0, <2>3, <2>4
<1>8. ASSUME NEW i \in ids PROVE \E n \in 1..Cardinality(ids) : i = Ascending(ids)[n]
  <2>1. Rank(i) \in 0..Cardinality(ids) - 1
    BY <1>1, <1>3, RanksGrow
  <2> DEFINE n == Rank(i) + 1
  <2>2. n \in 1..Cardinality(ids) /\ Rank(i) = n - 1
    BY <1>1, <2>1
  <2>3. Ascending(ids)[n] \in ids /\ Rank(Ascending(ids)[n]) = Rank(i)
    BY <1>5, <2>2
  <2>4. i = Ascending(ids)[n]
    BY <1>1, <1>3, <2>3, RanksAreTaken
  <2> QED
    BY <2>2, <2>4
<1> QED
  BY <1>1, <1>6, <1>7, <1>8

\* What is appended is last.
LEMMA Appended ==
  ASSUME NEW A, NEW s \in Seq(A), NEW a \in A
  PROVE  /\ Append(s, a) \in Seq(A) /\ Append(s, a) \in [1..Len(s) + 1 -> A]
         /\ \A n \in 1..Len(s) : Append(s, a)[n] = s[n]
         /\ Append(s, a)[Len(s) + 1] = a
<1>1. /\ Append(s, a) \in Seq(A) /\ Len(Append(s, a)) = Len(s) + 1
      /\ \A n \in 1..Len(s) : Append(s, a)[n] = s[n]
      /\ Append(s, a)[Len(s) + 1] = a
  OBVIOUS
<1>2. \A t \in Seq(A) : t \in [1..Len(t) -> A]
  OBVIOUS
<1> QED
  BY <1>1, <1>2

Longer(u, r, f) ==
  [nodes |-> Append(u.nodes, f), relations |-> Append(u.relations, r)]

\* A path that is lengthened by a link to an entity it did not visit is a path.
LEMMA LongerIsPath ==
  ASSUME NEW T, AreLinks(T), NEW S, NEW k \in Nat \ {0}, NEW u \in PathsOf(T, S, k - 1),
         NEW r \in Relation, NEW f \in Entity, <<r, u.nodes[k], f>> \in T,
         \A n \in 1..k : u.nodes[n] # f
  PROVE  /\ Longer(u, r, f) \in PathsOf(T, S, k)
         /\ Longer(u, r, f).relations[k] = r /\ Longer(u, r, f).nodes[k + 1] = f
         /\ Longer(u, r, f).nodes[1] = u.nodes[1]
         /\ \A n \in 1..k - 1 : Longer(u, r, f).relations[n] = u.relations[n]
         /\ \A n \in 1..k : Longer(u, r, f).nodes[n] = u.nodes[n]
         /\ Cut(Longer(u, r, f), k) = u
<1> DEFINE w == Longer(u, r, f)
<1>1. k - 1 \in Nat /\ (k - 1) + 1 = k
  OBVIOUS
<1>2. /\ u.nodes \in Seq(Entity) /\ Len(u.nodes) = k
      /\ u.relations \in Seq(Relation) /\ Len(u.relations) = k - 1
  BY <1>1, PathsAreWalks
<1>3. /\ u.nodes[1] \in S
      /\ \A m, n \in 1..k : u.nodes[m] = u.nodes[n] => m = n
      /\ \A n \in 1..k - 1 : <<u.relations[n], u.nodes[n], u.nodes[n + 1]>> \in T
  BY <1>1 DEF PathsOf
<1>4. w = [nodes |-> w.nodes, relations |-> w.relations]
      /\ w.nodes = Append(u.nodes, f) /\ w.relations = Append(u.relations, r)
  BY DEF Longer
<1> HIDE DEF w
<1>5. /\ w.nodes \in [1..k + 1 -> Entity] /\ w.nodes[k + 1] = f
      /\ \A n \in 1..k : w.nodes[n] = u.nodes[n]
  BY <1>2, <1>4, Appended
<1>6. /\ w.relations \in [1..k -> Relation] /\ w.relations[k] = r
      /\ \A n \in 1..k - 1 : w.relations[n] = u.relations[n]
  <2>1. /\ w.relations \in [1..(k - 1) + 1 -> Relation] /\ w.relations[(k - 1) + 1] = r
        /\ \A n \in 1..k - 1 : w.relations[n] = u.relations[n]
    BY <1>2, <1>4, Appended
  <2>2. 1..(k - 1) + 1 = 1..k
    BY <1>1
  <2>3. w.relations \in [1..k -> Relation]
    BY <2>1, <2>2
  <2>4. w.relations[k] = r
    BY <1>1, <2>1
  <2> QED
    BY <2>1, <2>3, <2>4
<1>7. w.nodes[1] \in S /\ w.nodes[1] = u.nodes[1]
  BY <1>3, <1>5
<1>8. ASSUME NEW m \in 1..k + 1, NEW n \in 1..k + 1, w.nodes[m] = w.nodes[n] PROVE m = n
  <2>1. (m \in 1..k \/ m = k + 1) /\ (n \in 1..k \/ n = k + 1)
    OBVIOUS
  <2> QED
    BY <1>3, <1>5, <1>8, <2>1
<1>9. ASSUME NEW n \in 1..k PROVE <<w.relations[n], w.nodes[n], w.nodes[n + 1]>> \in T
  <2>1. CASE n = k
    BY <1>5, <1>6, <2>1
  <2>2. CASE n # k
    <3>1. n \in 1..k - 1 /\ n + 1 \in 1..k
      BY <2>2
    <3> QED
      BY <1>3, <1>5, <1>6, <3>1
  <2> QED
    BY <2>1, <2>2
<1>10. w \in PathsOf(T, S, k)
  BY <1>4, <1>5, <1>6, <1>7, <1>8, <1>9 DEF PathsOf
<1>11. Cut(w, k) = u
  <2>1. /\ Cut(w, k) \in PathsOf(T, S, k - 1)
        /\ \A n \in 1..k : Cut(w, k).nodes[n] = w.nodes[n]
        /\ \A n \in 1..k - 1 : Cut(w, k).relations[n] = w.relations[n]
    BY <1>10, CutIsPath
  <2>2. Cut(w, k).nodes[1] = u.nodes[1]
    BY <1>7, <2>1
  <2>3. \A n \in 1..k - 1 : Cut(w, k).relations[n] = u.relations[n]
    BY <1>6, <2>1
  <2> QED
    BY <1>1, <2>1, <2>2, <2>3, PathsAreKnownByRelations
<1> QED
  BY <1>5, <1>6, <1>7, <1>10, <1>11 DEF w

\* Every path is its cut and a last link.
LEMMA PathIsLonger ==
  ASSUME NEW T, AreLinks(T), NEW S, NEW k \in Nat \ {0}, NEW w \in PathsOf(T, S, k)
  PROVE  /\ w.relations[k] \in Relation /\ w.nodes[k + 1] \in Entity
         /\ <<w.relations[k], Cut(w, k).nodes[k], w.nodes[k + 1]>> \in T
         /\ \A n \in 1..k : Cut(w, k).nodes[n] # w.nodes[k + 1]
         /\ w = Longer(Cut(w, k), w.relations[k], w.nodes[k + 1])
<1>0. PICK u : /\ u = Cut(w, k) /\ u \in PathsOf(T, S, k - 1)
               /\ \A n \in 1..k : u.nodes[n] = w.nodes[n]
               /\ \A n \in 1..k - 1 : u.relations[n] = w.relations[n]
  <2>1. /\ Cut(w, k) \in PathsOf(T, S, k - 1)
        /\ \A n \in 1..k : Cut(w, k).nodes[n] = w.nodes[n]
        /\ \A n \in 1..k - 1 : Cut(w, k).relations[n] = w.relations[n]
    BY CutIsPath
  <2> QED
    BY <2>1
<1>1. k \in 1..k /\ k + 1 \in 1..k + 1 /\ \A n \in 1..k : n \in 1..k + 1 /\ n # k + 1
  OBVIOUS
<1>2. w.nodes \in [1..k + 1 -> Entity] /\ w.relations \in [1..k -> Relation]
  BY PathsAreWalks
<1>3. /\ \A m, n \in 1..k + 1 : w.nodes[m] = w.nodes[n] => m = n
      /\ \A n \in 1..k : <<w.relations[n], w.nodes[n], w.nodes[n + 1]>> \in T
  BY DEF PathsOf
<1>4. PICK r, f : r = w.relations[k] /\ f = w.nodes[k + 1]
  OBVIOUS
<1>5. /\ r \in Relation /\ f \in Entity /\ <<r, u.nodes[k], f>> \in T
      /\ \A n \in 1..k : u.nodes[n] # f
  BY <1>0, <1>1, <1>2, <1>3, <1>4
<1>6. /\ Longer(u, r, f) \in PathsOf(T, S, k)
      /\ Longer(u, r, f).relations[k] = r
      /\ Longer(u, r, f).nodes[1] = u.nodes[1]
      /\ \A n \in 1..k - 1 : Longer(u, r, f).relations[n] = u.relations[n]
  BY <1>0, <1>5, LongerIsPath
<1>7. \A n \in 1..k : n \in 1..k - 1 \/ n = k
  OBVIOUS
<1>8. \A n \in 1..k : w.relations[n] = Longer(u, r, f).relations[n]
  BY <1>0, <1>4, <1>6, <1>7
<1>9. w.nodes[1] = Longer(u, r, f).nodes[1]
  BY <1>0, <1>6
<1>10. w = Longer(u, r, f)
  BY <1>6, <1>8, <1>9, PathsAreKnownByRelations
<1> QED
  BY <1>0, <1>4, <1>5, <1>10

Sorted(s) == \A m, n \in DOMAIN s : m < n => Before(s[m], s[n])

\* The links of a graph stay in a scope, and lead to one other entity at most.
LEMMA LinksOfGraph == ASSUME graph \in [Relation -> Edge] PROVE AreLinks(Links)
<1>1. \A r \in Relation : \A e, f \in Entity : <<r, e, f>> \in Links <=> LeadsTo(r, e, f)
  BY DEF Links
<1>2. ASSUME NEW r \in Relation, NEW e \in Entity, NEW f \in Entity, LeadsTo(r, e, f)
      PROVE  /\ ScopeOf[e] = ScopeOf[f]
             /\ \/ graph[r].source = e /\ graph[r].target = f
                \/ graph[r].source = f /\ graph[r].target = e
  <2>1. graph[r] \in Edge
    OBVIOUS
  <2>2. ScopeOf[graph[r].source] = ScopeOf[graph[r].target]
    BY <2>1 DEF Edge
  <2>3. \/ graph[r].source = e /\ graph[r].target = f
        \/ graph[r].source = f /\ graph[r].target = e
    BY <1>2 DEF LeadsTo
  <2> QED
    BY <2>2, <2>3
<1>3. \A r \in Relation : \A e, f \in Entity : <<r, e, f>> \in Links => ScopeOf[e] = ScopeOf[f]
  BY <1>1, <1>2
<1>4. ASSUME NEW r \in Relation, NEW e \in Entity, NEW f \in Entity, NEW g \in Entity,
             <<r, e, f>> \in Links, <<r, e, g>> \in Links, f # e, g # e
      PROVE  f = g
  <2>1. /\ \/ graph[r].source = e /\ graph[r].target = f
           \/ graph[r].source = f /\ graph[r].target = e
        /\ \/ graph[r].source = e /\ graph[r].target = g
           \/ graph[r].source = g /\ graph[r].target = e
    BY <1>1, <1>2, <1>4
  <2> QED
    BY <1>4, <2>1
<1> QED
  BY <1>3, <1>4 DEF AreLinks

\* One statement finds the paths that are one link longer, in order.
LEMMA ExtensionsArePaths ==
  ASSUME graph \in [Relation -> Edge], NEW S, NEW h \in Nat \ {0},
         NEW u \in PathsOf(Links, S, h - 1), ScopeOf[u.nodes[h]] \in granted
  PROVE  /\ Extensions(u) \in Seq(Walk) /\ Sorted(Extensions(u))
         /\ ToSet(Extensions(u)) = Onward(Links, S, h, u)
<1> DEFINE To(r)   == {f \in Visible(Entity) : LeadsTo(r, u.nodes[h], f) /\ ~Visited(f, u)}
           Next(r) == CHOOSE f \in To(r) : TRUE
           rows    == {r \in Relation : To(r) # {}}
           E       == Extensions(u)
           s       == Ascending(rows)
           N       == Cardinality(rows)
<1>1. h - 1 \in Nat /\ (h - 1) + 1 = h
  OBVIOUS
<1>2. /\ u.nodes \in Seq(Entity) /\ Len(u.nodes) = h /\ DOMAIN u.nodes = 1..h
      /\ u.nodes \in [1..h -> Entity]
  BY <1>1, PathsAreWalks
<1>3. AreLinks(Links)
  BY LinksOfGraph
<1>4. ASSUME NEW r \in Relation, NEW f
      PROVE  f \in To(r) <=> /\ f \in Entity /\ <<r, u.nodes[h], f>> \in Links
                             /\ \A n \in 1..h : u.nodes[n] # f
  <2>1. u.nodes[h] \in Entity
    BY <1>2
  <2>2. \A g \in Entity : <<r, u.nodes[h], g>> \in Links <=> LeadsTo(r, u.nodes[h], g)
    BY <2>1 DEF Links
  <2>3. ASSUME NEW g \in Entity, LeadsTo(r, u.nodes[h], g) PROVE ScopeOf[g] \in granted
    <3>1. PICK e \in Entity : e = u.nodes[h]
      BY <2>1
    <3>2. <<r, e, g>> \in Links /\ ScopeOf[e] \in granted
      BY <2>2, <2>3, <3>1
    <3>3. ScopeOf[e] = ScopeOf[g]
      BY <1>3, <3>2 DEF AreLinks
    <3> QED
      BY <3>2, <3>3
  <2>4. \A g : Visited(g, u) <=> \E n \in 1..h : u.nodes[n] = g
    BY <1>2 DEF Visited, ToSet
  <2> QED
    BY <2>2, <2>3, <2>4 DEF Visible
<1>5. ASSUME NEW r \in rows
      PROVE  /\ r \in Relation /\ Next(r) \in To(r)
             /\ \A f \in To(r) : f = Next(r)
  <2>1. r \in Relation /\ Next(r) \in To(r)
    OBVIOUS
  <2>2. u.nodes[h] \in Entity /\ h \in 1..h
    BY <1>2
  <2> HIDE DEF To, Next
  <2>3. ASSUME NEW f \in To(r) PROVE f = Next(r)
    <3>1. /\ f \in Entity /\ Next(r) \in Entity
          /\ <<r, u.nodes[h], f>> \in Links /\ <<r, u.nodes[h], Next(r)>> \in Links
          /\ f # u.nodes[h] /\ Next(r) # u.nodes[h]
      BY <1>4, <2>1, <2>2, <2>3
    <3> QED
      BY <1>3, <2>1, <2>2, <3>1 DEF AreLinks
  <2> QED
    BY <2>1, <2>3
<1>6. /\ N \in Nat /\ s \in [1..N -> rows]
      /\ \A m, n \in 1..N : m < n => s[m] < s[n]
      /\ \A r \in rows : \E n \in 1..N : r = s[n]
  <2>1. rows \in SUBSET Relation
    OBVIOUS
  <2> HIDE DEF rows
  <2>2. IsFiniteSet(rows) /\ \A r \in rows : r \in Nat
    BY <2>1, GraphAssumption, FS_Subset
  <2> QED
    BY <2>2, AscendingIds
<1>7. E = [n \in 1..N |-> Longer(u, s[n], Next(s[n]))]
  <2>1. Last(u.nodes) = u.nodes[h]
    BY <1>2 DEF Last
  <2>2. u.nodes[h] \in Visible({u.nodes[h]})
    BY DEF Visible
  <2>3. E = [n \in DOMAIN s |-> Longer(u, s[n], Next(s[n]))]
    BY <2>1, <2>2 DEF Extensions, Longer
  <2> HIDE DEF E, s, N, rows, Next
  <2> QED
    BY <1>6, <2>3
<1> HIDE DEF E, s, N, rows, Next, To
<1>8. ASSUME NEW n \in 1..N
      PROVE  /\ E[n] \in PathsOf(Links, S, h) /\ Cut(E[n], h) = u
             /\ E[n].relations[h] = s[n] /\ E[n].nodes[1] = u.nodes[1]
             /\ \A m \in 1..h - 1 : E[n].relations[m] = u.relations[m]
             /\ E[n] \in Walk
  <2>0. PICK r, f : r = s[n] /\ f = Next(s[n])
    OBVIOUS
  <2>1. r \in rows /\ E[n] = Longer(u, r, f)
    BY <1>6, <1>7, <2>0
  <2>2. r \in Relation /\ f \in To(r)
    BY <1>5, <2>0, <2>1
  <2>3. /\ f \in Entity /\ <<r, u.nodes[h], f>> \in Links
        /\ \A m \in 1..h : u.nodes[m] # f
    BY <1>4, <2>2
  <2>4. /\ Longer(u, r, f) \in PathsOf(Links, S, h)
        /\ Longer(u, r, f).relations[h] = r
        /\ Longer(u, r, f).nodes[1] = u.nodes[1]
        /\ \A m \in 1..h - 1 : Longer(u, r, f).relations[m] = u.relations[m]
        /\ Cut(Longer(u, r, f), h) = u
    BY <1>3, <2>2, <2>3, LongerIsPath
  <2>5. Longer(u, r, f) \in Walk
    BY <2>4, PathsAreWalks
  <2>6. /\ E[n] \in PathsOf(Links, S, h) /\ Cut(E[n], h) = u
        /\ E[n].relations[h] = s[n] /\ E[n].nodes[1] = u.nodes[1] /\ E[n] \in Walk
    BY ONLY <2>0, <2>1, <2>4, <2>5
  <2>7. \A m \in 1..h - 1 : E[n].relations[m] = u.relations[m]
    BY ONLY <2>1, <2>4
  <2> QED
    BY ONLY <2>6, <2>7
<1>9. E \in Seq(Walk) /\ DOMAIN E = 1..N
  <2>1. E \in [1..N -> Walk]
    BY <1>7, <1>8
  <2> QED
    BY <1>6, <2>1, FunctionsAreSequences
<1>10. ASSUME NEW m \in 1..N, NEW n \in 1..N, m < n PROVE Before(E[m], E[n])
  <2>1. E[m] \in PathsOf(Links, S, h) /\ E[n] \in PathsOf(Links, S, h)
    BY <1>8
  <2>2. E[m].nodes[1] = E[n].nodes[1] /\ E[m].relations[h] < E[n].relations[h]
    BY <1>6, <1>8, <1>10
  <2>3. \A i \in 1..h - 1 : E[m].relations[i] = E[n].relations[i]
    BY <1>8
  <2>4. h \in 1..h /\ h \in Nat
    OBVIOUS
  <2> PICK v, w : v = E[m] /\ w = E[n]
    OBVIOUS
  <2>5. \E i \in 1..h : /\ v.relations[i] < w.relations[i]
                       /\ \A j \in 1..i - 1 : v.relations[j] = w.relations[j]
    BY <2>2, <2>3, <2>4
  <2>6. v \in PathsOf(Links, S, h) /\ w \in PathsOf(Links, S, h) /\ v.nodes[1] = w.nodes[1]
    BY <2>1, <2>2
  <2>7. Before(v, w)
    BY ONLY <2>4, <2>5, <2>6, BeforeOfPaths
  <2> QED
    BY <2>7
<1>11. ASSUME NEW w \in PathsOf(Links, S, h), Cut(w, h) = u
       PROVE  \E n \in 1..N : E[n] = w
  <2>1. PICK r, f : r = w.relations[h] /\ f = w.nodes[h + 1]
    OBVIOUS
  <2>2. /\ r \in Relation /\ f \in Entity
        /\ <<r, u.nodes[h], f>> \in Links
        /\ \A n \in 1..h : u.nodes[n] # f
        /\ w = Longer(u, r, f)
    BY <1>3, <1>11, <2>1, PathIsLonger
  <2>3. f \in To(r)
    BY <1>4, <2>2
  <2>4. r \in rows
    BY <2>2, <2>3 DEF rows
  <2>5. f = Next(r)
    BY <1>5, <2>3, <2>4
  <2>6. PICK n \in 1..N : r = s[n]
    BY <1>6, <2>4
  <2> QED
    BY <1>7, <2>2, <2>5, <2>6
<1>12. Sorted(E)
  BY <1>9, <1>10 DEF Sorted
<1>13. ToSet(E) = Onward(Links, S, h, u)
  BY <1>8, <1>9, <1>11 DEF ToSet, Onward
<1> QED
  BY <1>9, <1>12, <1>13 DEF E

-------------------------------------------------------------------------------
(* Expansions: how far one is *)

\* The walks of the hop whose neighbours are yet to be read are the last of it.
FrontierIsLast(T, S, h, rest) ==
  /\ ToSet(rest) \subseteq PathsOf(T, S, h - 1) /\ Sorted(rest)
  /\ \A v \in PathsOf(T, S, h - 1) \ ToSet(rest), u \in ToSet(rest) : Before(v, u)

\* What was found are the first of all paths,
FoundAreFirst(T, S, maxHops, done) ==
  /\ Sorted(done) /\ ToSet(done) \subseteq PathsUpTo(T, S, maxHops)
  /\ \A x \in ToSet(done), w \in PathsUpTo(T, S, maxHops) : Before(w, x) => w \in ToSet(done)

\* and unless the answer was cut they are those that do not go on from the frontier.
FoundIsAll(T, S, h, rest, new, done) ==
  LET now == {w \in PathsOf(T, S, h) : Cut(w, h) \notin ToSet(rest)} IN
  /\ ToSet(new) = now /\ Sorted(new)
  /\ ToSet(done) = PathsUpTo(T, S, h - 1) \cup now

\* The first element and the others.
LEMMA HeadAndTail ==
  ASSUME NEW A, NEW s \in Seq(A), s # <<>>
  PROVE  /\ Tail(s) \in Seq(A) /\ Len(s) \in Nat \ {0} /\ Len(Tail(s)) = Len(s) - 1
         /\ Head(s) = s[1] /\ Head(s) \in A
         /\ \A n \in 1..Len(s) - 1 : Tail(s)[n] = s[n + 1]
         /\ ToSet(s) = {Head(s)} \cup ToSet(Tail(s))
<1>1. /\ Tail(s) \in Seq(A) /\ Len(s) \in Nat \ {0} /\ Len(Tail(s)) = Len(s) - 1
      /\ Head(s) = s[1] /\ Head(s) \in A
      /\ \A n \in 1..Len(s) - 1 : Tail(s)[n] = s[n + 1]
      /\ DOMAIN s = 1..Len(s) /\ DOMAIN Tail(s) = 1..Len(s) - 1
  OBVIOUS
<1>2. \A n \in 1..Len(s) : n = 1 \/ (n - 1 \in 1..Len(s) - 1 /\ (n - 1) + 1 = n)
  BY <1>1
<1>3. \A n \in 1..Len(s) - 1 : n + 1 \in 1..Len(s)
  BY <1>1
<1>4. 1 \in 1..Len(s)
  BY <1>1
<1>5. ASSUME NEW x \in ToSet(s) PROVE x = Head(s) \/ x \in ToSet(Tail(s))
  <2>1. PICK n \in 1..Len(s) : x = s[n]
    BY <1>1 DEF ToSet
  <2>2. CASE n = 1
    BY <1>1, <2>1, <2>2
  <2>3. CASE n # 1
    <3>1. PICK m : m \in 1..Len(s) - 1 /\ m + 1 = n
      BY <1>2, <2>3
    <3>2. x = Tail(s)[m]
      BY <1>1, <2>1, <3>1
    <3> QED
      BY <1>1, <3>1, <3>2 DEF ToSet
  <2> QED
    BY <2>2, <2>3
<1>6. ASSUME NEW x \in ToSet(Tail(s)) PROVE x \in ToSet(s)
  <2>1. PICK n \in 1..Len(s) - 1 : x = Tail(s)[n]
    BY <1>1 DEF ToSet
  <2>2. PICK m : m \in 1..Len(s) /\ m = n + 1
    BY <1>3
  <2>3. x = s[m]
    BY <1>1, <2>1, <2>2
  <2> QED
    BY <1>1, <2>2, <2>3 DEF ToSet
<1>7. Head(s) \in ToSet(s)
  BY <1>1, <1>4 DEF ToSet
<1> QED
  BY <1>1, <1>5, <1>6, <1>7

\* When the first walk of a frontier is done, the others are the last of the hop.
LEMMA FrontierGoesOn ==
  ASSUME NEW T, NEW S, NEW h \in Nat \ {0}, NEW rest \in Seq(Walk), rest # <<>>,
         FrontierIsLast(T, S, h, rest)
  PROVE  /\ FrontierIsLast(T, S, h, Tail(rest))
         /\ Head(rest) \in PathsOf(T, S, h - 1) /\ Head(rest) \in ToSet(rest)
         /\ ToSet(rest) = {Head(rest)} \cup ToSet(Tail(rest))
         /\ Head(rest) \notin ToSet(Tail(rest))
         /\ \A v \in ToSet(rest) : v = Head(rest) \/ Before(Head(rest), v)
<1>1. PICK u, t, l :
        /\ u = Head(rest) /\ t = Tail(rest) /\ l = Len(rest)
        /\ t \in Seq(Walk) /\ l \in Nat \ {0} /\ Len(t) = l - 1 /\ u = rest[1]
        /\ \A n \in 1..l - 1 : t[n] = rest[n + 1]
        /\ ToSet(rest) = {u} \cup ToSet(t)
  <2>1. /\ Tail(rest) \in Seq(Walk) /\ Len(rest) \in Nat \ {0}
        /\ Len(Tail(rest)) = Len(rest) - 1 /\ Head(rest) = rest[1]
        /\ \A n \in 1..Len(rest) - 1 : Tail(rest)[n] = rest[n + 1]
        /\ ToSet(rest) = {Head(rest)} \cup ToSet(Tail(rest))
    BY HeadAndTail
  <2> QED
    BY <2>1
<1>2. DOMAIN rest = 1..l /\ DOMAIN t = 1..l - 1
  BY <1>1
<1>3. \A m, n \in 1..l : m < n => Before(rest[m], rest[n])
  BY <1>2 DEF FrontierIsLast, Sorted
<1>4. h - 1 \in Nat /\ u \in PathsOf(T, S, h - 1)
  BY <1>1 DEF FrontierIsLast
<1>5. ASSUME NEW v \in ToSet(t) PROVE Before(u, v) /\ v \in PathsOf(T, S, h - 1)
  <2>1. PICK n \in 1..l - 1 : v = t[n]
    BY <1>2 DEF ToSet
  <2>2. v = rest[n + 1] /\ n + 1 \in 1..l /\ 1 \in 1..l /\ 1 < n + 1
    BY <1>1, <2>1
  <2>3. v \in PathsOf(T, S, h - 1)
    BY <1>1 DEF FrontierIsLast
  <2> QED
    BY <1>1, <1>3, <2>2, <2>3
<1>6. u \notin ToSet(t)
  BY <1>4, <1>5, BeforeIsAsymmetric
<1>7. Sorted(t)
  <2>1. ASSUME NEW m \in 1..l - 1, NEW n \in 1..l - 1, m < n PROVE Before(t[m], t[n])
    <3>1. m + 1 \in 1..l /\ n + 1 \in 1..l /\ m + 1 < n + 1
      BY <1>1, <2>1
    <3> QED
      BY <1>1, <1>3, <3>1
  <2> QED
    BY <1>2, <2>1 DEF Sorted
<1>8. ASSUME NEW v \in PathsOf(T, S, h - 1) \ ToSet(t), NEW w \in ToSet(t)
      PROVE  Before(v, w)
  <2>1. CASE v = u
    BY <1>5, <2>1
  <2>2. CASE v # u
    BY <1>1, <2>2 DEF FrontierIsLast
  <2> QED
    BY <2>1, <2>2
<1>9. FrontierIsLast(T, S, h, t)
  BY <1>1, <1>5, <1>7, <1>8 DEF FrontierIsLast
<1>10. u \in ToSet(rest) /\ \A v \in ToSet(rest) : v = u \/ Before(u, v)
  BY <1>1, <1>5
<1> QED
  BY <1>1, <1>4, <1>6, <1>9, <1>10

\* The elements of a concatenation.
LEMMA SetOfBoth ==
  ASSUME NEW A, NEW s \in Seq(A), NEW t \in Seq(A)
  PROVE  ToSet(s \o t) = ToSet(s) \cup ToSet(t)
<1> PICK k \in Nat : k = Len(s)
  OBVIOUS
<1> PICK l \in Nat : l = Len(t)
  OBVIOUS
<1> PICK st : st = s \o t
  OBVIOUS
<1>1. /\ st \in Seq(A) /\ Len(st) = k + l /\ DOMAIN st = 1..k + l
      /\ \A n \in 1..k : st[n] = s[n]
      /\ \A n \in 1..l : st[k + n] = t[n]
  BY Concatenated
<1>2. DOMAIN s = 1..k /\ DOMAIN t = 1..l
  BY <1>1
<1>3. \A n \in 1..k + l : n \in 1..k \/ (n - k \in 1..l /\ k + (n - k) = n)
  BY <1>1
<1>4. /\ \A n \in 1..k : n \in 1..k + l
      /\ \A n \in 1..l : k + n \in 1..k + l
  BY <1>1
<1>5. ASSUME NEW n \in 1..k + l, n \notin 1..k
      PROVE  n - k \in 1..l /\ st[n] = t[n - k] /\ st[n] \in ToSet(t)
  <2>1. n - k \in 1..l /\ k + (n - k) = n
    BY <1>3, <1>5
  <2>2. st[n] = t[n - k]
    BY <1>1, <2>1
  <2> QED
    BY <1>2, <2>1, <2>2 DEF ToSet
<1>6. \A n \in 1..k : st[n] \in ToSet(s)
  BY <1>1, <1>2 DEF ToSet
<1>7. ToSet(st) = ToSet(s) \cup ToSet(t)
  <2>1. \A n \in 1..k + l : st[n] \in ToSet(s) \cup ToSet(t)
    BY <1>5, <1>6
  <2>2. \A n \in 1..k : st[n] = s[n] /\ n \in 1..k + l
    BY <1>1, <1>4
  <2>3. \A n \in 1..l : st[k + n] = t[n] /\ k + n \in 1..k + l
    BY <1>1, <1>4
  <2>4. \A x \in ToSet(s) : x \in ToSet(st)
    BY <1>1, <1>2, <2>2 DEF ToSet
  <2>5. ASSUME NEW x \in ToSet(t) PROVE x \in ToSet(st)
    <3>1. PICK n \in 1..l : x = t[n]
      BY <1>2 DEF ToSet
    <3>2. PICK m : m = k + n /\ m \in 1..k + l /\ st[m] = x
      BY <2>3, <3>1
    <3> QED
      BY <1>1, <3>2 DEF ToSet
  <2>6. \A x \in ToSet(st) : x \in ToSet(s) \cup ToSet(t)
    BY <1>1, <2>1 DEF ToSet
  <2> QED
    BY <2>4, <2>5, <2>6
<1> QED
  BY <1>7

\* One sorted sequence after another is sorted.
LEMMA SortedTogether ==
  ASSUME NEW s \in Seq(Walk), NEW t \in Seq(Walk), Sorted(s), Sorted(t),
         \A x \in ToSet(s), y \in ToSet(t) : Before(x, y)
  PROVE  Sorted(s \o t)
<1> PICK k \in Nat : k = Len(s)
  OBVIOUS
<1> PICK l \in Nat : l = Len(t)
  OBVIOUS
<1> PICK st : st = s \o t
  OBVIOUS
<1>1. /\ st \in Seq(Walk) /\ Len(st) = k + l /\ DOMAIN st = 1..k + l
      /\ \A n \in 1..k : st[n] = s[n]
      /\ \A n \in 1..l : st[k + n] = t[n]
  BY Concatenated
<1>2. DOMAIN s = 1..k /\ DOMAIN t = 1..l
  BY <1>1
<1>3. \A n \in 1..k + l : n \in 1..k \/ (n - k \in 1..l /\ k + (n - k) = n)
  BY <1>1
<1>5. ASSUME NEW n \in 1..k + l, n \notin 1..k
      PROVE  n - k \in 1..l /\ st[n] = t[n - k] /\ st[n] \in ToSet(t)
  <2>1. n - k \in 1..l /\ k + (n - k) = n
    BY <1>3, <1>5
  <2>2. st[n] = t[n - k]
    BY <1>1, <2>1
  <2> QED
    BY <1>2, <2>1, <2>2 DEF ToSet
<1>6. \A n \in 1..k : st[n] \in ToSet(s)
  BY <1>1, <1>2 DEF ToSet
<1>8. ASSUME NEW m \in 1..k + l, NEW n \in 1..k + l, m < n PROVE Before(st[m], st[n])
  <2>1. CASE n \in 1..k
    <3>1. m \in 1..k
      BY <1>1, <1>8, <2>1
    <3> QED
      BY <1>1, <1>2, <1>8, <2>1, <3>1 DEF Sorted
  <2>2. CASE m \in 1..k /\ n \notin 1..k
    BY <1>5, <1>6, <2>2
  <2>3. CASE m \notin 1..k /\ n \notin 1..k
    <3>1. /\ m - k \in 1..l /\ n - k \in 1..l /\ st[m] = t[m - k] /\ st[n] = t[n - k]
      BY <1>5, <2>3
    <3>2. m - k < n - k
      BY <1>1, <1>8
    <3> QED
      BY <1>2, <3>1, <3>2 DEF Sorted
  <2>4. n \notin 1..k \/ m \in 1..k
    BY <1>1, <1>8
  <2> QED
    BY <2>1, <2>2, <2>3
<1>9. Sorted(st)
  BY <1>1, <1>8 DEF Sorted
<1> QED
  BY <1>9

\* The first m elements.
LEMMA FirstOnes ==
  ASSUME NEW A, NEW s \in Seq(A), NEW m \in 0..Len(s)
  PROVE  /\ SubSeq(s, 1, m) \in Seq(A) /\ Len(SubSeq(s, 1, m)) = m
         /\ DOMAIN SubSeq(s, 1, m) = 1..m
         /\ \A n \in 1..m : SubSeq(s, 1, m)[n] = s[n]
         /\ ToSet(SubSeq(s, 1, m)) = {s[n] : n \in 1..m}
<1>1. /\ SubSeq(s, 1, m) \in Seq(A) /\ Len(SubSeq(s, 1, m)) = m
      /\ \A n \in 1..m : SubSeq(s, 1, m)[n] = s[n]
  OBVIOUS
<1>2. DOMAIN SubSeq(s, 1, m) = 1..m
  BY <1>1
<1> QED
  BY <1>1, <1>2 DEF ToSet

\* Paths by their length.
LEMMA PathsByLength ==
  ASSUME NEW T, NEW S, NEW h \in Nat
  PROVE  /\ \A w : w \in PathsUpTo(T, S, h) <=> \E k \in 1..h : w \in PathsOf(T, S, k)
         /\ PathsUpTo(T, S, h) \subseteq Walk
<1>1. \A w : w \in PathsUpTo(T, S, h) <=> \E k \in 1..h : w \in PathsOf(T, S, k)
  BY DEF PathsUpTo
<1>2. \A k \in 1..h : \A w \in PathsOf(T, S, k) : w \in Walk
  BY PathsAreWalks
<1> QED
  BY <1>1, <1>2

\* What goes on from the first walk of the frontier comes after all that was found, and
\* only what was found and what goes on from that walk is before it.
LEMMA NextAreFirst ==
  ASSUME NEW T, AreLinks(T), NEW S, NEW maxHops \in Nat, NEW h \in 1..maxHops,
         NEW rest \in Seq(Walk), rest # <<>>, FrontierIsLast(T, S, h, rest),
         NEW y \in PathsOf(T, S, h), Cut(y, h) = Head(rest)
  PROVE  /\ \A w \in PathsOf(T, S, h) : Cut(w, h) \notin ToSet(rest) => Before(w, y)
         /\ \A w \in PathsUpTo(T, S, h - 1) : Before(w, y)
         /\ \A w \in PathsUpTo(T, S, maxHops) : Before(w, y) =>
              \/ w \in PathsUpTo(T, S, h - 1)
              \/ /\ w \in PathsOf(T, S, h)
                 /\ Cut(w, h) = Head(rest) \/ Cut(w, h) \notin ToSet(rest)
<1>1. h \in Nat \ {0} /\ h - 1 \in Nat
  OBVIOUS
<1>2. PICK u : /\ u = Head(rest) /\ u \in PathsOf(T, S, h - 1) /\ u \in ToSet(rest)
               /\ \A v \in ToSet(rest) : v = u \/ Before(u, v)
  <2>1. /\ Head(rest) \in PathsOf(T, S, h - 1) /\ Head(rest) \in ToSet(rest)
        /\ \A v \in ToSet(rest) : v = Head(rest) \/ Before(Head(rest), v)
    BY <1>1, FrontierGoesOn
  <2> QED
    BY <2>1
<1>3. ASSUME NEW w \in PathsOf(T, S, h), Cut(w, h) \notin ToSet(rest) PROVE Before(w, y)
  <2>1. Cut(w, h) \in PathsOf(T, S, h - 1)
    BY <1>1, CutIsPath
  <2>2. Before(Cut(w, h), Cut(y, h))
    BY <1>2, <1>3, <2>1 DEF FrontierIsLast
  <2> QED
    BY <1>1, <2>2, CutsAreOrdered
<1>4. ASSUME NEW w \in PathsUpTo(T, S, h - 1) PROVE Before(w, y)
  <2>1. PICK k \in 1..h - 1 : w \in PathsOf(T, S, k)
    BY <1>1, PathsByLength
  <2>2. k \in Nat /\ k < h
    BY <1>1
  <2> QED
    BY <1>1, <2>1, <2>2, BeforeOfPaths
<1>5. ASSUME NEW w \in PathsUpTo(T, S, maxHops), Before(w, y), w \notin PathsUpTo(T, S, h - 1)
      PROVE  /\ w \in PathsOf(T, S, h)
             /\ Cut(w, h) = Head(rest) \/ Cut(w, h) \notin ToSet(rest)
  <2>1. PICK k \in 1..maxHops : w \in PathsOf(T, S, k)
    BY PathsByLength
  <2>2. k \notin 1..h - 1
    BY <1>1, <1>5, <2>1, PathsByLength
  <2>3. k < h \/ k = h
    BY <1>1, <1>5, <2>1, BeforeOfPaths
  <2>4. k = h
    BY <1>1, <2>2, <2>3
  <2>5. Cut(w, h) = Cut(y, h) \/ Before(Cut(w, h), Cut(y, h))
    BY <1>1, <1>5, <2>1, <2>4, CutsAreOrdered
  <2>6. Cut(w, h) \in PathsOf(T, S, h - 1)
    BY <1>1, <2>1, <2>4, CutIsPath
  <2>7. ASSUME Before(Cut(w, h), u), Cut(w, h) # u PROVE Cut(w, h) \notin ToSet(rest)
    <3>1. ~Before(u, Cut(w, h))
      BY <1>1, <1>2, <2>6, <2>7, BeforeIsAsymmetric
    <3> QED
      BY <1>2, <2>7, <3>1
  <2> QED
    BY <1>2, <2>1, <2>4, <2>5, <2>7
<1> QED
  BY <1>3, <1>4, <1>5

\* The paths that one statement finds, or the first of them, are the next of all paths.
LEMMA StatementGoesOn ==
  ASSUME NEW T, AreLinks(T), NEW S, NEW maxHops \in Nat, NEW h \in 1..maxHops,
         NEW rest \in Seq(Walk), rest # <<>>, FrontierIsLast(T, S, h, rest),
         NEW new \in Seq(Walk), NEW done \in Seq(Walk),
         FoundAreFirst(T, S, maxHops, done), FoundIsAll(T, S, h, rest, new, done),
         NEW more \in Seq(Walk), Sorted(more),
         ToSet(more) = Onward(T, S, h, Head(rest)),
         NEW m \in 0..Len(more), NEW part \in Seq(Walk), Len(part) = m,
         \A n \in 1..m : part[n] = more[n]
  PROVE  /\ FoundAreFirst(T, S, maxHops, done \o part)
         /\ m = Len(more) => FoundIsAll(T, S, h, Tail(rest), new \o part, done \o part)
         /\ m < Len(more) => ToSet(done \o part) # PathsUpTo(T, S, maxHops)
<1>1. h \in Nat \ {0} /\ h - 1 \in Nat /\ \A k \in 1..h : k \in 1..maxHops
  OBVIOUS
<1> PICK l \in Nat : l = Len(more)
  OBVIOUS
<1>2. /\ DOMAIN more = 1..l /\ DOMAIN part = 1..m /\ m \in 0..l
      /\ \A n \in 1..m : n \in 1..l
  OBVIOUS
<1>3. PICK onward : onward = {w \in PathsOf(T, S, h) : Cut(w, h) = Head(rest)}
  OBVIOUS
<1>4. PICK now : now = {w \in PathsOf(T, S, h) : Cut(w, h) \notin ToSet(rest)}
  OBVIOUS
<1>5. /\ ToSet(new) = now /\ Sorted(new) /\ ToSet(done) = PathsUpTo(T, S, h - 1) \cup now
      /\ ToSet(more) = onward
  BY <1>3, <1>4 DEF FoundIsAll, Onward
<1>6. /\ \A w \in now, y \in onward : Before(w, y)
      /\ \A w \in PathsUpTo(T, S, h - 1), y \in onward : Before(w, y)
      /\ \A w \in PathsUpTo(T, S, maxHops), y \in onward : Before(w, y) =>
           w \in PathsUpTo(T, S, h - 1) \/ w \in now \/ w \in onward
  BY <1>3, <1>4, NextAreFirst
<1>7. /\ Head(rest) \in ToSet(rest) /\ ToSet(rest) = {Head(rest)} \cup ToSet(Tail(rest))
      /\ Head(rest) \notin ToSet(Tail(rest))
  BY <1>1, FrontierGoesOn
<1>8. \A y \in onward : y \notin now /\ y \notin PathsUpTo(T, S, h - 1)
  <2>1. ASSUME NEW y \in onward, y \in PathsUpTo(T, S, h - 1) PROVE FALSE
    <3>1. Before(y, y) /\ y \in PathsOf(T, S, h)
      BY <1>3, <1>6, <2>1
    <3> QED
      BY <1>1, <3>1, BeforeIsAsymmetric
  <2> QED
    BY <1>3, <1>4, <1>7, <2>1
<1>9. \A n \in 1..m : part[n] = more[n] /\ part[n] \in onward
  BY <1>2, <1>5 DEF ToSet
<1>10. ToSet(part) \subseteq onward
  BY <1>2, <1>9 DEF ToSet
<1>11. Sorted(part)
  BY <1>2 DEF Sorted
<1>12. /\ Sorted(done \o part) /\ ToSet(done \o part) = ToSet(done) \cup ToSet(part)
  <2>1. \A x \in ToSet(done), y \in ToSet(part) : Before(x, y)
    BY <1>5, <1>6, <1>10
  <2>2. Sorted(done)
    BY DEF FoundAreFirst
  <2> QED
    BY <1>11, <2>1, <2>2, SortedTogether, SetOfBoth
<1>13. /\ Sorted(new \o part) /\ ToSet(new \o part) = ToSet(new) \cup ToSet(part)
  <2>1. \A x \in ToSet(new), y \in ToSet(part) : Before(x, y)
    BY <1>5, <1>6, <1>10
  <2> QED
    BY <1>5, <1>11, <2>1, SortedTogether, SetOfBoth
<1>14. onward \subseteq PathsUpTo(T, S, maxHops)
  <2>1. h \in 1..maxHops
    OBVIOUS
  <2> QED
    BY <1>3, <2>1, PathsByLength
<1>15. ASSUME NEW y \in ToSet(part), NEW w \in PathsUpTo(T, S, maxHops), Before(w, y)
       PROVE  w \in ToSet(done) \cup ToSet(part)
  <2>1. CASE w \notin onward
    BY <1>5, <1>6, <1>10, <1>15, <2>1
  <2>2. CASE w \in onward
    <3>1. PICK i \in 1..l : w = more[i]
      BY <1>2, <1>5, <2>2 DEF ToSet
    <3>2. PICK n \in 1..m : y = part[n]
      BY <1>2 DEF ToSet
    <3>3. y = more[n] /\ n \in 1..l
      BY <1>2, <1>9, <3>2
    <3>4. w \in PathsOf(T, S, h) /\ y \in PathsOf(T, S, h)
      BY <1>3, <1>10, <2>2
    <3>5. w # y /\ ~Before(y, w)
      BY <1>1, <1>15, <3>4, BeforeIsAsymmetric
    <3>6. i # n /\ ~(n < i)
      BY <1>2, <3>1, <3>3, <3>5 DEF Sorted
    <3>7. i \in 1..m
      BY <1>2, <3>6
    <3>8. w = part[i]
      BY <1>9, <3>1, <3>7
    <3> QED
      BY <1>2, <3>7, <3>8 DEF ToSet
  <2> QED
    BY <2>1, <2>2
<1>16. FoundAreFirst(T, S, maxHops, done \o part)
  <2>1. \A x \in ToSet(done), w \in PathsUpTo(T, S, maxHops) :
          Before(w, x) => w \in ToSet(done)
    BY DEF FoundAreFirst
  <2>2. ToSet(done) \subseteq PathsUpTo(T, S, maxHops)
    BY DEF FoundAreFirst
  <2>3. PICK both : both = done \o part
    OBVIOUS
  <2>4. /\ Sorted(both) /\ ToSet(both) = ToSet(done) \cup ToSet(part)
        /\ ToSet(both) \subseteq PathsUpTo(T, S, maxHops)
    BY <1>10, <1>12, <1>14, <2>2, <2>3
  <2>5. \A x \in ToSet(both), w \in PathsUpTo(T, S, maxHops) :
          Before(w, x) => w \in ToSet(both)
    BY <1>15, <2>1, <2>4
  <2> QED
    BY <2>3, <2>4, <2>5 DEF FoundAreFirst
<1>17. ASSUME m = Len(more)
       PROVE  FoundIsAll(T, S, h, Tail(rest), new \o part, done \o part)
  <2>1. \A n \in 1..l : part[n] = more[n] /\ n \in 1..m
    BY <1>9, <1>17
  <2>2. onward \subseteq ToSet(part)
    BY <1>2, <1>5, <2>1 DEF ToSet
  <2>3. ToSet(part) = onward
    BY <1>10, <2>2
  <2>4. {w \in PathsOf(T, S, h) : Cut(w, h) \notin ToSet(Tail(rest))} = now \cup onward
    BY <1>3, <1>4, <1>7
  <2> QED
    BY <1>5, <1>12, <1>13, <2>3, <2>4 DEF FoundIsAll
<1>18. ASSUME m < Len(more) PROVE ToSet(done \o part) # PathsUpTo(T, S, maxHops)
  <2>1. PICK i \in 1..l : i = m + 1
    BY <1>18
  <2>2. PICK y : y = more[i] /\ y \in onward /\ y \in PathsOf(T, S, h)
    BY <1>2, <1>3, <1>5, <2>1 DEF ToSet
  <2>3. y \notin ToSet(done)
    BY <1>5, <1>8, <2>2
  <2>4. ASSUME y \in ToSet(part) PROVE FALSE
    <3>1. PICK n \in 1..m : y = more[n]
      BY <1>2, <1>9, <2>4 DEF ToSet
    <3>2. n \in 1..l /\ n < i
      BY <1>2, <2>1
    <3>3. Before(y, y)
      BY <1>2, <2>2, <3>1, <3>2 DEF Sorted
    <3> QED
      BY <1>1, <2>2, <3>3, BeforeIsAsymmetric
  <2> QED
    BY <1>12, <1>14, <2>2, <2>3, <2>4
<1> QED
  BY <1>16, <1>17, <1>18

\* The seeds, and what is on the paths that were found.
NodesOf(S, done) == S \cup UNION {ToSet(w.nodes) : w \in ToSet(done)}

\* The walks of no relation are the seeds, in their order.
LEMMA SeedsAreFirst ==
  ASSUME NEW T, NEW S, S \subseteq Entity, NEW maxHops \in Nat, NEW rest,
         rest = [n \in DOMAIN Ascending(S) |->
                   [nodes |-> <<Ascending(S)[n]>>, relations |-> <<>>]]
  PROVE  /\ rest \in Seq(Walk) /\ FrontierIsLast(T, S, 1, rest)
         /\ FoundAreFirst(T, S, maxHops, <<>>) /\ FoundIsAll(T, S, 1, rest, <<>>, <<>>)
         /\ NodesOf(S, <<>>) = S
<1> DEFINE Seed(e) == [nodes |-> <<e>>, relations |-> <<>>]
           N == Cardinality(S)
           a == Ascending(S)
<1>1. /\ N \in Nat /\ a \in [1..N -> S]
      /\ \A m, n \in 1..N : m < n => a[m] < a[n]
      /\ \A i \in S : \E n \in 1..N : i = a[n]
  <2>1. IsFiniteSet(S) /\ \A i \in S : i \in Nat
    BY GraphAssumption, FS_Subset
  <2> QED
    BY <2>1, AscendingIds
<1> HIDE DEF N, a
<1>2. \A n \in 1..N : rest[n] = Seed(a[n])
  BY <1>1 DEF a
<1>3. ASSUME NEW e \in S PROVE Seed(e) \in PathsOf(T, S, 0) /\ Seed(e).nodes[1] = e
  <2>1. Seed(e).nodes \in [1..0 + 1 -> Entity] /\ Seed(e).relations \in [1..0 -> Relation]
    OBVIOUS
  <2>2. Seed(e).nodes[1] = e
    OBVIOUS
  <2>3. \A m, n \in 1..0 + 1 : m = n
    OBVIOUS
  <2>4. \A n \in 1..0 : FALSE
    OBVIOUS
  <2>5. Seed(e) \in [nodes : [1..0 + 1 -> Entity], relations : [1..0 -> Relation]]
    BY <2>1
  <2> HIDE DEF Seed
  <2> QED
    BY <2>2, <2>3, <2>4, <2>5 DEF PathsOf
<1>4. ASSUME NEW w \in PathsOf(T, S, 0) PROVE \E e \in S : w = Seed(e)
  <2>1. /\ w = [nodes |-> w.nodes, relations |-> w.relations]
        /\ w.nodes \in Seq(Entity) /\ Len(w.nodes) = 1
        /\ w.relations \in Seq(Relation) /\ Len(w.relations) = 0
    <3>1. PICK k \in Nat : k = 0
      OBVIOUS
    <3>2. w \in PathsOf(T, S, k)
      BY <3>1
    <3>3. /\ w = [nodes |-> w.nodes, relations |-> w.relations]
          /\ w.nodes \in Seq(Entity) /\ Len(w.nodes) = k + 1
          /\ w.relations \in Seq(Relation) /\ Len(w.relations) = k
      BY <3>2, PathsAreWalks
    <3> QED
      BY <3>1, <3>3
  <2>2. w.nodes[1] \in S
    BY DEF PathsOf
  <2>3. w.nodes = <<w.nodes[1]>> /\ w.relations = <<>>
    BY <2>1
  <2> QED
    BY <2>1, <2>2, <2>3
<1> HIDE DEF Seed
<1>5. ASSUME NEW n \in 1..N
      PROVE  rest[n] \in PathsOf(T, S, 0) /\ rest[n].nodes[1] = a[n] /\ rest[n] \in Walk
  <2>1. PICK e \in S : e = a[n]
    BY <1>1
  <2>2. rest[n] \in PathsOf(T, S, 0) /\ rest[n].nodes[1] = e
    BY <1>2, <1>3, <2>1
  <2>3. 0 \in Nat
    OBVIOUS
  <2> QED
    BY <2>1, <2>2, <2>3, PathsAreWalks
<1>6. rest \in Seq(Walk) /\ DOMAIN rest = 1..N
  <2>1. rest \in [1..N -> Walk]
    BY <1>1, <1>5 DEF a
  <2> QED
    BY <1>1, <2>1, FunctionsAreSequences
<1>7. ToSet(rest) = PathsOf(T, S, 0)
  <2>1. ASSUME NEW w \in PathsOf(T, S, 0) PROVE \E n \in 1..N : w = rest[n]
    <3>1. PICK e \in S : w = Seed(e)
      BY <1>4
    <3>2. PICK n \in 1..N : e = a[n]
      BY <1>1
    <3> QED
      BY <1>2, <3>1, <3>2
  <2> QED
    BY <1>5, <1>6, <2>1 DEF ToSet
<1>8. Sorted(rest)
  <2>1. \A m, n \in 1..N : m < n => Before(rest[m], rest[n])
    BY <1>1, <1>5, BeforeOfPaths
  <2> QED
    BY <1>6, <2>1 DEF Sorted
<1>9. FrontierIsLast(T, S, 1, rest)
  <2>1. 1 - 1 = 0
    OBVIOUS
  <2> QED
    BY <1>7, <1>8, <2>1 DEF FrontierIsLast
<1>10. ToSet(<<>>) = {} /\ Sorted(<<>>)
  BY DEF ToSet, Sorted
<1>11. FoundAreFirst(T, S, maxHops, <<>>)
  BY <1>10 DEF FoundAreFirst
<1>12. FoundIsAll(T, S, 1, rest, <<>>, <<>>)
  <2>1. ASSUME NEW w \in PathsOf(T, S, 1) PROVE Cut(w, 1) \in PathsOf(T, S, 1 - 1)
    <3>1. 1 \in Nat \ {0}
      OBVIOUS
    <3> QED
      BY <3>1, CutIsPath
  <2>2. 1 - 1 = 0 /\ 1..0 = {}
    OBVIOUS
  <2>3. PathsUpTo(T, S, 1 - 1) = {}
    BY <2>2 DEF PathsUpTo
  <2>4. {w \in PathsOf(T, S, 1) : Cut(w, 1) \notin ToSet(rest)} = {}
    BY <1>7, <2>1, <2>2
  <2> QED
    BY <1>10, <2>3, <2>4 DEF FoundIsAll
<1>13. NodesOf(S, <<>>) = S
  BY <1>10 DEF NodesOf
<1> QED
  BY <1>6, <1>9, <1>11, <1>12, <1>13

\* A hop is over when its frontier is empty; the next one starts from what it found.
LEMMA HopsGoOn ==
  ASSUME NEW T, NEW S, NEW h \in Nat \ {0}, NEW new \in Seq(Walk), NEW done \in Seq(Walk),
         FoundIsAll(T, S, h, <<>>, new, done)
  PROVE  /\ ToSet(done) = PathsUpTo(T, S, h)
         /\ FrontierIsLast(T, S, h + 1, new) /\ FoundIsAll(T, S, h + 1, new, <<>>, done)
<1>1. ToSet(<<>>) = {} /\ Sorted(<<>>) /\ (h + 1) - 1 = h /\ h + 1 \in Nat \ {0}
  BY DEF ToSet, Sorted
<1>2. /\ ToSet(new) = PathsOf(T, S, h) /\ Sorted(new)
      /\ ToSet(done) = PathsUpTo(T, S, h - 1) \cup PathsOf(T, S, h)
  BY <1>1 DEF FoundIsAll
<1>3. \A k : k \in 1..h <=> k \in 1..h - 1 \/ k = h
  OBVIOUS
<1>4. PathsUpTo(T, S, h) = PathsUpTo(T, S, h - 1) \cup PathsOf(T, S, h)
  BY <1>3 DEF PathsUpTo
<1>5. FrontierIsLast(T, S, h + 1, new)
  BY <1>1, <1>2 DEF FrontierIsLast
<1>6. FoundIsAll(T, S, h + 1, new, <<>>, done)
  <2>1. \A w \in PathsOf(T, S, h + 1) : Cut(w, h + 1) \in PathsOf(T, S, h)
    BY <1>1, CutIsPath
  <2>2. {w \in PathsOf(T, S, h + 1) : Cut(w, h + 1) \notin ToSet(new)} = {}
    BY <1>2, <2>1
  <2> QED
    BY <1>1, <1>2, <1>4, <2>2 DEF FoundIsAll
<1> QED
  BY <1>2, <1>4, <1>5, <1>6

\* The frontier's walks visit entities of the answer only.
LEMMA FrontierIsAnswered ==
  ASSUME NEW T, NEW S, NEW h \in Nat \ {0}, NEW rest, NEW new, NEW done,
         FrontierIsLast(T, S, h, rest), FoundIsAll(T, S, h, rest, new, done),
         NEW u \in ToSet(rest)
  PROVE  /\ u \in PathsOf(T, S, h - 1) /\ u.nodes[h] \in ToSet(u.nodes)
         /\ ToSet(u.nodes) \subseteq NodesOf(S, done)
<1>1. h - 1 \in Nat /\ (h - 1) + 1 = h /\ u \in PathsOf(T, S, h - 1)
  BY DEF FrontierIsLast
<1>2. DOMAIN u.nodes = 1..h /\ u.nodes[1] \in S
  <2>1. DOMAIN u.nodes = 1..(h - 1) + 1
    BY <1>1, PathsAreWalks
  <2>2. u.nodes[1] \in S
    BY <1>1 DEF PathsOf
  <2> QED
    BY <1>1, <2>1, <2>2
<1>3. u.nodes[h] \in ToSet(u.nodes)
  BY <1>2 DEF ToSet
<1>4. CASE h = 1
  BY <1>1, <1>2, <1>3, <1>4 DEF NodesOf, ToSet
<1>5. CASE h # 1
  <2>1. h - 1 \in 1..h - 1
    BY <1>5
  <2>2. u \in PathsUpTo(T, S, h - 1)
    BY <1>1, <2>1, PathsByLength
  <2>3. u \in ToSet(done)
    BY <2>2 DEF FoundIsAll
  <2> QED
    BY <1>1, <1>3, <2>3 DEF NodesOf
<1> QED
  BY <1>1, <1>3, <1>4, <1>5

\* What a statement adds to the answer is what its paths visit.
LEMMA AnswerGoesOn ==
  ASSUME NEW T, NEW S, NEW h \in Nat \ {0}, NEW u \in PathsOf(T, S, h - 1),
         NEW done \in Seq(Walk), NEW part \in Seq(Walk), ToSet(u.nodes) \subseteq NodesOf(S, done),
         ToSet(part) \subseteq Onward(T, S, h, u),
         ToSet(done \o part) = ToSet(done) \cup ToSet(part)
  PROVE  NodesOf(S, done \o part) = NodesOf(S, done) \cup LastNodes(ToSet(part))
<1>0. \A n \in 1..h : u.nodes[n] \in NodesOf(S, done)
  <2>1. h - 1 \in Nat /\ (h - 1) + 1 = h
    OBVIOUS
  <2>2. DOMAIN u.nodes = 1..(h - 1) + 1
    BY <2>1, PathsAreWalks
  <2> QED
    BY <2>1, <2>2 DEF ToSet
<1>1. ASSUME NEW w \in ToSet(part)
      PROVE  /\ Last(w.nodes) \in ToSet(w.nodes)
             /\ \A f \in ToSet(w.nodes) : f = Last(w.nodes) \/ f \in NodesOf(S, done)
  <2>1. w \in PathsOf(T, S, h) /\ Cut(w, h) = u
    BY DEF Onward
  <2>2. DOMAIN w.nodes = 1..h + 1 /\ Len(w.nodes) = h + 1
    BY <2>1, PathsAreWalks
  <2>3. Last(w.nodes) = w.nodes[h + 1]
    BY <2>2 DEF Last
  <2>4. \A n \in 1..h : w.nodes[n] = u.nodes[n]
    BY <2>1, CutIsPath
  <2>5. \A n \in 1..h + 1 : n \in 1..h \/ n = h + 1
    OBVIOUS
  <2>6. h + 1 \in 1..h + 1
    OBVIOUS
  <2> QED
    BY <1>0, <2>2, <2>3, <2>4, <2>5, <2>6 DEF ToSet
<1>2. \A e : e \in NodesOf(S, done \o part) <=>
        e \in S \/ (\E w \in ToSet(done) : e \in ToSet(w.nodes))
                \/ (\E w \in ToSet(part) : e \in ToSet(w.nodes))
  BY DEF NodesOf
<1>3. \A e : e \in NodesOf(S, done) <=> e \in S \/ \E w \in ToSet(done) : e \in ToSet(w.nodes)
  BY DEF NodesOf
<1>4. \A e : e \in LastNodes(ToSet(part)) <=> \E w \in ToSet(part) : e = Last(w.nodes)
  BY DEF LastNodes
<1> QED
  BY <1>1, <1>2, <1>3, <1>4

\* There are finitely many paths of a length, since each is one of the next shorter
\* length and a last link.
LEMMA PathsAreFinite ==
  ASSUME NEW T, AreLinks(T), NEW S, NEW k \in Nat
  PROVE  IsFiniteSet(PathsOf(T, S, k))
<1> DEFINE Good == {n \in Nat : IsFiniteSet(PathsOf(T, S, n))}
<1>0. IsFiniteSet(Entity) /\ IsFiniteSet(Relation)
  BY GraphAssumption
<1>1. 0 \in Good
  <2> PICK z \in Nat : z = 0
    OBVIOUS
  <2> DEFINE first == [w \in PathsOf(T, S, z) |-> w.nodes[1]]
  <2>1. \A w \in PathsOf(T, S, z) : w.nodes[1] \in Entity
    <3>1. ASSUME NEW w \in PathsOf(T, S, z) PROVE w.nodes[1] \in Entity
      <4>1. w.nodes \in [1..z + 1 -> Entity]
        BY PathsAreWalks
      <4>2. 1 \in 1..z + 1
        OBVIOUS
      <4> QED
        BY <4>1, <4>2
    <3> QED
      BY <3>1
  <2>2. ASSUME NEW v \in PathsOf(T, S, z), NEW w \in PathsOf(T, S, z), v.nodes[1] = w.nodes[1]
        PROVE  v = w
    <3>1. \A n \in 1..z : v.relations[n] = w.relations[n]
      OBVIOUS
    <3> QED
      BY <2>2, <3>1, PathsAreKnownByRelations
  <2>3. first \in Injection(PathsOf(T, S, z), Entity)
    BY <2>1, <2>2 DEF Injection, IsInjective
  <2> HIDE DEF first
  <2>4. IsFiniteSet(PathsOf(T, S, z))
    BY <1>0, <2>3, FS_Injection
  <2> QED
    BY <2>4
<1>2. ASSUME NEW n \in 1..k, n - 1 \in Good PROVE n \in Good
  <2>1. n \in Nat \ {0}
    OBVIOUS
  <2> PICK P : P = PathsOf(T, S, n - 1)
    OBVIOUS
  <2> PICK Q : Q = PathsOf(T, S, n)
    OBVIOUS
  <2> DEFINE Ends == Relation \X Entity
             parts == [w \in Q |-> <<Cut(w, n), <<w.relations[n], w.nodes[n + 1]>>>>]
  <2>2. ASSUME NEW w \in Q
        PROVE  /\ Cut(w, n) \in P /\ <<w.relations[n], w.nodes[n + 1]>> \in Ends
               /\ w = Longer(Cut(w, n), w.relations[n], w.nodes[n + 1])
    <3>1. w \in PathsOf(T, S, n)
      OBVIOUS
    <3>2. Cut(w, n) \in PathsOf(T, S, n - 1)
      BY <2>1, <3>1, CutIsPath
    <3>3. /\ w.relations[n] \in Relation /\ w.nodes[n + 1] \in Entity
          /\ w = Longer(Cut(w, n), w.relations[n], w.nodes[n + 1])
      BY <2>1, <3>1, PathIsLonger
    <3> QED
      BY <3>2, <3>3
  <2>3. IsFiniteSet(P)
    BY <1>2
  <2>4. IsFiniteSet(Ends)
    BY <1>0, FS_Product
  <2> HIDE DEF Ends
  <2>5. IsFiniteSet(P \X Ends)
    BY <2>3, <2>4, FS_Product
  <2>6. parts \in [Q -> P \X Ends]
    BY <2>2
  <2>7. ASSUME NEW v \in Q, NEW w \in Q, parts[v] = parts[w] PROVE v = w
    <3>1. /\ Cut(v, n) = Cut(w, n) /\ v.relations[n] = w.relations[n]
          /\ v.nodes[n + 1] = w.nodes[n + 1]
      BY <2>7
    <3> QED
      BY <2>2, <3>1
  <2>8. parts \in Injection(Q, P \X Ends)
    BY <2>6, <2>7 DEF Injection, IsInjective
  <2> HIDE DEF parts
  <2>9. IsFiniteSet(Q)
    BY <2>5, <2>8, FS_Injection
  <2> QED
    BY <2>9
<1>3. Good \in SUBSET Nat
  OBVIOUS
<1> HIDE DEF Good
<1>4. k \in Good
  BY <1>1, <1>2, <1>3, CountUp
<1> QED
  BY <1>4 DEF Good

LEMMA AllPathsAreFinite ==
  ASSUME NEW T, AreLinks(T), NEW S, NEW h \in Nat
  PROVE  IsFiniteSet(PathsUpTo(T, S, h))
<1> DEFINE Good == {n \in Nat : IsFiniteSet(PathsUpTo(T, S, n))}
<1>1. 0 \in Good
  <2>1. PathsUpTo(T, S, 0) = {}
    BY DEF PathsUpTo
  <2> QED
    BY <2>1, FS_EmptySet
<1>2. ASSUME NEW n \in 1..h, n - 1 \in Good PROVE n \in Good
  <2>1. \A k : k \in 1..n <=> k \in 1..n - 1 \/ k = n
    OBVIOUS
  <2>2. PathsUpTo(T, S, n) = PathsUpTo(T, S, n - 1) \cup PathsOf(T, S, n)
    BY <2>1 DEF PathsUpTo
  <2>3. PICK A : A = PathsUpTo(T, S, n - 1)
    OBVIOUS
  <2>4. PICK B : B = PathsOf(T, S, n)
    OBVIOUS
  <2>5. IsFiniteSet(A)
    BY <1>2, <2>3
  <2>6. IsFiniteSet(B)
    <3>1. n \in Nat
      OBVIOUS
    <3> QED
      BY <2>4, <3>1, PathsAreFinite
  <2>7. IsFiniteSet(A \cup B)
    BY <2>5, <2>6, FS_Union
  <2>8. IsFiniteSet(PathsUpTo(T, S, n))
    BY <2>2, <2>3, <2>4, <2>7
  <2> QED
    BY <2>8
<1>3. Good \in SUBSET Nat
  OBVIOUS
<1> HIDE DEF Good
<1>4. h \in Good
  BY <1>1, <1>2, <1>3, CountUp
<1> QED
  BY <1>4 DEF Good

\* Each walk stands where as many of all are before it.
HaveRanks(all, done) ==
  \A n \in DOMAIN done :
    done[n] \in all /\ Cardinality({w \in all : Before(w, done[n])}) = n - 1

\* The first paths stand where as many are before them.
LEMMA FirstHaveTheirRank ==
  ASSUME NEW T, NEW S, NEW h \in Nat, NEW done \in Seq(Walk), FoundAreFirst(T, S, h, done)
  PROVE  /\ HaveRanks(PathsUpTo(T, S, h), done)
         /\ IsFiniteSet(ToSet(done)) /\ Cardinality(ToSet(done)) = Len(done)
<1> PICK all : all = PathsUpTo(T, S, h)
  OBVIOUS
<1> PICK l \in Nat : l = Len(done)
  OBVIOUS
<1>1. DOMAIN done = 1..l
  OBVIOUS
<1>2. /\ \A n \in 1..l : done[n] \in all /\ done[n] \in ToSet(done)
      /\ \A m, n \in 1..l : m < n => Before(done[m], done[n])
      /\ \A n \in 1..l : \A w \in all : Before(w, done[n]) => w \in ToSet(done)
  BY <1>1 DEF FoundAreFirst, ToSet, Sorted
<1>3. ASSUME NEW v \in all, NEW w \in all, Before(v, w) PROVE ~Before(w, v)
  <2>1. PICK j \in 1..h : v \in PathsOf(T, S, j)
    BY PathsByLength
  <2>2. PICK k \in 1..h : w \in PathsOf(T, S, k)
    BY PathsByLength
  <2>3. j \in Nat /\ k \in Nat
    OBVIOUS
  <2> QED
    BY <1>3, <2>1, <2>2, <2>3, BeforeIsAsymmetric
<1>4. ASSUME NEW m \in 1..l, NEW n \in 1..l, m # n PROVE done[m] # done[n]
  <2>1. m < n \/ n < m
    BY <1>4
  <2>2. Before(done[m], done[n]) \/ Before(done[n], done[m])
    BY <1>2, <2>1
  <2> QED
    BY <1>2, <1>3, <2>2
<1>5. ASSUME NEW n \in 0..l
      PROVE  LET some == {done[m] : m \in 1..n}
             IN  IsFiniteSet(some) /\ Cardinality(some) = n
  <2> PICK some : some = {done[m] : m \in 1..n}
    OBVIOUS
  <2> DEFINE f == [m \in 1..n |-> done[m]]
  <2>1. \A m \in 1..n : m \in 1..l
    OBVIOUS
  <2>2. f \in [1..n -> some]
    OBVIOUS
  <2>3. \A i, j \in 1..n : f[i] = f[j] => i = j
    BY <1>4, <2>1
  <2>4. \A x \in some : \E m \in 1..n : f[m] = x
    OBVIOUS
  <2>5. f \in Bijection(1..n, some)
    BY <2>2, <2>3, <2>4 DEF Bijection, Injection, Surjection, IsInjective
  <2>6. ExistsBijection(1..n, some)
    BY <2>5 DEF ExistsBijection
  <2>7. IsFiniteSet(1..n) /\ Cardinality(1..n) = n
    <3>1. 1 \in Int /\ n \in Int
      OBVIOUS
    <3>2. IsFiniteSet(1..n) /\ Cardinality(1..n) = IF 1 > n THEN 0 ELSE n - 1 + 1
      BY <3>1, FS_Interval
    <3> QED
      BY <3>2
  <2> HIDE DEF f
  <2>8. IsFiniteSet(some) /\ Cardinality(some) = n
    BY <2>6, <2>7, FS_Bijection
  <2> QED
    BY <2>8
<1>6. ASSUME NEW n \in 1..l
      PROVE  Cardinality({w \in all : Before(w, done[n])}) = n - 1
  <2>1. n - 1 \in 0..l /\ \A m \in 1..n - 1 : m \in 1..l /\ m < n
    OBVIOUS
  <2>2. ASSUME NEW w \in all, Before(w, done[n])
        PROVE  \E m \in 1..n - 1 : w = done[m]
    <3>1. PICK m \in 1..l : w = done[m]
      BY <1>1, <1>2, <2>2 DEF ToSet
    <3>2. ~Before(done[n], w) /\ w # done[n]
      BY <1>2, <1>3, <2>2
    <3>3. ~(n < m) /\ m # n
      BY <1>2, <3>1, <3>2
    <3>4. m \in 1..n - 1
      BY <3>3
    <3> QED
      BY <3>1, <3>4
  <2>3. \A m \in 1..n - 1 : done[m] \in all /\ Before(done[m], done[n])
    BY <1>2, <2>1
  <2>4. {w \in all : Before(w, done[n])} = {done[m] : m \in 1..n - 1}
    BY <2>2, <2>3
  <2> QED
    BY <1>5, <2>1, <2>4
<1>7. IsFiniteSet(ToSet(done)) /\ Cardinality(ToSet(done)) = l
  <2>1. l \in 0..l /\ ToSet(done) = {done[m] : m \in 1..l}
    BY <1>1 DEF ToSet
  <2> QED
    BY <1>5, <2>1
<1>8. HaveRanks(all, done)
  BY <1>1, <1>2, <1>6 DEF HaveRanks
<1> QED
  BY <1>7, <1>8

-------------------------------------------------------------------------------
(* Expansions: the steps *)

\* What was found so far, when links T are seen and the expansion started from S.
ExpansionSoFar(T, S) ==
  /\ FrontierIsLast(T, S, hop, frontier)
  /\ FoundAreFirst(T, S, query.maxHops, paths)
  /\ ~truncated => FoundIsAll(T, S, hop, frontier, ahead, paths)
  /\ truncated => /\ Len(paths) = query.maxPaths
                  /\ ToSet(paths) # PathsUpTo(T, S, query.maxHops)
  /\ answered = NodesOf(S, paths)

NothingFound ==
  expanding = "idle" => ahead = <<>> /\ paths = <<>> /\ hop = 1 /\ ~truncated

QueryUnderWay ==
  expanding # "idle" =>
    /\ graph \in [Relation -> Edge] /\ query \in Queries
    /\ hop \in 1..query.maxHops /\ Len(paths) <= query.maxPaths
    /\ Visible(query.seeds) \subseteq answered

\* As long as all of the answer is still seen, the expansion is on its way.
OnItsWay ==
  expanding # "idle" /\ Rechecked => ExpansionSoFar(Links, Visible(query.seeds))

ExpansionEnds ==
  expanding = "answered" =>
    Rechecked /\ (truncated \/ (frontier = <<>> /\ hop = query.maxHops))

GraphSound == GraphTypeOK /\ NothingFound /\ QueryUnderWay /\ OnItsWay /\ ExpansionEnds

\* Nothing was asked.
LEMMA GraphInitSound == GraphInit => GraphSound
<1> SUFFICES ASSUME GraphInit PROVE GraphSound
  OBVIOUS
<1> USE DEF GraphInit
<1>1. GraphTypeOK
  <2>1. <<>> \in Seq(Walk) /\ 1 \in 1..3
    OBVIOUS
  <2> QED
    BY <2>1 DEF GraphTypeOK
<1>2. NothingFound /\ QueryUnderWay /\ OnItsWay /\ ExpansionEnds
  BY DEF NothingFound, QueryUnderWay, OnItsWay, ExpansionEnds
<1> QED
  BY <1>1, <1>2 DEF GraphSound

LEMMA QueryParts ==
  ASSUME NEW q \in Queries
  PROVE  q.seeds \subseteq Entity /\ q.maxHops \in 1..2 /\ q.maxPaths \in 1..100
  BY GraphAssumption

\* The seeds are the first frontier.
LEMMA ExpandSound == ASSUME GraphSound, NEW q \in Queries, Expand(q) PROVE GraphSound'
<1>1. /\ expanding = "idle" /\ graph' \in [Relation -> Edge] /\ query' = q
      /\ answered' = Visible(q.seeds) /\ expanding' = "walking" /\ granted' = granted
      /\ ahead' = ahead /\ hop' = hop /\ paths' = paths /\ truncated' = truncated
  BY DEF Expand
<1>2. ahead = <<>> /\ paths = <<>> /\ hop = 1 /\ ~truncated
  BY <1>1 DEF GraphSound, NothingFound
<1>3. q.seeds \subseteq Entity /\ q.maxHops \in 1..2 /\ q.maxPaths \in 1..100
  BY QueryParts
<1> PICK S : S = Visible(q.seeds)
  OBVIOUS
<1> PICK T : T = Links'
  OBVIOUS
<1>4. S \subseteq Entity
  BY <1>3 DEF Visible
<1>5. frontier' = [n \in DOMAIN Ascending(S) |->
                     [nodes |-> <<Ascending(S)[n]>>, relations |-> <<>>]]
  BY DEF Expand
<1>6. /\ frontier' \in Seq(Walk) /\ FrontierIsLast(T, S, 1, frontier')
      /\ FoundAreFirst(T, S, q.maxHops, <<>>) /\ FoundIsAll(T, S, 1, frontier', <<>>, <<>>)
      /\ NodesOf(S, <<>>) = S
  <2>1. q.maxHops \in Nat
    BY <1>3
  <2> QED
    BY <1>4, <1>5, <2>1, SeedsAreFirst
<1>7. Visible(query.seeds)' = S
  BY <1>1 DEF Visible
<1>8. GraphTypeOK'
  <2>1. <<>> \in Seq(Walk) /\ 1 \in 1..3
    OBVIOUS
  <2>2. granted \subseteq Scope /\ truncated \in BOOLEAN
    BY DEF GraphSound, GraphTypeOK
  <2>3. /\ graph' \in [Relation -> Edge] \cup {None} /\ granted' \subseteq Scope
        /\ query' \in Queries \cup {None} /\ frontier' \in Seq(Walk)
    BY <1>1, <1>6, <2>2
  <2>4. ahead' \in Seq(Walk) /\ paths' \in Seq(Walk) /\ hop' \in 1..3
    BY <1>1, <1>2, <2>1
  <2>5. /\ truncated' \in BOOLEAN /\ answered' \subseteq Entity
        /\ expanding' \in {"idle", "walking", "answered", "refused"}
    BY <1>1, <1>4, <2>2
  <2> QED
    BY <2>3, <2>4, <2>5 DEF GraphTypeOK
<1>9. NothingFound' /\ ExpansionEnds'
  BY <1>1 DEF NothingFound, ExpansionEnds
<1>10. QueryUnderWay'
  <2>1. 1 \in 1..q.maxHops /\ Len(<<>>) = 0 /\ 0 <= q.maxPaths
    BY <1>3
  <2> QED
    BY <1>1, <1>2, <1>7, <2>1 DEF QueryUnderWay
<1>11. OnItsWay'
  <2>1. ExpansionSoFar(T, S)'
    BY <1>1, <1>2, <1>6 DEF ExpansionSoFar
  <2> QED
    BY <1>7, <2>1 DEF OnItsWay
<1> QED
  BY <1>8, <1>9, <1>10, <1>11 DEF GraphSound

\* Whatever a statement sees, it finds walks.
LEMMA ExtensionsAreWalks ==
  ASSUME NEW u \in Walk
  PROVE  /\ Extensions(u) \in Seq(Walk)
         /\ \A w \in ToSet(Extensions(u)) : Last(w.nodes) \in Entity
<1> DEFINE To(r)   == {f \in Visible(Entity) : LeadsTo(r, Last(u.nodes), f) /\ ~Visited(f, u)}
           Next(r) == CHOOSE f \in To(r) : TRUE
           rows    == {r \in Relation : Last(u.nodes) \in Visible({Last(u.nodes)}) /\ To(r) # {}}
           E       == Extensions(u)
           s       == Ascending(rows)
           N       == Cardinality(rows)
<1>1. N \in Nat /\ s \in [1..N -> rows]
  <2>1. rows \in SUBSET Relation
    OBVIOUS
  <2> HIDE DEF rows
  <2>2. IsFiniteSet(rows) /\ \A r \in rows : r \in Nat
    BY <2>1, GraphAssumption, FS_Subset
  <2> QED
    BY <2>2, AscendingIds
<1>2. \A r \in rows : r \in Relation /\ Next(r) \in Entity
  BY DEF Visible
<1>3. E = [n \in DOMAIN s |-> Longer(u, s[n], Next(s[n]))]
  BY DEF Extensions, Longer
<1> HIDE DEF E, s, N, rows, Next, To
<1>4. ASSUME NEW n \in 1..N PROVE E[n] \in Walk /\ Last(E[n].nodes) \in Entity
  <2>1. PICK r, f : /\ r \in Relation /\ f \in Entity /\ E[n] = Longer(u, r, f)
    BY <1>1, <1>2, <1>3
  <2>2. u.nodes \in Seq(Entity) /\ u.relations \in Seq(Relation)
    BY DEF Walk
  <2>3. /\ Append(u.nodes, f) \in Seq(Entity) /\ Append(u.relations, r) \in Seq(Relation)
        /\ Last(Append(u.nodes, f)) = f
    BY <2>1, <2>2 DEF Last
  <2>4. /\ E[n].nodes = Append(u.nodes, f)
        /\ E[n] = [nodes |-> Append(u.nodes, f), relations |-> Append(u.relations, r)]
    BY <2>1 DEF Longer
  <2> QED
    BY <2>1, <2>3, <2>4 DEF Walk
<1>5. E \in Seq(Walk) /\ DOMAIN E = 1..N
  <2>1. E \in [1..N -> Walk]
    BY <1>1, <1>3, <1>4
  <2> QED
    BY <1>1, <2>1, FunctionsAreSequences
<1>6. \A w \in ToSet(E) : Last(w.nodes) \in Entity
  BY <1>4, <1>5 DEF ToSet
<1> QED
  BY <1>5, <1>6 DEF E

\* What one statement does, with its rows and their number.
OneStatement(more, m, part) ==
  /\ more = Extensions(Head(frontier)) /\ more \in Seq(Walk)
  /\ m \in 0..Len(more) /\ Len(paths) + m <= query.maxPaths
  /\ truncated' = (m < Len(more)) /\ (m < Len(more) => Len(paths) + m = query.maxPaths)
  /\ part \in Seq(Walk) /\ Len(part) = m /\ \A n \in 1..m : part[n] = more[n]
  /\ ToSet(part) \subseteq ToSet(more)
  /\ frontier' = Tail(frontier) /\ paths' = paths \o part /\ ahead' = ahead \o part
  /\ answered' = answered \cup LastNodes(ToSet(part))

LEMMA WalkOnParts ==
  ASSUME GraphSound, WalkOn
  PROVE  /\ expanding = "walking" /\ ~truncated /\ frontier # <<>>
         /\ UNCHANGED <<graph, granted, query, hop, expanding>>
         /\ \E more, part : \E m \in Nat : OneStatement(more, m, part)
<1>1. /\ expanding = "walking" /\ ~truncated /\ frontier # <<>>
      /\ UNCHANGED <<graph, granted, query, hop, expanding>>
  BY DEF WalkOn
<1>2. /\ paths \in Seq(Walk) /\ frontier \in Seq(Walk)
      /\ query \in Queries /\ Len(paths) <= query.maxPaths
  BY <1>1 DEF GraphSound, GraphTypeOK, QueryUnderWay
<1>3. query.maxPaths \in Nat /\ Len(paths) \in Nat
  <2> PICK q \in Queries : q = query
    BY <1>2
  <2>1. q.maxPaths \in 1..100
    BY QueryParts
  <2>2. q.maxPaths \in Nat
    BY <2>1
  <2>3. Len(paths) \in Nat
    BY <1>2
  <2> QED
    BY <2>2, <2>3
<1> PICK k \in Nat : k = query.maxPaths
  BY <1>3
<1> PICK l \in Nat : l = Len(paths)
  BY <1>3
<1>4. Head(frontier) \in Walk
  BY <1>1, <1>2, HeadAndTail
<1> PICK more \in Seq(Walk) : more = Extensions(Head(frontier))
  BY <1>4, ExtensionsAreWalks
<1> PICK c \in Nat : c = Len(more)
  OBVIOUS
<1> PICK m : m = IF c < k - l THEN c ELSE k - l
  OBVIOUS
<1>5. /\ m \in 0..c /\ m \in Nat /\ l + m <= k
      /\ (c > k - l) <=> (m < c)
      /\ m < c => l + m = k
  <2>1. l <= k
    BY <1>2
  <2>2. CASE c < k - l
    <3>1. m = c
      BY <2>2
    <3> QED
      BY ONLY c \in Nat, k \in Nat, l \in Nat, <2>1, <2>2, <3>1
  <2>3. CASE ~(c < k - l)
    <3>1. m = k - l
      BY <2>3
    <3> QED
      BY ONLY c \in Nat, k \in Nat, l \in Nat, <2>1, <2>3, <3>1
  <2> QED
    BY <2>2, <2>3
<1> PICK part : part = SubSeq(more, 1, m)
  OBVIOUS
<1>6. /\ part \in Seq(Walk) /\ Len(part) = m /\ DOMAIN part = 1..m
      /\ \A n \in 1..m : part[n] = more[n]
  <2>1. m \in 0..Len(more)
    BY <1>5
  <2>2. more \in Seq(Walk)
    OBVIOUS
  <2>3. /\ SubSeq(more, 1, m) \in Seq(Walk) /\ Len(SubSeq(more, 1, m)) = m
        /\ DOMAIN SubSeq(more, 1, m) = 1..m
        /\ \A n \in 1..m : SubSeq(more, 1, m)[n] = more[n]
        /\ ToSet(SubSeq(more, 1, m)) = {more[n] : n \in 1..m}
    BY ONLY <2>1, <2>2, FirstOnes
  <2> QED
    BY <2>3
<1>7. ToSet(part) \subseteq ToSet(more)
  <2> SUFFICES ASSUME NEW w \in ToSet(part) PROVE w \in ToSet(more)
    OBVIOUS
  <2>1. DOMAIN more = 1..c
    OBVIOUS
  <2>2. PICK n \in 1..m : w = part[n]
    <3>1. DOMAIN part = 1..m
      BY <1>6
    <3> QED
      BY <3>1 DEF ToSet
  <2>3. w = more[n]
    BY <1>6, <2>2
  <2>4. n \in 1..c
    BY <1>5
  <2> QED
    BY <2>1, <2>3, <2>4 DEF ToSet
<1>8. /\ frontier' = Tail(frontier) /\ paths' = paths \o part /\ ahead' = ahead \o part
      /\ answered' = answered \cup LastNodes(ToSet(part))
      /\ truncated' = (c > k - l)
  BY DEF WalkOn, LastNodes
<1>9. truncated' = (m < c)
  BY <1>5, <1>8
<1>10. OneStatement(more, m, part)
  BY <1>5, <1>6, <1>7, <1>8, <1>9 DEF OneStatement
<1> QED
  BY <1>1, <1>5, <1>10

\* The answer never lost an entity that is seen if all of it is seen later.
LEMMA SeenBefore ==
  ASSUME granted' \subseteq granted, answered \subseteq answered', Rechecked'
  PROVE  /\ Rechecked
         /\ \A e \in answered : ScopeOf[e] \in granted /\ ScopeOf[e] \in granted'
<1>1. \A e \in answered' : ScopeOf[e] \in granted'
  BY DEF Rechecked, Visible
<1> QED
  BY <1>1 DEF Rechecked, Visible

\* One statement takes the expansion on by a walk.
LEMMA WalkOnSound == ASSUME GraphSound, WalkOn PROVE GraphSound'
<1>1. /\ expanding = "walking" /\ ~truncated /\ frontier # <<>>
      /\ graph' = graph /\ granted' = granted /\ query' = query /\ hop' = hop
      /\ expanding' = expanding
      /\ \E more, part : \E m \in Nat : OneStatement(more, m, part)
  BY WalkOnParts
<1>2. PICK more, part : \E m \in Nat : OneStatement(more, m, part)
  BY <1>1
<1> PICK m \in Nat : OneStatement(more, m, part)
  BY <1>2
<1>3. /\ more = Extensions(Head(frontier)) /\ more \in Seq(Walk)
      /\ m \in 0..Len(more) /\ Len(paths) + m <= query.maxPaths
      /\ truncated' = (m < Len(more)) /\ (m < Len(more) => Len(paths) + m = query.maxPaths)
      /\ part \in Seq(Walk) /\ Len(part) = m /\ (\A n \in 1..m : part[n] = more[n])
      /\ ToSet(part) \subseteq ToSet(more)
      /\ frontier' = Tail(frontier) /\ paths' = paths \o part /\ ahead' = ahead \o part
      /\ answered' = answered \cup LastNodes(ToSet(part))
  BY DEF OneStatement
<1>4. GraphTypeOK
  BY DEF GraphSound
<1>5. /\ frontier \in Seq(Walk) /\ ahead \in Seq(Walk) /\ paths \in Seq(Walk)
      /\ answered \subseteq Entity
  BY <1>4 DEF GraphTypeOK
<1>6. /\ graph \in [Relation -> Edge] /\ query \in Queries /\ hop \in 1..query.maxHops
      /\ Visible(query.seeds) \subseteq answered
  BY <1>1 DEF GraphSound, QueryUnderWay
<1>7. /\ query.maxHops \in Nat /\ query.maxPaths \in Nat /\ query.seeds \subseteq Entity
      /\ hop \in Nat \ {0}
  BY <1>6, QueryParts
<1>8. Head(frontier) \in Walk /\ Tail(frontier) \in Seq(Walk)
  BY <1>1, <1>5, HeadAndTail
<1>9. GraphTypeOK'
  <2>1. \A w \in ToSet(part) : Last(w.nodes) \in Entity
    BY <1>3, <1>8, ExtensionsAreWalks
  <2>2. answered' \subseteq Entity
    BY <1>3, <1>5, <2>1 DEF LastNodes
  <2>3. frontier' \in Seq(Walk) /\ ahead' \in Seq(Walk) /\ paths' \in Seq(Walk)
    BY <1>3, <1>5, <1>8, Concatenated
  <2>4. truncated' \in BOOLEAN
    BY <1>3
  <2> QED
    BY <1>1, <1>4, <2>2, <2>3, <2>4 DEF GraphTypeOK
<1>10. NothingFound' /\ ExpansionEnds'
  BY <1>1 DEF NothingFound, ExpansionEnds
<1>11. Visible(query.seeds)' = Visible(query.seeds) /\ Links' = Links
  <2>1. Visible(query.seeds)' = Visible(query.seeds)
    BY <1>1 DEF Visible
  <2>2. Links' = Links
    BY <1>1 DEF Links, LeadsTo
  <2> QED
    BY <2>1, <2>2
<1>12. Len(paths') = Len(paths) + m
  BY <1>3, <1>5, Concatenated
<1>13. QueryUnderWay'
  BY <1>1, <1>3, <1>6, <1>11, <1>12 DEF QueryUnderWay
<1>14. ASSUME Rechecked' PROVE ExpansionSoFar(Links, Visible(query.seeds))'
  <2> PICK T : T = Links /\ AreLinks(T)
    BY <1>6, LinksOfGraph
  <2> PICK S : S = Visible(query.seeds)
    OBVIOUS
  <2> PICK h \in Nat \ {0} : h = hop
    BY <1>7
  <2> PICK H \in Nat : H = query.maxHops
    BY <1>7
  <2> PICK u : u = Head(frontier)
    OBVIOUS
  <2>1. Rechecked /\ \A e \in answered : ScopeOf[e] \in granted
    BY <1>1, <1>3, <1>14, SeenBefore
  <2>2. /\ FrontierIsLast(T, S, h, frontier) /\ FoundAreFirst(T, S, H, paths)
        /\ FoundIsAll(T, S, h, frontier, ahead, paths) /\ answered = NodesOf(S, paths)
    BY <1>1, <2>1 DEF GraphSound, OnItsWay, ExpansionSoFar
  <2>3. /\ FrontierIsLast(T, S, h, Tail(frontier))
        /\ u \in PathsOf(T, S, h - 1) /\ u \in ToSet(frontier)
    BY <1>1, <1>5, <2>2, FrontierGoesOn
  <2>4. u.nodes[h] \in ToSet(u.nodes) /\ ToSet(u.nodes) \subseteq NodesOf(S, paths)
    BY <2>2, <2>3, FrontierIsAnswered
  <2>5. ScopeOf[u.nodes[h]] \in granted
    BY <2>1, <2>2, <2>4
  <2>6. Sorted(more) /\ ToSet(more) = Onward(T, S, h, u)
    <3>1. u \in PathsOf(Links, S, h - 1) /\ graph \in [Relation -> Edge]
      BY <1>6, <2>3
    <3>2. /\ Extensions(u) \in Seq(Walk) /\ Sorted(Extensions(u))
          /\ ToSet(Extensions(u)) = Onward(Links, S, h, u)
      BY ONLY h \in Nat \ {0}, <2>5, <3>1, ExtensionsArePaths
    <3>3. more = Extensions(u)
      BY <1>3
    <3> QED
      BY <3>2, <3>3
  <2>7. /\ FoundAreFirst(T, S, H, paths \o part)
        /\ m = Len(more) => FoundIsAll(T, S, h, Tail(frontier), ahead \o part, paths \o part)
        /\ m < Len(more) => ToSet(paths \o part) # PathsUpTo(T, S, H)
    <3>1. AreLinks(T) /\ h \in 1..H
      BY <1>6
    <3>2. frontier \in Seq(Walk) /\ frontier # <<>> /\ ahead \in Seq(Walk) /\ paths \in Seq(Walk)
      BY <1>1, <1>5
    <3>3. /\ more \in Seq(Walk) /\ m \in 0..Len(more)
          /\ part \in Seq(Walk) /\ Len(part) = m /\ (\A n \in 1..m : part[n] = more[n])
      BY <1>3
    <3>4. /\ FrontierIsLast(T, S, h, frontier) /\ FoundAreFirst(T, S, H, paths)
          /\ FoundIsAll(T, S, h, frontier, ahead, paths)
      BY <2>2
    <3>5. Sorted(more) /\ ToSet(more) = Onward(T, S, h, Head(frontier))
      BY <2>6
    <3> QED
      BY ONLY H \in Nat, <3>1, <3>2, <3>3, <3>4, <3>5, StatementGoesOn
  <2>8. NodesOf(S, paths \o part) = NodesOf(S, paths) \cup LastNodes(ToSet(part))
    <3>1. ToSet(part) \subseteq Onward(T, S, h, u)
      BY <1>3, <2>6
    <3>2. paths \in Seq(Walk) /\ part \in Seq(Walk)
      BY <1>3, <1>5
    <3>3. ToSet(paths \o part) = ToSet(paths) \cup ToSet(part)
      BY ONLY <3>2, SetOfBoth
    <3> QED
      BY ONLY h \in Nat \ {0}, <2>3, <2>4, <3>1, <3>2, <3>3, AnswerGoesOn
  <2>9. ~truncated' => m = Len(more)
    <3> PICK c \in Nat : c = Len(more)
      BY <1>3
    <3>1. m \in 0..c /\ (truncated' <=> m < c)
      BY <1>3
    <3>2. m < c \/ m = c
      BY <3>1
    <3> QED
      BY <3>1, <3>2
  <2>10. ExpansionSoFar(T, S)'
    BY <1>1, <1>3, <1>12, <2>2, <2>3, <2>7, <2>8, <2>9 DEF ExpansionSoFar
  <2> QED
    BY <1>11, <2>10
<1>15. OnItsWay'
  BY <1>14 DEF OnItsWay
<1> QED
  BY <1>9, <1>10, <1>13, <1>15 DEF GraphSound

\* The walks found are the next frontier.
LEMMA NextHopSound == ASSUME GraphSound, NextHop PROVE GraphSound'
<1>1. /\ expanding = "walking" /\ ~truncated /\ frontier = <<>> /\ hop < query.maxHops
      /\ hop' = hop + 1 /\ frontier' = ahead /\ ahead' = <<>>
      /\ graph' = graph /\ granted' = granted /\ query' = query /\ paths' = paths
      /\ truncated' = truncated /\ answered' = answered /\ expanding' = expanding
  BY DEF NextHop
<1>2. GraphTypeOK
  BY DEF GraphSound
<1>3. ahead \in Seq(Walk) /\ paths \in Seq(Walk)
  BY <1>2 DEF GraphTypeOK
<1>4. /\ graph \in [Relation -> Edge] /\ query \in Queries
      /\ hop \in 1..query.maxHops /\ Len(paths) <= query.maxPaths
      /\ Visible(query.seeds) \subseteq answered
  BY <1>1 DEF GraphSound, QueryUnderWay
<1>5. query.maxHops \in 1..2
  <2> PICK q \in Queries : q = query
    BY <1>4
  <2> QED
    BY QueryParts
<1>6. hop \in Nat \ {0} /\ hop' \in 1..3 /\ hop' \in 1..query.maxHops
  BY <1>1, <1>4, <1>5
<1>7. GraphTypeOK'
  <2>1. <<>> \in Seq(Walk)
    OBVIOUS
  <2> QED
    BY <1>1, <1>2, <1>3, <1>6, <2>1 DEF GraphTypeOK
<1>8. NothingFound' /\ ExpansionEnds'
  BY <1>1 DEF NothingFound, ExpansionEnds
<1>9. /\ Visible(query.seeds)' = Visible(query.seeds) /\ Links' = Links
      /\ Rechecked' = Rechecked
  <2>1. Visible(query.seeds)' = Visible(query.seeds) /\ Rechecked' = Rechecked
    BY <1>1 DEF Visible, Rechecked
  <2>2. Links' = Links
    BY <1>1 DEF Links, LeadsTo
  <2> QED
    BY <2>1, <2>2
<1>10. QueryUnderWay'
  BY <1>1, <1>4, <1>6, <1>9 DEF QueryUnderWay
<1>11. ASSUME Rechecked PROVE ExpansionSoFar(Links, Visible(query.seeds))'
  <2> PICK T : T = Links
    OBVIOUS
  <2> PICK S : S = Visible(query.seeds)
    OBVIOUS
  <2> PICK h \in Nat \ {0} : h = hop
    BY <1>6
  <2>1. ExpansionSoFar(T, S)
    BY <1>1, <1>11 DEF GraphSound, OnItsWay
  <2>2. FoundIsAll(T, S, h, <<>>, ahead, paths)
    BY <1>1, <2>1 DEF ExpansionSoFar
  <2>3. FrontierIsLast(T, S, h + 1, ahead) /\ FoundIsAll(T, S, h + 1, ahead, <<>>, paths)
    BY <1>3, <2>2, HopsGoOn
  <2>4. ExpansionSoFar(T, S)'
    BY <1>1, <2>1, <2>3 DEF ExpansionSoFar
  <2> QED
    BY <1>9, <2>4
<1>12. OnItsWay'
  BY <1>9, <1>11 DEF OnItsWay
<1> QED
  BY <1>7, <1>8, <1>10, <1>12 DEF GraphSound

\* The answer is the expansion's as long as all of it is still seen.
LEMMA AnswerExpansionSound == ASSUME GraphSound, AnswerExpansion PROVE GraphSound'
<1>1. /\ expanding = "walking" /\ (truncated \/ (frontier = <<>> /\ hop = query.maxHops))
      /\ expanding' = (IF Rechecked THEN "answered" ELSE "refused")
      /\ UNCHANGED <<graph, granted, query, frontier, ahead, hop, paths, truncated, answered>>
  BY DEF AnswerExpansion
<1>2. /\ Visible(query.seeds)' = Visible(query.seeds) /\ Links' = Links
      /\ Rechecked' = Rechecked
  <2>1. Visible(query.seeds)' = Visible(query.seeds) /\ Rechecked' = Rechecked
    BY <1>1 DEF Visible, Rechecked
  <2>2. Links' = Links
    BY <1>1 DEF Links, LeadsTo
  <2> QED
    BY <2>1, <2>2
<1>3. GraphTypeOK'
  BY <1>1 DEF GraphSound, GraphTypeOK
<1>4. NothingFound' /\ QueryUnderWay'
  BY <1>1, <1>2 DEF GraphSound, NothingFound, QueryUnderWay
<1>5. ExpansionEnds'
  BY <1>1, <1>2 DEF ExpansionEnds
<1>6. OnItsWay'
  <2> PICK T : T = Links
    OBVIOUS
  <2> PICK S : S = Visible(query.seeds)
    OBVIOUS
  <2>1. ASSUME Rechecked PROVE ExpansionSoFar(T, S)'
    <3>1. ExpansionSoFar(T, S)
      BY <1>1, <2>1 DEF GraphSound, OnItsWay
    <3> QED
      BY <1>1, <3>1 DEF ExpansionSoFar
  <2> QED
    BY <1>2, <2>1 DEF OnItsWay
<1> QED
  BY <1>3, <1>4, <1>5, <1>6 DEF GraphSound

\* A scope that is no longer seen spoils no answer that is still seen.
LEMMA LapseSound == ASSUME GraphSound, NEW s \in Scope, Lapse(s) PROVE GraphSound'
<1>1. /\ expanding # "answered" /\ granted' = granted \ {s}
      /\ UNCHANGED <<graph, query, frontier, ahead, hop, paths, truncated, answered, expanding>>
  BY DEF Lapse
<1>2. granted' \subseteq granted /\ Links' = Links
  <2>1. Links' = Links
    BY <1>1 DEF Links, LeadsTo
  <2> QED
    BY <1>1, <2>1
<1>3. \A e : e \in Visible(query.seeds)' <=>
        e \in Visible(query.seeds) /\ ScopeOf[e] \in granted'
  BY <1>1, <1>2 DEF Visible
<1>4. GraphTypeOK'
  BY <1>1, <1>2 DEF GraphSound, GraphTypeOK
<1>5. NothingFound' /\ ExpansionEnds'
  BY <1>1 DEF GraphSound, NothingFound, ExpansionEnds
<1>6. QueryUnderWay'
  BY <1>1, <1>3 DEF GraphSound, QueryUnderWay
<1>7. ASSUME expanding # "idle", Rechecked'
      PROVE  ExpansionSoFar(Links, Visible(query.seeds))'
  <2> PICK T : T = Links
    OBVIOUS
  <2> PICK S : S = Visible(query.seeds)
    OBVIOUS
  <2>1. Rechecked /\ \A e \in answered : ScopeOf[e] \in granted'
    BY <1>1, <1>2, <1>7, SeenBefore
  <2>2. S \subseteq answered
    BY <1>7 DEF GraphSound, QueryUnderWay
  <2>3. Visible(query.seeds)' = S
    BY <1>3, <2>1, <2>2
  <2>4. ExpansionSoFar(T, S)
    BY <1>7, <2>1 DEF GraphSound, OnItsWay
  <2>5. ExpansionSoFar(T, S)'
    BY <1>1, <2>4 DEF ExpansionSoFar
  <2> QED
    BY <1>2, <2>3, <2>5
<1>8. OnItsWay'
  BY <1>1, <1>7 DEF OnItsWay
<1> QED
  BY <1>4, <1>5, <1>6, <1>8 DEF GraphSound

\* Every step leaves the expansion sound.
LEMMA GraphStepSound == GraphSound /\ [GraphNext]_graphVars => GraphSound'
<1> SUFFICES ASSUME GraphSound, [GraphNext]_graphVars PROVE GraphSound'
  OBVIOUS
<1>1. CASE \E q \in Queries : Expand(q)
  BY <1>1, ExpandSound
<1>2. CASE WalkOn
  BY <1>2, WalkOnSound
<1>3. CASE NextHop
  BY <1>3, NextHopSound
<1>4. CASE AnswerExpansion
  BY <1>4, AnswerExpansionSound
<1>5. CASE \E s \in Scope : Lapse(s)
  BY <1>5, LapseSound
<1>6. CASE UNCHANGED graphVars
  <2>1. UNCHANGED <<graph, granted, query, frontier, ahead, hop, paths, truncated,
                    answered, expanding>>
    BY <1>6 DEF graphVars
  <2>2. GraphTypeOK' /\ NothingFound' /\ QueryUnderWay' /\ ExpansionEnds'
    BY <2>1 DEF GraphSound, GraphTypeOK, NothingFound, QueryUnderWay, ExpansionEnds,
                Rechecked, Visible
  <2>3. OnItsWay'
    BY <2>1 DEF GraphSound, OnItsWay, ExpansionSoFar, Rechecked, Visible, Links, LeadsTo
  <2> QED
    BY <2>2, <2>3 DEF GraphSound
<1> QED
  BY <1>1, <1>2, <1>3, <1>4, <1>5, <1>6 DEF GraphNext

-------------------------------------------------------------------------------
(* Expansions: what is delivered *)

\* A path from entities that are seen visits only such.
LEMMA PathsAreSeen ==
  ASSUME NEW T, AreLinks(T), NEW S, \A e \in S : ScopeOf[e] \in granted,
         NEW k \in Nat, NEW w \in PathsOf(T, S, k)
  PROVE  \A n \in 1..k + 1 : ScopeOf[w.nodes[n]] \in granted
<1>1. /\ w.nodes[1] \in S /\ w.nodes \in [1..k + 1 -> Entity]
      /\ w.relations \in [1..k -> Relation]
      /\ \A n \in 1..k : <<w.relations[n], w.nodes[n], w.nodes[n + 1]>> \in T
  BY DEF PathsOf
<1> SUFFICES ASSUME NEW n \in 1..k + 1 PROVE ScopeOf[w.nodes[n]] \in granted
  OBVIOUS
<1> DEFINE Good == {m \in Nat : m \in 0..k => ScopeOf[w.nodes[m + 1]] \in granted}
<1>2. Good \in SUBSET Nat
  OBVIOUS
<1> PICK z \in Nat : z = 0
  OBVIOUS
<1>3. 0 \in Good
  BY <1>1
<1>4. ASSUME NEW m \in 1..n - 1, m - 1 \in Good PROVE m \in Good
  <2>1. m \in Nat /\ m - 1 \in 0..k /\ m \in 1..k /\ m \in 1..k + 1 /\ m + 1 \in 1..k + 1
        /\ (m - 1) + 1 = m
    OBVIOUS
  <2>2. ScopeOf[w.nodes[m]] \in granted
    BY <1>4, <2>1
  <2>3. PICK r, e, f : r = w.relations[m] /\ e = w.nodes[m] /\ f = w.nodes[m + 1]
    OBVIOUS
  <2>4. r \in Relation /\ e \in Entity /\ f \in Entity /\ <<r, e, f>> \in T
    BY <1>1, <2>1, <2>3
  <2>5. ScopeOf[e] = ScopeOf[f]
    BY <2>4 DEF AreLinks
  <2> QED
    BY <2>1, <2>2, <2>3, <2>5
<1>5. n - 1 \in Nat /\ n - 1 \in 0..k /\ (n - 1) + 1 = n
  OBVIOUS
<1>6. n - 1 \in Good
  <2> HIDE DEF Good
  <2> QED
    BY <1>2, <1>3, <1>4, <1>5, CountUp
<1> QED
  BY <1>5, <1>6

\* From seeds that are seen, the reference is the paths.
LEMMA ReferenceIsPaths ==
  ASSUME graph \in [Relation -> Edge], query \in Queries,
         NEW S, S = Visible(query.seeds), NEW H \in Nat, H = query.maxHops
  PROVE  AllPaths = PathsUpTo(Links, S, H)
<1> PICK T : T = Links
  OBVIOUS
<1>1. AreLinks(T) /\ \A e \in S : ScopeOf[e] \in granted
  BY LinksOfGraph DEF Visible
<1>2. Visible(Entity) \subseteq Entity
  BY DEF Visible
<1> PICK seen : seen = Visible(Entity)
  OBVIOUS
<1> DEFINE Some(k) == {w \in [nodes : [1..k + 1 -> seen], relations : [1..k -> Relation]] :
                         IsPath(w.nodes, w.relations)}
<1>3. \A w : w \in AllPaths <=> \E k \in 1..H : w \in Some(k)
  BY DEF AllPaths
<1>4. ASSUME NEW k \in 1..H, NEW w PROVE w \in Some(k) <=> w \in PathsOf(T, S, k)
  <2>1. k \in Nat
    OBVIOUS
  <2>2. ASSUME NEW v \in [nodes : [1..k + 1 -> Entity], relations : [1..k -> Relation]]
        PROVE  IsPath(v.nodes, v.relations) <=> v \in PathsOf(T, S, k)
    <3> PICK nodes, relations : nodes = v.nodes /\ relations = v.relations
      OBVIOUS
    <3>1. /\ nodes \in [1..k + 1 -> Entity] /\ relations \in [1..k -> Relation]
          /\ DOMAIN nodes = 1..k + 1 /\ DOMAIN relations = 1..k
      OBVIOUS
    <3>2. \A n \in 1..k : n \in 1..k + 1 /\ n + 1 \in 1..k + 1
      BY <2>1
    <3>3. \A n \in 1..k : LeadsTo(relations[n], nodes[n], nodes[n + 1]) <=>
                            <<relations[n], nodes[n], nodes[n + 1]>> \in T
      BY <3>1, <3>2 DEF Links
    <3> QED
      BY <3>1, <3>3 DEF IsPath, PathsOf
  <2>3. ASSUME w \in Some(k) PROVE w \in PathsOf(T, S, k)
    <3>1. w \in [nodes : [1..k + 1 -> Entity], relations : [1..k -> Relation]]
      BY <1>2, <2>3
    <3> QED
      BY <2>2, <2>3, <3>1
  <2>4. ASSUME w \in PathsOf(T, S, k) PROVE w \in Some(k)
    <3>1. /\ w \in [nodes : [1..k + 1 -> Entity], relations : [1..k -> Relation]]
          /\ w = [nodes |-> w.nodes, relations |-> w.relations]
          /\ w.nodes \in [1..k + 1 -> Entity] /\ w.relations \in [1..k -> Relation]
      BY <2>4 DEF PathsOf
    <3>2. \A n \in 1..k + 1 : ScopeOf[w.nodes[n]] \in granted
      BY <1>1, <2>1, <2>4, PathsAreSeen
    <3>3. w.nodes \in [1..k + 1 -> seen]
      BY <3>1, <3>2 DEF Visible
    <3> QED
      BY <2>2, <2>4, <3>1, <3>3
  <2> QED
    BY <2>3, <2>4
<1> HIDE DEF Some
<1>5. \A w : w \in PathsUpTo(T, S, H) <=> \E k \in 1..H : w \in PathsOf(T, S, k)
  BY PathsByLength
<1> QED
  BY <1>3, <1>4, <1>5

\* A delivered expansion is the reference.
LEMMA SoundExpansions == GraphSound => ExpansionIsReference
<1> SUFFICES ASSUME GraphSound, expanding = "answered" PROVE ExpansionIsReference
  BY DEF ExpansionIsReference
<1>1. /\ graph \in [Relation -> Edge] /\ query \in Queries
      /\ hop \in 1..query.maxHops /\ Len(paths) <= query.maxPaths
  BY DEF GraphSound, QueryUnderWay
<1>2. /\ frontier \in Seq(Walk) /\ ahead \in Seq(Walk) /\ paths \in Seq(Walk)
      /\ truncated \in BOOLEAN
  BY DEF GraphSound, GraphTypeOK
<1>3. Rechecked /\ (truncated \/ (frontier = <<>> /\ hop = query.maxHops))
  BY DEF GraphSound, ExpansionEnds
<1>4. query.maxHops \in Nat /\ hop \in Nat \ {0}
  <2> PICK q \in Queries : q = query
    BY <1>1
  <2>1. q.maxHops \in 1..2
    BY QueryParts
  <2>2. q.maxHops \in Nat
    BY <2>1
  <2> QED
    BY <1>1, <2>2
<1> PICK H \in Nat : H = query.maxHops
  BY <1>4
<1> PICK S : S = Visible(query.seeds)
  OBVIOUS
<1> PICK T : T = Links
  OBVIOUS
<1> PICK h \in Nat \ {0} : h = hop
  BY <1>4
<1> PICK all : all = PathsUpTo(T, S, H)
  OBVIOUS
<1>5. AllPaths = all
  BY <1>1, ReferenceIsPaths
<1>6. ExpansionSoFar(T, S)
  BY <1>3 DEF GraphSound, OnItsWay
<1>7. /\ FoundAreFirst(T, S, H, paths)
      /\ ~truncated => FoundIsAll(T, S, h, frontier, ahead, paths)
      /\ truncated => Len(paths) = query.maxPaths /\ ToSet(paths) # all
      /\ answered = NodesOf(S, paths)
  BY <1>6 DEF ExpansionSoFar
<1>8. /\ HaveRanks(all, paths)
      /\ IsFiniteSet(ToSet(paths)) /\ Cardinality(ToSet(paths)) = Len(paths)
  BY <1>2, <1>7, FirstHaveTheirRank
<1>9. IsFiniteSet(all) /\ ToSet(paths) \subseteq all
  <2>1. AreLinks(T)
    BY <1>1, LinksOfGraph
  <2> QED
    BY <1>7, <2>1, AllPathsAreFinite DEF FoundAreFirst
<1>10. CASE truncated
  <2>1. Cardinality(ToSet(paths)) < Cardinality(all)
    <3>1. ToSet(paths) # all
      BY <1>7, <1>10
    <3>2. /\ Cardinality(ToSet(paths)) <= Cardinality(all)
          /\ Cardinality(ToSet(paths)) = Cardinality(all) => ToSet(paths) = all
      BY <1>9, FS_Subset
    <3>3. Cardinality(ToSet(paths)) \in Nat /\ Cardinality(all) \in Nat
      BY <1>8, <1>9, FS_CardinalityType
    <3> QED
      BY <3>1, <3>2, <3>3
  <2>2. Cardinality(all) > Len(paths)
    <3>1. Cardinality(ToSet(paths)) \in Nat /\ Cardinality(all) \in Nat
      BY <1>8, <1>9, FS_CardinalityType
    <3> QED
      BY <1>8, <2>1, <3>1
  <2> QED
    BY <1>1, <1>5, <1>7, <1>8, <1>10, <2>2 DEF ExpansionIsReference, HaveRanks, NodesOf
<1>11. CASE ~truncated
  <2>1. frontier = <<>> /\ h = H /\ FoundIsAll(T, S, h, <<>>, ahead, paths)
    BY <1>3, <1>7, <1>11
  <2>2. ToSet(paths) = PathsUpTo(T, S, h)
    BY <1>2, <2>1, HopsGoOn
  <2>3. Cardinality(all) = Len(paths)
    BY <1>8, <2>1, <2>2
  <2> QED
    BY <1>1, <1>5, <1>7, <1>8, <1>11, <2>3 DEF ExpansionIsReference, HaveRanks, NodesOf
<1> QED
  BY <1>2, <1>10, <1>11

\* SqlGraph.expand: whatever the graph, a delivered expansion is the first maxPaths of
\* all the simple paths from the seeds that are seen, in their order, and it says
\* truncated exactly if there are more, though memberships expired on the way.
THEOREM ExpansionsAreReference == GraphSpec => []ExpansionIsReference
<1>1. GraphInit => GraphSound
  BY GraphInitSound
<1>2. GraphSound /\ [GraphNext]_graphVars => GraphSound'
  BY GraphStepSound
<1>3. GraphSound => ExpansionIsReference
  BY SoundExpansions
<1> QED
  BY <1>1, <1>2, <1>3, PTL DEF GraphSpec
===============================================================================
