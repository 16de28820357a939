------------------------------ MODULE ContextPack ------------------------------
(***************************************************************************)
(* The context of a recall (service.py): the rows that were found, the     *)
(* required ones first, are packed one by one into a JSON text under a     *)
(* budget of bytes.  The text states its own length, which is part of it,  *)
(* so the count is repeated until it is right.  A row is known by what its *)
(* line adds to the length; the ranking that ordered the rows is text and  *)
(* vector search inside PostgreSQL.                                        *)
(***************************************************************************)
EXTENDS Integers, Sequences, FiniteSets, Outcomes

CONSTANTS
  Frame,       \* length of the pack without its text and its count
  Header,      \* length of the line that starts every text
  LineSizes,   \* what the lines of rows add
  MaxRows,     \* bound on the rows that are found
  Budgets,     \* token_budget
  ItemLimits   \* max_items

ASSUME ContextAssumption ==
  /\ Frame \in Nat \ {0} /\ Header \in Nat
  /\ LineSizes \subseteq Nat /\ Budgets \subseteq Nat /\ ItemLimits \subseteq Nat \ {0}
  /\ MaxRows \in Nat

VARIABLES
  found,       \* the sizes of the rows found, in order
  recall,      \* [budget, limit, required] of the request
  next,        \* the row to be considered
  pack,        \* [text, count] of the pack so far
  selected,    \* the rows in it
  omitted,     \* whether a row was left out for the budget
  packing      \* "idle", "packing", "refused", "packed"

contextVars == <<found, recall, next, pack, selected, omitted, packing>>

RecallRequest == [budget : Budgets, limit : ItemLimits, required : 0..MaxRows]

NoRecall == [budget |-> 0, limit |-> 0, required |-> 0]

\* The types of the request and of the pack.
ContextTypeOK ==
  /\ found \in Seq(LineSizes) /\ Len(found) <= MaxRows
  /\ recall \in RecallRequest \cup {NoRecall}
  /\ next \in 1..MaxRows + 1
  /\ pack \in [text : Nat, count : Nat]
  /\ selected \subseteq 1..MaxRows
  /\ omitted \in BOOLEAN
  /\ packing \in {"idle", "packing", "refused", "packed"}

ContextInit ==
  /\ found = <<>>
  /\ recall = NoRecall
  /\ next = 1
  /\ pack = [text |-> 0, count |-> 0]
  /\ selected = {}
  /\ omitted = FALSE
  /\ packing = "idle"

-------------------------------------------------------------------------------
Digits[n \in Nat] == IF n < 10 THEN 1 ELSE 1 + Digits[n \div 10]

\* The length of the JSON of a pack that states this count.
Size(text, count) == Frame + text + Digits[count]

CountedTwice(text, count) == Size(text, Size(text, count))   \* mutant: two counts

\* The count is repeated three times more.
Counted(text, count) == Size(text, Size(text, Size(text, Size(text, count))))

\* The items: as many of the rows as were asked for.
Items == IF Len(found) < recall.limit THEN Len(found) ELSE recall.limit

With(n) == (IF pack.text = 0 THEN Header ELSE pack.text) + found[n]

\* A recall finds rows; Recall.implicit_budget keeps the required ones within the limit.
FindRows ==
  /\ packing = "idle"
  /\ \E n \in 0..MaxRows : found' \in [1..n -> LineSizes]
  /\ recall' \in {q \in RecallRequest : q.required <= Len(found') /\ q.required <= q.limit}
  /\ packing' = "packing"
  /\ UNCHANGED <<next, pack, selected, omitted>>

\* One row: into the pack if that stays within the budget; without it otherwise,
\* unless it is required (budget_exhausted).
ConsiderRow ==
  LET text  == With(next)
      count == Counted(text, pack.count)
  IN
  /\ packing = "packing"
  /\ next <= Items
  /\ next' = next + 1
  /\ IF count <= recall.budget
       THEN /\ pack' = [text |-> text, count |-> count]
            /\ selected' = selected \cup {next}
            /\ UNCHANGED <<omitted, packing>>
       ELSE /\ omitted' = TRUE
            /\ packing' = IF next <= recall.required THEN "refused" ELSE "packing"
            /\ UNCHANGED <<pack, selected>>
  /\ UNCHANGED <<found, recall>>

\* The last count, for a pack with no rows has none yet (budget_too_small).
FinishPack ==
  LET count == Counted(pack.text, pack.count) IN
  /\ packing = "packing"
  /\ next > Items
  /\ pack' = [pack EXCEPT !.count = count]
  /\ packing' = IF count > recall.budget THEN "refused" ELSE "packed"
  /\ UNCHANGED <<found, recall, next, selected, omitted>>

ContextNext ==
  \/ FindRows
  \/ ConsiderRow
  \/ FinishPack

ContextSpec == ContextInit /\ [][ContextNext]_contextVars

\* coverage.truncated of the answer.
Truncated == omitted \/ Len(found) > recall.limit

\* empty_reason when nothing was selected and the indexes are complete.
EmptyReason == IF Items > 0 THEN "budget_exhausted" ELSE "not_found"

\* What recall_hook.recall checks before it uses an answer.
HookAccepts ==
  /\ pack.count = Size(pack.text, pack.count)
  /\ pack.count <= recall.budget
  /\ Cardinality(selected) <= recall.limit

-------------------------------------------------------------------------------
\* The reference: the length of a pack of these rows is the least number that counts
\* itself.
LinesOf(rows) ==
  LET total[n \in 0..Len(found)] ==
        IF n = 0 THEN 0 ELSE total[n - 1] + IF n \in rows THEN found[n] ELSE 0
  IN total[Len(found)]

TextOf(rows) == IF rows = {} THEN 0 ELSE Header + LinesOf(rows)

LengthOf(rows) ==
  LET base == Frame + TextOf(rows)
      own  == {d \in 1..Digits[base] + 1 : Digits[base + d] = d}
  IN base + CHOOSE d \in own : \A c \in own : d <= c

\* build_context: a pack that is delivered has exactly the length it states, within
\* the budget, with every required row, so the hook accepts it; it says truncated
\* exactly if a row that was found is not in it, and an empty one says why; and a
\* recall is refused only if the rows it requires cannot be packed.
PackFits ==
  /\ packing = "packed" =>
       /\ HookAccepts
       /\ pack.count = LengthOf(selected)
       /\ 1..recall.required \subseteq selected
       /\ Truncated <=> selected # DOMAIN found
       /\ selected = {} => (EmptyReason = "not_found" <=> found = <<>>)
  /\ packing = "refused" => LengthOf(1..recall.required) > recall.budget
===============================================================================
