--------------------------- MODULE HistoryContract ---------------------------
(***************************************************************************)
(* What the histories of assertions promise to the clients that write      *)
(* them, with neither clocks, intervals nor stored results: an append-only *)
(* log per assertion, in which a request takes effect at most once, on the *)
(* revision it expects, and which is erased as a whole together with the   *)
(* objects its entries cite.                                               *)
(***************************************************************************)
EXTENDS Naturals, Sequences

CONSTANTS Assertion, Source, Operation, Key, None

VARIABLES
  log,   \* Assertion -> the requests that wrote its revisions, in order
  used,  \* the idempotency keys of the requests that took effect
  gone   \* the assertions and sources that were purged

vars == <<log, used, gone>>

Init ==
  /\ log = [a \in Assertion |-> << >>]
  /\ used = {}
  /\ gone = {}

\* The entry that op and k append to a: the first one made the assertion.
Entry(a, op, k, cites) ==
  [op |-> op, key |-> k, expected |-> Len(log[a]), cites |-> cites,
   memory |-> IF log[a] = << >> THEN None ELSE a]

Write(op, k) ==
  /\ <<op, k>> \notin used
  /\ used' = used \cup {<<op, k>>}
  /\ \E a \in Assertion \ gone, cites \in (SUBSET Source) \ {{}} :
       /\ cites \cap gone = {}
       /\ log' = [log EXCEPT ![a] = Append(@, Entry(a, op, k, cites))]
  /\ UNCHANGED gone

\* Whatever cites an erased object is erased with it, back to its first entry.
Erase(objects) ==
  /\ gone' = gone \cup objects
  /\ UNCHANGED used
  /\ \A a \in Assertion \ objects : \A i \in DOMAIN log[a] :
       log[a][i].cites \cap objects = {}
  /\ log' = [a \in Assertion |-> IF a \in objects THEN << >> ELSE log[a]]

Next ==
  \/ \E op \in Operation, k \in Key : Write(op, k)
  \/ \E objects \in SUBSET (Assertion \cup Source) : Erase(objects)

Spec == Init /\ [][Next]_vars
==============================================================================
