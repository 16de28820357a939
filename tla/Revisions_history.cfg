\* Two assertions over two sources, three keys, up to three revisions: the fourth
\* instant is for the request that the limit refuses.
CONSTANTS
  Assertion = {a1, a2}
  Source = {s1, s2}
  Key = {k1, k2, k3}
  None = None
  MaxRevision = 3
  MaxCites = 1
  PageSize = 1
  MaxTime = 4
SPECIFICATION Spec
SYMMETRY Symmetry
INVARIANTS TypeOK OneRevisionAtATime EvidenceStands AnswersStand PagesJoinUp
PROPERTIES PastIsSettled ContractSpec
