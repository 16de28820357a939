CONSTANTS
  j1 = j1  j2 = j2  j3 = j3  w1 = w1  w2 = w2  p1 = p1  p2 = p2
  i1 = i1  i2 = i2  s1 = s1  s2 = s2
  Job = {j1, j2}
  Worker = {w1, w2}
  Principal = {p1}
  Intent = {i1, i2}
  Source = {s1, s2}
  None = None
  RunsAs <- OneOwner
  Cites <- TwoIntents
  MaxAttempt = 2
  Quota = 2
  LeaseSpan = 2
  MaxDelay = 1
  MaxEpoch = 1
SYMMETRY Symmetric
SPECIFICATION Spec
INVARIANTS TypeOK ResultOfLastClaim NothingFromErased
PROPERTIES PublishesInItsEpoch OnlyLeaseholderDecides
