SPECIFICATION Spec
CONSTANTS
  Operation = {o1}
  Branch = {b1, b2}
  Harness = {h1, h2}
  None = None
  MaxEffects = 1
  MaxHints = 0
  MaxCheckpoints = 4
  MaxMark = 1
SYMMETRY Symmetric
INVARIANTS BranchesAreChains HeadsAreExclusive
CHECK_DEADLOCK FALSE
