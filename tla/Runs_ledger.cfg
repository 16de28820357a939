SPECIFICATION Spec
CONSTANTS
  Operation = {o1, o2}
  Branch = {b1, b2}
  Harness = {h1}
  None = None
  MaxEffects = 2
  MaxHints = 1
  MaxCheckpoints = 2
  MaxMark = 0
SYMMETRY Symmetric
INVARIANTS TypeOK OperationOnce ResumeIsSafe
PROPERTIES RestoreFences ReceiptsStand
CHECK_DEADLOCK FALSE
