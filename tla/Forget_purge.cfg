SPECIFICATION Spec
CONSTANTS
  MaxId = 4
  Branch = {b1, b2}
  None = None
  MaxClosure = 10
  MaxRoots = 2
SYMMETRY Symmetric
INVARIANTS TypeOK NeverRefused ReceiptsAreTrueUntilExpiry NothingOutlives
CHECK_DEADLOCK FALSE
