SPECIFICATION Spec
CONSTANTS
  MaxId = 4
  Branch = {b1, b2}
  None = None
  MaxClosure = 10
  MaxRoots = 1
SYMMETRY Symmetric
INVARIANTS ReceiptsAreTrue
CHECK_DEADLOCK FALSE
