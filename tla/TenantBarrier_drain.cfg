CONSTANTS
  Session = {a, b, c}
  Item = {x, y}
  None = None
  SessionsDie = FALSE
  MaxEpoch = 2
SYMMETRY Symmetric
SPECIFICATION Spec
INVARIANTS Inductive NoStaleDelivery
PROPERTIES ContractSpec
