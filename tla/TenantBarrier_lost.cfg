CONSTANTS
  Session = {a, b}
  Item = {x}
  None = None
  SessionsDie = TRUE
  MaxEpoch = 1
SPECIFICATION Spec
INVARIANTS NoStaleDelivery
