CONSTANTS
  Session = {a, b, c}
  Item = {x}
  None = None
  SessionsDie = TRUE
  MaxEpoch = 1
SPECIFICATION FairSpec
PROPERTIES Isolated EveryRequestEnds
