CONSTANTS
  None = None
  Administrator = {a, b, c}
  Principal = {"p", "q"}
  Setting = {"full"}
  Provisioned <- FullForOne
  MaxAccessEpoch = 3
  Call = {a, b, c}
  Key = {k, l}
  Event = {"e", "f"}
  Content = {"c", "d"}
  Memory = {"m", "n"}
  Requests <- SomeRequests
  MaxOpenJobs = 2
  Row = {1, 2, 3}
  MaxTime = 2
  PageSize = 1
  Maintainer = {k, l}
  Runtime = {"old", "now"}
  Build <- OldAndNew
  Episode = {a, b, c}
  Latest = 3
  LexicalVersion = 2
  Entity = {1, 2, 3, 4}
  Relation = {1, 2, 3}
  Scope = {"a", "b"}
  ScopeOf <- TwoScopes
  Queries <- SomeQueries
  Frame = 157
  Header = 35
  LineSizes = {200, 403, 404, 405, 805}
  MaxRows = 3
  Budgets = {64, 158, 160, 800, 997, 998, 999, 1000, 1001, 1002, 1603, 2000}
  ItemLimits = {1, 2, 3}
  Inference = {1, 2}
  Azure = {2}
  Text = {"t", "u"}
  Model = {k, l}
  Vector = {k, l}
  MaxVectors = 1
SYMMETRY Symmetry
SPECIFICATION Spec
INVARIANTS AccessIsAccounted IntakeIsConsistent NobodyIsMisled PagesAgree
  LexiconComplete ExpansionIsReference PackFits
CHECK_DEADLOCK FALSE
