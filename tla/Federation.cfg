CONSTANTS
  Nodes = {n1, n2}
  Stations = {n1}
  NodeTimeout = 1
  MaintainEvery = 1
  StationTTL = 5
  MaxFailures = 2
  RegisterEvery = 2
  Horizon = 7
SPECIFICATION Spec
INVARIANT DeadIsDropped GoneIsDelisted UpIsListed
