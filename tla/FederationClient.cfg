CONSTANTS
  Nodes = {n1}
  Stations = {n1}
  NodeTimeout = 1
  MaintainEvery = 1
  StationTTL = 2
  MaxFailures = 2
  RegisterEvery = 2
  Horizon = 8
  ExpireAfter = 2
  ExpireEvery = 2
  ReadTimeout = 1
SPECIFICATION ClientSpec
INVARIANT ClientTypeOK 
