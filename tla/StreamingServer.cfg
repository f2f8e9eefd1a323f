\* A source request, an attempt of an external stream and a listener on two
\* paths, one source at a time allowed, and any number of crashes and restarts.
CONSTANTS
  p1 = p1  p2 = p2  c1 = c1  s1 = s1  l1 = l1
  Paths = {p1, p2}
  Connections = {c1, s1}
  Streams = {s1}
  Listeners = {l1}
  MaxSourceClients = 1
  Knows <- KnowsAll
  None = None
SPECIFICATION FairSpec
INVARIANTS OneMountpointPerPath LimitNeedsOverlap
PROPERTY RowsSettle
CHECK_DEADLOCK FALSE
