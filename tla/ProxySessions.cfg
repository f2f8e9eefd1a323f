\* Three clients of one station, and a limit that two of them reach.
CONSTANTS
  k1 = k1  a = a  b = b  c = c
  Keys = {k1}
  Clients = {a, b, c}
  MaxProxies = 2
  MaxPerIP = 2
  None = None
SPECIFICATION Spec
SYMMETRY Symmetry
INVARIANTS TypeOK SessionIsOwed LiveIsListed LimitNeedsOverlap
CHECK_DEADLOCK FALSE
