\* Three requests at a time, of every kind, over two seconds; a message counts
\* as timely for a second, three failures within half a second block for as long.
CONSTANTS
  r1 = r1  r2 = r2  r3 = r3  m1 = m1  m2 = m2  n1 = n1  n2 = n2  other = other  node = node
  Known = Known  Key = Key  Bad = Bad  None = None  Here = Here  Mount = Mount
  Requests = {r1, r2, r3}
  Messages = {m1, m2}
  Genuine = {m1}
  Stamp <- Stamped
  Nonces = {n1, n2, other}
  Decoded <- Spelled
  Acts <- AllActs
  Arrivals <- Scenarios
  Window = 1
  Threshold = 3
  ReplayFailures = 2
  FailWindow = 1
  BlockTime = 1
  TrackerLife = 2
  TokenLife = 1
  CookieLife = 4
  MaxTime = 4
  Founder = Known
  Mounts = {Mount}
  Nodes = {node}
  Subnet <- Subnets
SPECIFICATION Spec
INVARIANTS NonceOnce BlockIsEarned TokenOnce OneVotePerAddress OwnersDoNotVote LostUpdateNeedsOverlap
CHECK_DEADLOCK FALSE
