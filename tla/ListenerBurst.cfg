\* One listener with a channel of one item, a ring of three slots that is
\* longer than a burst, and three chunks that two readers distribute at once.
CONSTANTS
  l1 = l1
  r1 = r1  r2 = r2
  Listeners = {l1}
  Readers = {r1, r2}
  RingSize = 3
  Burst = 2
  Cap = 1
  MaxChunks = 3
  Surrogates <- NoSurrogates
  Fmp4 = FALSE
SPECIFICATION FairSpec
INVARIANTS TypeOK PiecesInOrder NoHole
PROPERTY ClosedLeaves
CHECK_DEADLOCK FALSE
