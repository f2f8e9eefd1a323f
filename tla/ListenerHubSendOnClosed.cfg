CONSTANTS
  l1 = l1
  r1 = r1
  Listeners = {l1}
  Readers = {r1}
  RingSize = 2
  Burst = 2
  Cap = 2
  MaxChunks = 3
  Surrogates <- NoSurrogates
  Fmp4 = FALSE
SPECIFICATION Spec
INVARIANTS NoSendOnClosed
CHECK_DEADLOCK FALSE
