\* Two listeners and one reader, with channels of one item that fill up.
CONSTANTS
  l1 = l1  l2 = l2
  r1 = r1
  Listeners = {l1, l2}
  Readers = {r1}
  RingSize = 1
  Burst = 1
  Cap = 1
  MaxChunks = 1
  Surrogates <- NoSurrogates
  Fmp4 = TRUE
SPECIFICATION Spec
SYMMETRY Symmetry
INVARIANTS OpenWhileListed NoDoubleClose StreamingIsServed
CHECK_DEADLOCK FALSE
