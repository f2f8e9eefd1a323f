CONSTANTS
  t1 = t1  t2 = t2  t3 = t3  o1 = o1
  Streams = {t1, t2, t3}
  Hls = {t1, t2, t3}
  MaxRetries = 1
  Owners = {o1}
  Monitor = monitor
  Stoppers <- NoRequests
  Sources <- Pipes
  Closable <- Pipes
  None = None
  DbFails = TRUE
SPECIFICATION Spec
INVARIANT NoDuplicates
CHECK_DEADLOCK FALSE
