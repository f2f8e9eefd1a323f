\* An HLS stream and a direct stream of two attempts, one owner's request to
\* start and one to stop.
CONSTANTS
  t1 = t1  t2 = t2  o1 = o1  d1 = d1
  Streams = {t1, t2}
  Hls = {t1}
  MaxRetries = 2
  Owners = {o1}
  Monitor = monitor
  Stoppers = {d1}
  Sources <- Pipes
  Closable <- Pipes
  None = None
  DbFails = TRUE
SPECIFICATION FairSpec
INVARIANTS TypeOK NoDeadEntry OnlineIsOwed WriterIsRead MonitorObeys
PROPERTIES CancelledEnds Settles
