\* A direct stream, an HLS stream and a source connection.
CONSTANTS
  t1 = t1  t2 = t2  d1 = d1
  Streams = {t1, t2}
  Hls = {t1}
  MaxRetries = 1
  Owners <- NoRequests
  Monitor = monitor
  Stoppers = {d1}
  connection = connection
  Sources <- PipesAndOne
  Closable <- Pipes
  None = None
  DbFails = TRUE
SPECIFICATION SharedSpec
INVARIANTS SharedOnlineIsOwed WriterLearns
