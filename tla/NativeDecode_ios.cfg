SPECIFICATION DecodeSpec
CONSTANTS
  r1 = r1
  r2 = r2
  w1 = w1
  t1 = t1
  t2 = t2
  NoRequest = NoRequest
  Requests = {r1, r2}
  Workers = {w1}
  QueueCapacity = 1
  MaxFinished = 1
  Platform = "ios"
  Threads = {t1, t2}
  Sizes = {1, 2}
  Limit = 3
  MaxReservations = 2
  Codec = "draco"
INVARIANTS
  LiveBytesAreExact
  PeakCovers
  OutcomeNamesReason
PROPERTIES
  KeepsByteLedger
  DecodeIsAnswered
  DetachCompletes
  StageEnds
CHECK_DEADLOCK FALSE
