SPECIFICATION Spec
CONSTANTS
  r1 = r1
  r2 = r2
  r3 = r3
  w1 = w1
  w2 = w2
  NoRequest = NoRequest
  Requests = {r1, r2, r3}
  Workers = {w1, w2}
  QueueCapacity = 1
  MaxFinished = 1
  Platform = "android"
SYMMETRY Symmetry
INVARIANTS
  TypeOK
  RepliesAtMostOnce
  AcknowledgedCancelHolds
  ControlsAreOwned
  CancelSentOnce
  CancelFindsRequest
PROPERTY KeepsPromise
CHECK_DEADLOCK FALSE
