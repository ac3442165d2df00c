SPECIFICATION Spec
CONSTANTS
  studio = studio
  hdr = hdr
  NoEnvironment = NoEnvironment
  Environments = {studio, hdr}
  MaxInputs = 2
INVARIANTS
  TypeOK
  AttemptIsReal
PROPERTIES
  NewModelIsConfigured
  NoStaleEnvironment
  DiagnosticsAreCurrent
  AttemptsSettle
CHECK_DEADLOCK FALSE
