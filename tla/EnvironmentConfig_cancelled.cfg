SPECIFICATION Spec
CONSTANTS
  studio = studio
  hdr = hdr
  NoEnvironment = NoEnvironment
  Environments = {studio, hdr}
  MaxInputs = 2
INVARIANT EnvironmentIsAttempted
CHECK_DEADLOCK FALSE
