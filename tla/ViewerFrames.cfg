SPECIFICATION Spec
CONSTANTS
  p1 = p1
  p2 = p2
  Pointers = {p1, p2}
  Policies = {"adaptive", "whileInteracting"}
  TailFrameCount = 2
  MaxInputs = 5
INVARIANTS
  TypeOK
  RequestedFrameIsScheduled
  InteractionRenders
PROPERTIES
  PausesWhenStatic
  ErrorIsDisplayed
CHECK_DEADLOCK FALSE
