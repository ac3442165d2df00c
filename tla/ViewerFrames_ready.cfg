SPECIFICATION Spec
CONSTANTS
  p1 = p1
  p2 = p2
  Pointers = {p1}
  Policies = {"adaptive"}
  TailFrameCount = 1
  MaxInputs = 3
PROPERTY ReadyIsDisplayed
CHECK_DEADLOCK FALSE
