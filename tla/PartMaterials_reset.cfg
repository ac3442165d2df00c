SPECIFICATION PartSafetySpec
CONSTANTS
  A = A
  B = B
  t1 = t1
  p1 = p1
  p2 = p2
  NoLoad = NoLoad
  NoToken = NoToken
  Loads = {A, B}
  Tokens = {t1}
  TokenOf <- MCTokenOf
  PartCalls = {p1, p2}
PROPERTY
  ResetRestoresOriginal
