SPECIFICATION SafetySpec
CONSTANTS
  A = A
  B = B
  C = C
  t1 = t1
  TokenOfC = NoToken
  NoLoad = NoLoad
  NoToken = NoToken
  Loads = {A, B, C}
  Tokens = {t1}
  TokenOf <- MCTokenOf
PROPERTY
  PreCancelledDoesNotSupersede
