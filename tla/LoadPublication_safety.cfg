SPECIFICATION SafetySpec
CONSTANTS
  A = A
  B = B
  C = C
  t1 = t1
  TokenOfC = t1
  NoLoad = NoLoad
  NoToken = NoToken
  Loads = {A, B, C}
  Tokens = {t1}
  TokenOf <- MCTokenOf
INVARIANTS
  TypeOK
  SuccessIsCoherent
  PublicationIsExclusive
  LoadingIsAlive
  CancellationIsCoherent
PROPERTY
  ImplementsSlot
