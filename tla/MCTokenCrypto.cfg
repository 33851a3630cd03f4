SPECIFICATION Spec
CONSTANTS
  Prime = 83
  CurveB = 24
  Order = 30011
  Power <- SmallPower
  Digest <- SmallDigest
  VOPRF = VOPRF
  BLIND_RSA = BLIND_RSA
  Session = {s1, s2}
  Salt = {1}
  Encoded <- SmallEncoded
  Inputs <- SomeInputs
  Key <- SomeKeys
  ClientKey <- OneKey
  Randomness = {0, 7}
  MaxAnswers = 2
CHECK_DEADLOCK FALSE
INVARIANTS
  TypeOK
  FinalizedVerifies
  OnlyOwnAnswerAccepted
  OwnAnswerFinalizes
  MapFollowsDefinition
