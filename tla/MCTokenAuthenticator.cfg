SPECIFICATION Spec
CONSTANTS
  Nonce = {n1, n2, n3}
  Challenge = {c1}
  Key = {k1, k2}
  Undigestible = Undigestible
  Issuer = {i1}
  VoprfKey = {v1}
  c1 = c1
  k1 = k1
  k2 = k2
  Token <- Presented
  replay_window = 2
  max_size = 2
  MaxNow = 5
SYMMETRY NonceSymmetry
INVARIANTS
  TypeOK
  IndexesAgree
  CapHolds
  RefusesReplay
  ReplayedImpliesRedeemed
PROPERTIES
  ImplementsReplayGuard
