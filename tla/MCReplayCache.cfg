SPECIFICATION Spec
CONSTANTS
  Nonce = {n1, n2, n3}
  window_seconds = 2
  max_size = 1
  ClockRate = 2
  MaxNow = 11
SYMMETRY NonceSymmetry
INVARIANTS
  TypeOK
  IndexesAgree
  RemembersWindow
PROPERTIES
  CallReleasesExpired
  CapHoldsAfterFirstWindow
  ImplementsReplayGuard
