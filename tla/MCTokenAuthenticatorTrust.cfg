SPECIFICATION Spec
CONSTANTS
  Nonce = {n1}
  Challenge = {c1}
  Key = {k1, k2}
  Undigestible = Undigestible
  Issuer = {i1, i2}
  VoprfKey = {v1}
  c1 = c1
  k1 = k1
  k2 = k2
  Token <- Presented
  replay_window = 1
  max_size = 1
  MaxNow = 1
INVARIANT ValidOnlyUnderTrustedIssuer
