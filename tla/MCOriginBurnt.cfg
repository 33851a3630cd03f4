SPECIFICATION Spec
CONSTANTS
  c1 = c1
  k1 = k1
  k2 = k2
  n1 = n1
  n2 = n2
  Nonce = {n1, n2}
  Challenge = {c1}
  Key = {k1, k2}
  Undigestible = Undigestible
  Thread = {t1, t2}
  Token <- Presented
  window_seconds = 2
  max_size = 1
  ClockRate = 1
  MaxNow = 3
  truncated <- OneByte
  MaxKeys = 2
SYMMETRY ThreadSymmetry
INVARIANT ReplayedImpliesRedeemed
