SPECIFICATION Spec
CONSTANTS
  c1 = c1
  c2 = c2
  k1 = k1
  k2 = k2
  v1 = v1
  n1 = n1
  n2 = n2
  issuer = i1
  Undigestible = Undigestible
  Nonce = {n1, n2}
  Challenge = {c1, c2}
  Key = {k1, k2, v1}
  Thread = {t1}
  TokenChallenge <- Challenges
  kind <- KindOf
  truncated <- OneByte
  fits <- Fits
  max_cached_tokens = 1
  MaxBatch = 2
  MaxFiled = 2
  MaxRegistered = 1
INVARIANTS
  TypeOK
  ListsMatchIssuers
  
  AcceptedWhileTrusted
PROPERTIES
  Served
