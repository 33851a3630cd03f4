SPECIFICATION Spec
CONSTANTS
  c1 = c1
  k1 = k1
  v1 = v1
  i1 = i1
  here = here
  elsewhere = elsewhere
  Undigestible = Undigestible
  Garbage = Garbage
  Nonce = {n1, n2, n3}
  Challenge = {c1}
  Key = {k1, v1}
  Thread = {t1, t2}
  Issuer = {i1}
  PublicKey <- PublishedKeys
  TokenChallenge <- Challenges
  kind <- KindOf
  origin_name = here
  max_cached_tokens = 1
  MaxKeys = 2
  MaxBatch = 2
SYMMETRY Symmetry
INVARIANTS
  TypeOK
  HeldTokensAreGenuine
  NoTokenInTwoPlaces
  FindsRequestKey
