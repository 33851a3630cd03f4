SPECIFICATION Spec
CONSTANTS
  RADIX = 16
  SYMBOLS = 8
  DIGITS = 4
  VOPRF_P384_SHA384 = 1
  BLIND_RSA = 2
  PARTIALLY_BLIND_RSA = 18
  VOPRF_RISTRETTO255_SHA512 = 5
  DigestSize = 1
  ProofSize = 1
  MaxOriginEntries = 3
  MaxBatchSize = 3
  CommaByte = 12
  MaxAgeLimit = 13
  KnownType <- Types
  authenticator_size <- Sizes
  blinded_element_size <- Sizes
  Message <- Messages
  Issuer <- RsaIssuer
  Note <- Notes
  Query <- Queries
CHECK_DEADLOCK FALSE
INVARIANTS
  
  TruncationDetected
  Canonical
  
  
  AnswersStayInPlace
  ScopesGrantWhatTheyMean
