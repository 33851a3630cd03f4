SPECIFICATION Spec
CONSTANTS
  Thread = {t1, t2, t3}
  Part = {"low", "high"}
  InProgramOrder = TRUE
INVARIANT ReturnsTheDigest
