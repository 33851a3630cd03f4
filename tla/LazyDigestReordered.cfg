SPECIFICATION Spec
CONSTANTS
  Thread = {t1, t2}
  Part = {"low", "high"}
  InProgramOrder = FALSE
INVARIANT ReturnsTheDigest
