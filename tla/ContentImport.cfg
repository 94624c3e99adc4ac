CONSTANTS
  a = a
  b = b
  c = c
  Runs = {a, b, c}
  None = None
  Jobs <- SmallJobs
  Normal <- Lower
  Limits <- SmallLimits
SPECIFICATION Spec
INVARIANTS VerdictIsTruthful PublishedCanBePlayed
CHECK_DEADLOCK FALSE
