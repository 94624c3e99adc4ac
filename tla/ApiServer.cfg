CONSTANTS
  Processes = {p}
  k1 = k1
  k2 = k2
  k3 = k3
  a = a
  b = b
  Ids = {a, b}
  None = None
  Unset = Unset
  Refused = Refused
  Shapes <- SmallShapes
  Trusted <- SmallTrusted
  LocalLimit <- SmallLocal
  LocalCapacity <- SmallCapacity
  SharedLimit <- SmallShared
  MaximumKeys = 5
  Minute = 1
  KeyLife = 2
  MaxTick = 1
  MaxSignals = 1
SPECIFICATION Spec
INVARIANTS
  AdmittedWithinLimits AnsweredBeforeThePoolCloses UncertainIsReplayed
CHECK_DEADLOCK FALSE
