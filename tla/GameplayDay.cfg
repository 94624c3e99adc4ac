CONSTANTS
  MaxEvidence = 1
  MaxWrong = 0
  AttemptIds = {a1, a2}
  NoAttempt = NoAttempt
  Keys = {k1, k2, k3}
  Slots <- MCSlots
  Published <- MCSlots
  Regions = {r1}
  RegionsOf <- MCRegionsOf
  DayTicks = 2
  TickMs = 45000
  Guests = {g1}
  Conns = {c1, c2}
  None = None
  Requests <- MCRequests
  Expiries = {3}
  MaxTime = 2
  MaxVersion = 1
SYMMETRY MCSymmetry
SPECIFICATION Spec
INVARIANTS
  NoConstraintFails BookMatchesReceipts OnlyNewReceiptsPlay
PROPERTIES FinishedForever NothingIsLost CommitsInTimeOrder
