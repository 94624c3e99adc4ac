CONSTANTS
  MaxEvidence = 1
  MaxWrong = 0
  AttemptIds = {a1, a2}
  NoAttempt = NoAttempt
  Keys = {k1, k2, k3}
  Slots <- MCTwoSlots
  Published <- MCTwoSlots
  Regions = {r1, r2}
  RegionsOf <- MCRegionsOf
  DayTicks = 1
  TickMs = 45000
  Guests = {g1}
  Conns = {c1, c2}
  None = None
  Requests <- MCRequests
  Expiries = {1, 2}
  MaxTime = 2
  MaxVersion = 1
SYMMETRY MCSymmetry
SPECIFICATION Spec
INVARIANTS
  OneAttemptPerSlot FinalizedOnce KnowledgeIsTheSum
  EffectsInsideWindow NoElapsedAttemptShownOpen
PROPERTIES RefusedLeavesNoRows KeepsTheBook
