CONSTANTS
  MaxEvidence = 1
  MaxWrong = 0
  AttemptIds = {a1}
  NoAttempt = NoAttempt
  Keys = {k1}
  Slots <- MCSlots
  Published <- MCSlots
  Regions = {r1}
  RegionsOf <- MCRegionsOf
  DayTicks = 1
  TickMs = 45000
  Guests = {g1}
  Conns = {c1, c2}
  None = None
  Requests <- MCRequests
  Expiries = {1}
  MaxTime = 1
  MaxVersion = 0
SPECIFICATION FairSpec
PROPERTIES RequestsEnd
