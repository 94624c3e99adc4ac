CONSTANTS
  None = None
  Slots <- SmallSlots
  Entries <- SmallEntries
  Histories <- SmallHistories
  Me <- Ours
  Outcomes <- SmallOutcomes
  MaxEvidence = 4
  MaxWrong = 2
  Rings <- SmallRings
  Limit = 2
  MaxReads = 3
SPECIFICATION Spec
INVARIANTS PagesAreOneLeaderboard ReportsAreTheGuests
CHECK_DEADLOCK FALSE
