CONSTANTS
  Calls = {write, read}
  ReadOnly = {read}
  PoolSize = 1
SPECIFICATION FairSpec
INVARIANTS
  ReleasedOnce SuccessIsCommitted CleanWhenReturned TimeoutsDidNotCommit
PROPERTIES CallsEnd
CHECK_DEADLOCK FALSE
