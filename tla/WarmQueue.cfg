CONSTANTS
  Days = 3
  Uncacheable = {2}
  Producers = {p, q}
  Workers = {w}
  MaxOutstanding = 1
  MaxKeys = 2
  Attempts = 2
  TTL = 1
  MaxFaults = 1
SPECIFICATION FairSpec
INVARIANTS
  OutstandingIsBounded KeysAreBounded
PROPERTIES CurrentIsWarmed
