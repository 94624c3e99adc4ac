CONSTANTS
  MaxEvidence = 4
  MaxWrong = 2
SPECIFICATION LifeSpec
INVARIANTS AssertionNeverThrows EvidenceIsPaidFor
PROPERTIES NoMovePays MovesAreFinite
CHECK_DEADLOCK FALSE
