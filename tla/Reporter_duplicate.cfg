\* A run dies once: between the hash and its row, the write is forgotten.
SPECIFICATION ReporterSpec
CHECK_DEADLOCK FALSE
CONSTANTS
  SubmitType = "THIRD_PARTY_MONITOR"
  Strategies = {"sequential"}
  CapPerReporter = 4
  MaxSecond = 1
  MaxTxs = 4
  MaxTroubles = 1
INVARIANTS
  NoDuplicateEvidence
