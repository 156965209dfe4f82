\* Any two troubles strike: runs die, calls fail halfway, writes are rejected, the
\* reporter is revoked, the account files elsewhere; the node may never decide.
SPECIFICATION RunFairSpec
CHECK_DEADLOCK FALSE
CONSTANTS
  SubmitType = "THIRD_PARTY_MONITOR"
  Strategies = {"sequential", "parallel"}
  CapPerReporter = 4
  MaxSecond = 2
  MaxTxs = 4
  MaxTroubles = 2
INVARIANTS
  RowsAreTrue
  PassIsProven
  OneLiveAttempt
PROPERTIES
  LiveAttemptsKept
  EveryRunEnds
  EvidenceArrives
