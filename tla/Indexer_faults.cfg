SPECIFICATION IndexerFairSpec
CHECK_DEADLOCK FALSE
CONSTANTS
  MaxCount <- Few
  MaxVersion <- Changes
  EntityCap = 2
  ReconcileLimit = 3
  MaxFaults = 1
  MaxCrashes = 1
INVARIANTS
  NothingSkipped
  HealthyMeansComplete
  TerminalRowsComplete
PROPERTIES
  CatchesUp
  ImplementsMirror
