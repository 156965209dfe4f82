\* Amounts, durations and rates on a grid where every rounding happens; values,
\* calls and windows of samples around it.
SPECIFICATION FunctionsSpec
CHECK_DEADLOCK FALSE
CONSTANTS
  none = none
  BpsDenom = 4
  YearSeconds = 3
  MinPremium = 1
  Unknown = none
  GenDecimals = 3
  Million = 100
  MaxLatency = 9
  MaxLag = 6
  MaxAmount = 9
  MaxDuration = 3
  MaxRate = 8
  MaxNumber = 4000
  MaxSamples = 21
  MaxBlock = 9
  Sample <- GridSamples
INVARIANTS
  RoundedForTheProvider
  SentAsMeant
