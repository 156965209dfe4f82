SPECIFICATION MonitorSpec
CONSTANTS
  Targets = {1, 2}
  Studio = {2}
  Serviced = {1, 2}
  Interval <- MCInterval
  StudioInterval = 2
  CycleInterval = 1
  Retention = 3
  MaxFaults = 0
CHECK_DEADLOCK FALSE
INVARIANTS TwoRecoveriesEnd
