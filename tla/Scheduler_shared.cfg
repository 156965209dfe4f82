\* Two processes share the file over midnight; one of them may die, with
\* the lock file too, which both may then try to break.
SPECIFICATION SchedulerSpec
CONSTANTS
  Procs = {p1, p2}
  NoProc = NoProc
  MinInterval = 1
  DailyBudget = 2
  RequestTimeout = 2
  LeaseGrace = 1
  LockStale = 3
  LockPatience = 2
  DayLength = 7
  MaxTime = 9
  MaxCrashes = 1
  Delays <- SomeDelay
SYMMETRY AnyProcess
CHECK_DEADLOCK FALSE
INVARIANTS
  SerializedUnlessRaced
  BudgetCarried
PROPERTIES
  Spaced
  DelaysHonoured
