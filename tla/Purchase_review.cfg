SPECIFICATION ReviewSpec
CONSTANTS
  Accounts = {"a", "b"}
  Account = "a"
  MaxSends = 2
  MaxDisturbances = 2
CHECK_DEADLOCK FALSE
INVARIANTS OfferedOnlyWhenSettled ReflectedIsIndexed
PROPERTIES StoredWriteEnds
