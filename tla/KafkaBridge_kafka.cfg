SPECIFICATION LiveSpec
CONSTANTS
  Requests = {r1, r2}
  IDs = {i1, i2}
  MaxCycles = 1
INVARIANTS AckNamesDelivered EntriesAwaited
PROPERTIES AckReturns ShutdownCompletes
CHECK_DEADLOCK FALSE
