SPECIFICATION LiveSpec
CONSTANTS
  Requests = {r1, r2}
  IDs = {i1, i2}
  MaxInFlight = 1
  Concurrency = {1, 2}
  None = None
INVARIANTS InFlightExact SlotsExact
PROPERTIES ImplementsPromise AlwaysAnswered SyncReturns
CHECK_DEADLOCK FALSE
