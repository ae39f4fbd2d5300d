SPECIFICATION LiveSpec
CONSTANTS
  NConns = 2
  Topics = {t1}
  MaxBatch = 2
  MaxExtras = 1
INVARIANTS AckIsForBatch ClosedIsForgotten
  
CHECK_DEADLOCK FALSE
