SPECIFICATION Spec
CONSTANTS
  s1 = s1
  s2 = s2
  Newest = Newest
  Subs = {s1, s2}
  InitSubs = {s1, s2}
  BlockOf <- TwoBlocks
  FromBlock <- FromOneNewest
  ResetBlocks = {1}
  BatchSizes = {1, 2}
  ErrorHandlings = {"skip", "block"}
  Faults = {"load", "store", "height", "subscribe"}
  MaxHeight = 3
  MaxOps <- CrashOps
  MaxGen = 0
  MaxBuffered = 1
  Dispatchers = {1}
  Processors = {1}
  Relays = {1}
INVARIANTS  CheckpointCoversOwed InFlightExact
PROPERTIES InOrder
