SPECIFICATION Spec
CONSTANTS
  s1 = s1
  s2 = s2
  Newest = Newest
  Subs = {s1}
  InitSubs = {s1}
  BlockOf <- TwoBlocks
  FromBlock <- FromOne
  ResetBlocks = {1}
  BatchSizes = {1}
  ErrorHandlings = {"block"}
  Faults = {}
  MaxHeight = 3
  MaxOps <- ResetOps
  MaxGen = 0
  MaxBuffered = 1
  Dispatchers = {1}
  Processors = {1}
  Relays = {1, 2}
INVARIANTS ResetHonoured
