SPECIFICATION Spec
CONSTANTS
  s1 = s1
  s2 = s2
  Newest = Newest
  Subs = {s1}
  InitSubs = {s1}
  BlockOf <- OneBlock
  FromBlock <- FromOne
  ResetBlocks = {1}
  BatchSizes = {1, 2}
  ErrorHandlings = {"skip", "block"}
  Faults = {}
  MaxHeight = 2
  MaxOps <- LifecycleOps
  MaxGen = 2
  MaxBuffered = 1
  Dispatchers = {1, 2}
  Processors = {1, 2}
  Relays = {1, 2}
INVARIANTS TypeOK InFlightCovers ResumeKeepsOneProcessor NoNegativeWaitGroup
 
CHECK_DEADLOCK FALSE
