SPECIFICATION LiveSpec
CONSTANTS
  i1 = i1
  i2 = i2
  a = a
  Bad = Bad
  None = None
  IDs = {i1, i2}
  Addresses = {a}
  Replies <- MCReplies
  MaxDocs = 2
  Kinds = {"leveldb", "mongo", "memory"}
  MaxTime = 2
  MaxFaults = 2
  QueryLimit = 4
  DefaultLimit = 3
INVARIANTS LookupIsComplete CommittedIsStored AnnouncedIsStored  
 
CHECK_DEADLOCK FALSE
