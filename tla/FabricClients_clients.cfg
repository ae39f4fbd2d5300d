SPECIFICATION LiveSpec
CONSTANTS
  NTasks = 3
  Signers = {s1}
  Channels = {c1}
  Modes = {"ccp", "gateway"}
  MaxVersion = 3
INVARIANTS NoStaleClient UsesAcknowledged
PROPERTIES TasksReturn
CHECK_DEADLOCK FALSE
