SPECIFICATION Spec
CONSTANTS
  t1 = t1
  t2 = t2
  e1 = e1
  s1 = s1
  s2 = s2
  k1 = k1
  None = None
  Threads = {t1, t2}
  Streams = {e1}
  Subs = {s1, s2}
  LookupKeys = {k1}
  StreamOf <- OneStream
  KeyOf <- SameFilter
  Faults = {"Get", "Put", "Delete"}
  MaxCrashes = 1
SYMMETRY Symmetry
INVARIANTS
  AcknowledgedSurvives
  DeletedStaysDeleted
  FilterTakenOnce
PROPERTY CheckpointOutlivesStream
CHECK_DEADLOCK FALSE
