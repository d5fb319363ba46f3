SPECIFICATION FairSpec
CONSTANTS
  x1 = x1
  p1 = p1
  Oid = {o1, o2}
  Oxid = {x1}
  Process = {p1}
  PingSet = {s1}
  OxidOf <- OneOxid
  ProcessOf <- OneProcess
  LocalSets = {}
  Call = {c1}
  MaxBatch = 1
  MaxCalls = 1
  Answers = {"ok", "keep"}
  Suspends = TRUE
  MaxItems = 0
  MaxGuests = 0
INVARIANTS
  SleepForgiven
PROPERTIES
  UnpingedRundown
  DeadServerCleaned
