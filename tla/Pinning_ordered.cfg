SPECIFICATION Spec
CONSTANTS
  o1 = o1
  x1 = x1
  p1 = p1
  Oid = {o1}
  Oxid = {x1}
  Process = {p1}
  PingSet = {s1}
  OxidOf <- OneOxid
  ProcessOf <- OneProcess
  LocalSets = {}
  Call = {c1}
  MaxBatch = 1
  MaxCalls = 1
  Answers = {"ok", "keep", "pinned"}
  Suspends = FALSE
  MaxItems = 0
  MaxGuests = 0
  ThreadsFail = TRUE
  MaxLocks = 1
  Overtakes = FALSE
CHECK_DEADLOCK FALSE
INVARIANTS
  PinsAgree
  LockedKept
