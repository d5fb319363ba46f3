SPECIFICATION Spec
CONSTANTS
  x1 = x1
  p1 = p1
  Oid = {o1}
  Oxid = {x1}
  Process = {p1}
  PingSet = {}
  OxidOf <- OneOxid
  ProcessOf <- OneProcess
  LocalSets = {}
  Call = {c1}
  MaxBatch = 2
  MaxCalls = 1
  Answers = {"ok", "keep", "pinned"}
  Suspends = FALSE
  MaxItems = 1
  MaxGuests = 0
INVARIANTS
  NoOrphanPins
