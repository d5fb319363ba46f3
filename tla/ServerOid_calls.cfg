SPECIFICATION Spec
CONSTANTS
  x1 = x1
  p1 = p1
  Oid = {o1, o2}
  Oxid = {x1}
  Process = {p1}
  PingSet = {s1}
  OxidOf <- OneOxid
  ProcessOf <- OneProcess
  LocalSets = {}
  Call = {c1, c2}
  MaxBatch = 1
  MaxCalls = 1
  Answers = {"ok", "keep", "pinned"}
  Suspends = FALSE
  MaxItems = 1
  MaxGuests = 1
SYMMETRY OneApartment
INVARIANTS
  TypeOK
  ListedExactly
  RefsExact
  LifetimesExact
  CallsExact
PROPERTIES
  ServerDecides
