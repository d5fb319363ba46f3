SPECIFICATION FairSpec
CONSTANTS
  Oid = {o1, o2}
  SetId = {s1}
  NoSet = noset
  BaseNumberOfPings = 2
  TimeoutPeriods = 1
  SeqModulus = 4
  Knowns = {{o1}, {o1, o2}}
  Locals = {TRUE, FALSE}
  Faults = {"lost", "late", "twice", "noreply", "busy", "nomem", "nobuffer", "nobind", "denied"}
  MaxChunk = 1
  MaxFailedPings = 0
  MaxDenials = 1
  MaxFaults = 1
  MaxCopies = 1
  MaxAge = 1
INVARIANTS
  TypeOK
  BeliefExact
  NothingLeaked
  PingsInOrder
PROPERTIES
  ChangesSent
