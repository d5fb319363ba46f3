SPECIFICATION Spec
CONSTANTS
  Oid = {o1, o2}
  SetId = {s1, s2}
  NoSet = noset
  BaseNumberOfPings = 3
  TimeoutPeriods = 3
  SeqModulus = 16
  Knowns = {{o1, o2}}
  Locals = {FALSE}
  Faults = {}
  MaxChunk = 2
  MaxFailedPings = 3
  MaxDenials = 3
  MaxFaults = 0
  MaxCopies = 0
  MaxAge = 0
SYMMETRY Symmetric
INVARIANTS
  InMeansInSet
