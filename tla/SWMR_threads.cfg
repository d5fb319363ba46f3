SPECIFICATION Spec
CONSTANTS
  t1 = t1
  t2 = t2
  t3 = t3
  Thread = {t1, t2, t3}
  CacheUsers = {}
  SyncThreads = {}
  Uses <- AllUses
  Heap = {h1, h2}
  Embedded = embedded
  NULL = null
  Failures = {"new", "event"}
SYMMETRY ThreadSymmetry
INVARIANTS
  TypeOK
  MutualExclusion
  QueueShape
  RefCountExact
  FirstWaiterAgrees
PROPERTIES
  ConversionVerdict
  Implements
