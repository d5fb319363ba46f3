SPECIFICATION FairSpec
CONSTANTS
  t1 = t1
  t2 = t2
  t3 = t3
  Thread = {t1, t2, t3}
  CacheUsers = {}
  SyncThreads = {}
  Uses <- LivenessUses
  Heap = {h1, h2}
  Embedded = embedded
  NULL = null
  Failures = {}
PROPERTIES
  EveryWaiterServed
INVARIANTS
  EmbeddedReturned
