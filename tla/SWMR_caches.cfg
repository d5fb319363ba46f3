SPECIFICATION Spec
CONSTANTS
  t1 = t1
  t2 = t2
  t3 = t3
  Thread = {t1, t2}
  CacheUsers = {t1, t2}
  SyncThreads = {t1}
  Uses <- AllUses
  Heap = {h1, h2, h3}
  Embedded = embedded
  NULL = null
  Failures = {"new", "event"}
INVARIANTS
  OnePlace
  SyncWaiterHome
