SPECIFICATION FairSpec
CONSTANTS
  Object = {a, b}
  ThreadsFail = FALSE
  MaxLocks = 2
INVARIANTS
  TypeOK
  ListExact
  NoLostUnpin
  WorkHasWorker
PROPERTIES
  Drained
