SPECIFICATION FairSpec
CONSTANTS
  Thread = {t1, t2, t3}
  None = None
INVARIANTS
  TypeOK
  Exclusion
  CountsExact
  NoLostWakeup
  OwnerExact
PROPERTIES
  KeepsPromise
  NotStarved
