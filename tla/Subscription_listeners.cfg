SPECIFICATION FairSpec
CONSTANTS
  Thread = {t1, t2}
  Symbol = {s1}
  MaxListeners = 2
  MaxBatches = 1
  None = None
INVARIANTS
  TypeOK
  EveryBatchOnce
  ChangeListenersMatch
  ListenersAreUpToDate
PROPERTY
  CallsReturn
CHECK_DEADLOCK FALSE
