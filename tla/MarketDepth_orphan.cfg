\* A reconnecting source.
SPECIFICATION Spec
CONSTANTS
  Index = {1, 2, 3}
  Price = {1, 2}
  ntv = ntv
  dex = dex
  Source = {ntv}
  SourceOf <- OneSource
  Transactions <- BookFeed
  DepthLimits = {0}
  Periods = {0}
  Feed = feed
  Users = {user}
  Timers = {t1, t2}
  NoThread = NoThread
  NoTimer = NoTimer
  NoOrder = NoOrder
  UserOps = {}
  Resnapshot = TRUE
  ListenerReenters = FALSE
INVARIANT NoOrphanOrder
CHECK_DEADLOCK FALSE
