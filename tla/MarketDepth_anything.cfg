\* Two sources, reconnections, a listener that calls back, and every client call.
\* The system may stop: when a listener blocks, a snapshot hangs the feed, or the
\* model is destroyed.
SPECIFICATION Spec
CONSTANTS
  Index = {1, 2, 3}
  Price = {1, 2}
  ntv = ntv
  dex = dex
  Source = {ntv, dex}
  SourceOf <- TwoSources
  Transactions <- TwoSourceFeed
  DepthLimits = {0, 1}
  Periods = {0, 1}
  Feed = feed
  Users = {user}
  Timers = {t1, t2, t3}
  NoThread = NoThread
  NoTimer = NoTimer
  NoOrder = NoOrder
  UserOps = {"setDepthLimit", "setAggregationPeriod", "close", "destroy"}
  Resnapshot = TRUE
  ListenerReenters = TRUE
SYMMETRY TimerSymmetry
INVARIANTS
  IndexedInBook
  TaskHasTimer
CHECK_DEADLOCK FALSE
