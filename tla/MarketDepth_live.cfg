\* One source; the clients change the limit and the period, but never switch
\* aggregation off.
SPECIFICATION FairSpec
CONSTANTS
  Index = {1, 2}
  Price = {1, 2}
  ntv = ntv
  dex = dex
  Source = {ntv}
  SourceOf <- OneSource
  Transactions <- TaskFeed
  DepthLimits = {0, 1}
  Periods = {1, 2}
  Feed = feed
  Users = {user}
  Timers = {t1, t2, t3}
  NoThread = NoThread
  NoTimer = NoTimer
  NoOrder = NoOrder
  UserOps = {"setDepthLimit", "setAggregationPeriod"}
  Resnapshot = FALSE
  ListenerReenters = FALSE
PROPERTY EventuallyDelivered
