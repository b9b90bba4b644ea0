\* One source that begins with a snapshot and goes on with updates; the depth
\* limit changes.
SPECIFICATION Spec
CONSTANTS
  Index = {1, 2, 3}
  Price = {1, 2}
  ntv = ntv
  dex = dex
  Source = {ntv}
  SourceOf <- OneSource
  Transactions <- BookFeed
  DepthLimits = {0, 1, 2}
  Periods = {0, 1}
  Feed = feed
  Users = {user}
  Timers = {t1, t2}
  NoThread = NoThread
  NoTimer = NoTimer
  NoOrder = NoOrder
  UserOps = {"setDepthLimit"}
  Resnapshot = FALSE
  ListenerReenters = FALSE
SYMMETRY TimerSymmetry
INVARIANTS
  TypeOK
  BookIsIndexed
  SnapshotIsTop
  NoStrandedChange
PROPERTY ImplementsBook
