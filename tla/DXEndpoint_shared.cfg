\* Clients build endpoints, ask for instances and share them; callbacks come
\* and go while states change. A behaviour ends when the bounds are reached.
SPECIFICATION Spec
CONSTANTS
  Clients = {a, b}
  None = None
  Roles = {feed, hub}
  DefaultRole = feed
  Callbacks = {f, g}
  MaxBuilders = 1
  MaxEndpoints = 2
  MaxHandles = 2
  MaxListeners = 2
  MaxChanges = 1
SYMMETRY Symmetry
INVARIANTS
  TypeOK
  OneInstancePerRole
  StillRemovable
PROPERTY OnlyInstalledCalled
CHECK_DEADLOCK FALSE
