\* Two threads and two collectors; a connection with a listener.
\* A behaviour ends when the listeners, updates and changes of the bounds are used up,
\* or when a listener has called what is calling it.
SPECIFICATION MCSpec
CONSTANTS
  Thread = {a, b}
  MaxCollectors = 2
  MaxListeners = 2
  MaxUpdates = 2
  HalfWord = 4
  MaxStateListeners = 1
  MaxChanges = 3
  Java = Java
  None = None
INVARIANTS
  TypeOK
  OnlyLiveCalled
  AgreesWithJava
  EveryUpdateHeard
  StateChangesHeard
PROPERTIES
  HeardInOrder
  UpdatesArrive
  ClosedIsForgotten
CHECK_DEADLOCK FALSE
