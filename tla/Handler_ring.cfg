\* Two callers go round a ring of two futures, against what the handler promises.
\* A behaviour ends when the batches and the ids that the bounds allow are used up.
SPECIFICATION RingSpec
CONSTANTS
  Callers = {a, b}
  Size = 2
  MaxBatches = 5
  MaxId = 1
  CallbackOps = FALSE
INVARIANTS
  TypeOK
  BoundedOvertaking
PROPERTIES
  HandleReturns
  ImplementsNotifier
CHECK_DEADLOCK FALSE
