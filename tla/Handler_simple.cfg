\* Two callers of a synchronous handler whose listeners add and remove listeners.
\* A behaviour ends when the batches and the ids that the bounds allow are used up.
SPECIFICATION Spec
CONSTANTS
  Callers = {a, b}
  Size = 1
  MaxBatches = 4
  MaxId = 3
  CallbackOps = TRUE
SYMMETRY CallerSymmetry
PROPERTY NoCallAfterRemove
CHECK_DEADLOCK FALSE
