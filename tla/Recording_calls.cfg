SPECIFICATION Spec
CONSTANTS
  Requests = {c1, c2, c3}
  MaxRows = 2
  Faults = TRUE
  Timeouts = TRUE
  Restarts = TRUE
  Deletes = TRUE
SYMMETRY Symmetry
INVARIANTS ValvesCanBeClosed StopMeansStopped RowsMatchWorker
