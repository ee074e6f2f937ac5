SPECIFICATION Spec
CONSTANTS
  Requests = {c1, c2, c3}
  MaxRows = 3
  Faults = FALSE
  Timeouts = FALSE
  Restarts = FALSE
  Deletes = FALSE
SYMMETRY Symmetry
INVARIANTS StartMeansRecording
