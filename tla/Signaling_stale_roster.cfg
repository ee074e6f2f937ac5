SPECIFICATION Spec
CONSTANTS
  Sessions = {s1, s2, s3}
  SipCalls = {}
  Posters = {}
  Faults = FALSE
  Timeouts = FALSE
  Kicks = {}
  MaxReseats = 0
  Contents = TRUE
  Alone = FALSE
SYMMETRY Symmetry
INVARIANTS RosterFresh
