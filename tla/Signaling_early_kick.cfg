SPECIFICATION Spec
CONSTANTS
  Sessions = {s1, s2}
  SipCalls = {}
  Posters = {}
  Faults = FALSE
  Timeouts = FALSE
  Kicks = {s1, s2}
  MaxReseats = 0
  Contents = TRUE
  Alone = FALSE
SYMMETRY Symmetry
INVARIANTS ParticipantsAreListed
