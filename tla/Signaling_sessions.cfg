SPECIFICATION Spec
CONSTANTS
  Sessions = {s1, s2}
  SipCalls = {c1}
  Posters = {n1}
  Faults = TRUE
  Timeouts = TRUE
  Kicks = {s1, c1}
  MaxReseats = 1
  Contents = FALSE
  Alone = FALSE
INVARIANTS NothingLeftBehind PresentAreReachable
PROPERTIES ClosedSessionsEnd
CHECK_DEADLOCK FALSE
