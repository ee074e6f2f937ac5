SPECIFICATION Spec
CONSTANTS
  CallIds = {c1}
  Handlers = {h1, h2}
  NoHandler = NoHandler
  Faults = TRUE
  Timeouts = TRUE
  Forgets = TRUE
  Kicks = TRUE
INVARIANTS SocketsOwned NoOrphanPeer AnsweredIsConnected
PROPERTIES ClosedOnce ConferenceArrives HangupCompletes
CHECK_DEADLOCK FALSE
