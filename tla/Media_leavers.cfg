SPECIFICATION Spec
CONSTANTS
  WebPeers = {w1}
  SipIds = {s1}
  NoPeer = NoPeer
  SlotCount = 3
  VideoSlots = 1
  InFlight = 1
INVARIANT TypeOK
PROPERTIES LeaversStop RoomStops
CHECK_DEADLOCK FALSE
