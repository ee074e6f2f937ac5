SPECIFICATION Spec
CONSTANTS
  WebPeers = {w1}
  SipIds = {s1}
  NoPeer = NoPeer
  SlotCount = 3
  VideoSlots = 1
  InFlight = 1
PROPERTY SipSocketsClosed
CHECK_DEADLOCK FALSE
