SPECIFICATION Spec
CONSTANTS
  WebPeers = {w1, w2}
  SipIds = {s1}
  NoPeer = NoPeer
  SlotCount = 3
  VideoSlots = 1
  InFlight = 1
SYMMETRY Symmetry
INVARIANT NoneLost
CHECK_DEADLOCK FALSE
