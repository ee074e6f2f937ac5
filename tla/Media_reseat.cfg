SPECIFICATION ReseatedSpec
CONSTANTS
  WebPeers = {w1, w2}
  SipIds = {s1}
  NoPeer = NoPeer
  SlotCount = 3
  VideoSlots = 1
  InFlight = 1
SYMMETRY Symmetry
INVARIANT TrackTellsSpeaker
CHECK_DEADLOCK FALSE
