SPECIFICATION Spec
CONSTANTS
  WebPeers = {w1, w2}
  SipIds = {}
  NoPeer = NoPeer
  SlotCount = 2
  Callers = {c1, c2}
  AsdLoop = AsdLoop
  AsdQueue = 1
  Modes = {grid}
  FirstMode = grid
  NoView = NoView
  Ops = {"AddPeer", "RemovePeer"}
  Voices = {}
  Drawn = FALSE
  Serial = FALSE
  KnownOnly = TRUE
SYMMETRY Symmetry
INVARIANTS NoLeakedConnection

