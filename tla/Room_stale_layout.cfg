SPECIFICATION Spec
CONSTANTS
  WebPeers = {w1, w2}
  SipIds = {}
  NoPeer = NoPeer
  SlotCount = 2
  Callers = {c1, c2}
  AsdLoop = AsdLoop
  AsdQueue = 1
  Modes = {grid, custom}
  FirstMode = grid
  NoView = NoView
  Ops = {"AddPeer", "AssignSlots"}
  Voices = {}
  Drawn = TRUE
  Serial = TRUE
  KnownOnly = TRUE
SYMMETRY Symmetry
INVARIANTS FreshLayout

