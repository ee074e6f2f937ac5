SPECIFICATION Spec
CONSTANTS
  WebPeers = {w1, w2}
  SipIds = {s1}
  NoPeer = NoPeer
  SlotCount = 2
  Callers = {c1, c2}
  AsdLoop = AsdLoop
  AsdQueue = 1
  Modes = {grid}
  FirstMode = grid
  NoView = NoView
  Ops = {"AddPeer", "RemovePeer", "AddSIPPeer", "RemoveSIPPeer", "AssignSlots", "SetLayout", "Speak"}
  Voices = {s1}
  Drawn = FALSE
  Serial = TRUE
  KnownOnly = TRUE
SYMMETRY Symmetry
INVARIANTS OneSlotPerPeer JoinedOnce NoGhost NoLeakedConnection
PROPERTIES SlotKept ImplementsConference
