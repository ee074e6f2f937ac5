SPECIFICATION Spec
CONSTANTS
  WebPeers = {}
  SipIds = {s1, s2}
  NoPeer = NoPeer
  SlotCount = 2
  Callers = {c1}
  AsdLoop = AsdLoop
  AsdQueue = 1
  Modes = {grid}
  FirstMode = grid
  NoView = NoView
  Ops = {"AddSIPPeer", "RemoveSIPPeer", "Speak"}
  Voices = {s1, s2}
  Drawn = FALSE
  Serial = TRUE
  KnownOnly = TRUE
SYMMETRY Symmetry
INVARIANTS SpeakerPresent

