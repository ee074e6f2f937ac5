SPECIFICATION PictureSpec
CONSTANTS
  Width = 1280
  Height = 720
  Nobody = Nobody
  Ids = {1, 2, 3}
  SipIds = {2}
  SlotCount = 2
  Modes = {"grid"}
  CustomLayouts <- Vad
INVARIANTS VadCellShowsSpeaker
