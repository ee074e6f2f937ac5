SPECIFICATION PictureSpec
CONSTANTS
  Width = 1280
  Height = 720
  Nobody = Nobody
  Ids = {1, 2, 3, 4, 5}
  SipIds = {2}
  SlotCount = 2
  Modes = {"grid", "active_speaker", "lecture", "pip"}
  CustomLayouts <- Presets
INVARIANTS PictureTypeOK EveryoneDrawn SpeakerIsLarge PlaceholderCovered
CONSTRAINT Bounded
