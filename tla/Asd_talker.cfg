SPECIFICATION DetectorSpec
CONSTANTS
  Talkers = {p1, p2}
  NoTalker = NoTalker
  Volumes <- ThreeVolumes
  Off = Off
  Threshold <- CodeThreshold
  Decay = 12
  Hysteresis = 2
  Window = 5
INVARIANTS SpeakerIsHeard
PROPERTIES ChosenWasJustHeard TalkerWins
