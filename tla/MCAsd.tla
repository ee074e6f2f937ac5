------------------------------- MODULE MCAsd --------------------------------
EXTENDS Asd

TwoVolumes == {-40, -20}
ThreeVolumes == {-90, -40, -5}
CodeThreshold == -45
=============================================================================
