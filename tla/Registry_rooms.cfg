SPECIFICATION Spec
CONSTANTS
  Callers = {c1, c2, c3}
  MaxRooms = 2
SYMMETRY Symmetry
INVARIANTS OneOpenRoom NoOrphanPipeline ConnectionsInReach
