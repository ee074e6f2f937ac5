SPECIFICATION Spec
CONSTANTS
  RoomIds = {r1, r2}
  a = a
  b = b
  upper = upper
  Names = {a, b, upper}
  Lower <- LowerOf
  None = None
  Layouts = {grid, cells}
  Grid = grid
  Cells = {cells}
  Watched = {r1}
  Callers = {c1, c2}
  Faults = TRUE
INVARIANTS NamesResolve
PROPERTIES LayoutReturns
CONSTRAINT Untangled
