------------------------------- MODULE MCRooms -------------------------------
(* Values with which TLC checks Rooms.                                       *)
EXTENDS Rooms, TLC

CONSTANTS a, b, upper   \* names: two in lower case, and b as it may be written
LowerOf == [n \in Names |-> IF n = upper THEN b ELSE n]

\* States in which NamesResolve says nothing any more are not followed up.
Untangled == tangled # RoomIds
=============================================================================
