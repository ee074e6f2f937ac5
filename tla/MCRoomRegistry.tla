--------------------------- MODULE MCRoomRegistry ---------------------------
(* Small instances of RoomRegistry for TLC. *)
EXTENDS RoomRegistry, TLC

Symmetry == Permutations(Callers)
=============================================================================
