---------------------------- MODULE MCSignaling -----------------------------
(* Small instances of Signaling for TLC. *)
EXTENDS Signaling, TLC

Symmetry ==
  Permutations(Sessions) \cup Permutations(SipCalls) \cup Permutations(Posters)
=============================================================================
