------------------------------- MODULE MCRoom -------------------------------
(* Small instances of Room for TLC. *)
EXTENDS Room

\* Participants of a kind are interchangeable, and so are the goroutines.
Symmetry ==
  Permutations(WebPeers) \cup Permutations(SipIds) \cup Permutations(Callers)
=============================================================================
