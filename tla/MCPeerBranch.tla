----------------------------- MODULE MCPeerBranch -----------------------------
(* Values with which TLC checks PeerBranch: every SIP Call-ID gets the same  *)
(* sanitized name.                                                           *)
EXTENDS PeerBranch, TLC

CONSTANT SipName
OneSipName == [p \in Ids |-> IF p \in SipIds THEN SipName ELSE p]

Symmetry == Permutations(SipIds) \cup Permutations(Branches) \cup Permutations(Callers)
=============================================================================
