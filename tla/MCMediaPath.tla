----------------------------- MODULE MCMediaPath -----------------------------
(* Values with which TLC checks MediaPath.                                 *)
EXTENDS MediaPath, TLC

Symmetry == Permutations(WebPeers)
=============================================================================
