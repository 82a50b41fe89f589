------------------------------ MODULE MCUDPFlows ------------------------------
(* Instances of UDPFlows for TLC.                                          *)
EXTENDS UDPFlows, TLC

Symmetry == Permutations(Port) \cup Permutations(Dst)
=============================================================================
