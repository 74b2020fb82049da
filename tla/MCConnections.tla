--------------------------- MODULE MCConnections ---------------------------
(* Three connections on two devices, all alike. *)
EXTENDS Connections, TLC

MCSymmetry == Permutations(Conns) \cup Permutations(Devices)
=============================================================================
