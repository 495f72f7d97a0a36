------------------------- MODULE ConnectionLoginMC -------------------------
(* ConnectionLogin with two connections of one peer.                          *)
EXTENDS ConnectionLogin, TLC

ConnSymmetry == Permutations(Conn)
=============================================================================
