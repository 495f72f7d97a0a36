--------------------------- MODULE VideoServiceMC ---------------------------
(* VideoService with three connections: one that is served, and one that comes  *)
(* while another is there, or just as it leaves.                                *)
EXTENDS VideoService, TLC

Symmetry == Permutations(Conn)
=============================================================================
