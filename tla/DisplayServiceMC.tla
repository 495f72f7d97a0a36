-------------------------- MODULE DisplayServiceMC --------------------------
(* DisplayService with two connections, so that one can be told of a change *)
(* and leave while the other waits for its snapshot.                        *)
EXTENDS DisplayService, TLC

Symmetry == Permutations(Conn)
=============================================================================
