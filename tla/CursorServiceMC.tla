-------------------------- MODULE CursorServiceMC --------------------------
(* CursorService with two connections and two cursors: two connections give  *)
(* one that is served and one that slips in, two cursors give a change, a    *)
(* return to a cursor that is cached, and a poll that is overtaken.          *)
EXTENDS CursorService, TLC

Symmetry == Permutations(Conn)
=============================================================================
