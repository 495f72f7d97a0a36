---------------------------- MODULE Connections ----------------------------
(***************************************************************************)
(* The connections of a host (src/src/server.rs): what the modules about its *)
(* services and its video channels have in common.                         *)
(***************************************************************************)
EXTENDS FiniteSets

CONSTANT Conn   \* connection ids

ASSUME ConnFinite == IsFiniteSet(Conn)
=============================================================================
