-------------------------- MODULE TerminalServiceMC --------------------------
(* TerminalService with two connections of a peer, one after the other, and up   *)
(* to two terminals, services and sessions.                                     *)
EXTENDS TerminalService
=============================================================================
