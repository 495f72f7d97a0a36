---------------------- MODULE RendezvousRegistrationMC ----------------------
(* Instance of RendezvousRegistration: the first id belongs to another host *)
(* at the first server and to none at the second.                            *)
EXTENDS RendezvousRegistration

CONSTANTS h1, h2

TakenInTurn == [h \in Host |-> IF h = h1 THEN {0} ELSE {}]
=============================================================================
