--------------------------- MODULE VideoChannelMC ---------------------------
(* VideoChannel with two viewers of one display: acknowledgements, drops and   *)
(* the end of a connection.                                                    *)
EXTENDS VideoChannel
=============================================================================
