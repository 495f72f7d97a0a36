--------------------------- MODULE PrivacyModeMC ---------------------------
(* PrivacyMode with two connections: the holder and one that asks, comes or  *)
(* goes at any moment.                                                       *)
EXTENDS PrivacyMode
=============================================================================
