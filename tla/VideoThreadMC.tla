--------------------------- MODULE VideoThreadMC ---------------------------
(* Instance of VideoThread: the machine decodes one of the two codecs.      *)
EXTENDS VideoThread
=============================================================================
