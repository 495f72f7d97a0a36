--------------------------- MODULE OutputBufferMC ---------------------------
(* OutputBuffer with a buffer of a few bytes and lines.                        *)
EXTENDS OutputBuffer
=============================================================================
