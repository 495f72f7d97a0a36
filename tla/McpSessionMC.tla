--------------------------- MODULE McpSessionMC ---------------------------
(* McpSession with one session, which comes and goes once, and three commands *)
(* of two lines: two may time out before one that finds their rest.  One line *)
(* of the second command, and one of the first, ends in that command.         *)
EXTENDS McpSession

EndsInCommand == [k \in Command |-> IF k = 2 THEN {<<1, 2>>, <<2, 1>>} ELSE {}]
=============================================================================
