---------------------------- MODULE MCSocketQueue ----------------------------
(* SocketQueue with two of the three kinds of positions. *)
EXTENDS SocketQueue

MCPuts == <<2, 1>>
=============================================================================
