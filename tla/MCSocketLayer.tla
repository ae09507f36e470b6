--------------------------- MODULE MCSocketLayer ---------------------------
(* SocketLayer under TLC, with a table of a few sockets.                   *)
EXTENDS SocketLayer
=============================================================================
