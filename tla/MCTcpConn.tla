----------------------------- MODULE MCTcpConn -----------------------------
(* TcpConn under TLC. *)
EXTENDS TcpConn
=============================================================================
