---------------------------- MODULE MCSocketApi ----------------------------
(* SocketApi under TLC, with a table of a few sockets and a small queue.   *)
(* The connections of lwIP's pool are interchangeable, and so are pbufs.   *)
EXTENDS SocketApi, TLC

ApiSymmetry == Permutations(Pcbs) \cup Permutations(Pbufs)
=============================================================================
