----------------------------- MODULE MCRxQueue -----------------------------
(* RxQueue under TLC, with the sizes of the code: the cfg files give every *)
(* constant its value.                                                     *)
EXTENDS RxQueue
=============================================================================
