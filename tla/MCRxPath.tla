------------------------------ MODULE MCRxPath ------------------------------
(* RxPath under TLC.  Connections and pbufs are interchangeable; MaxSeg    *)
(* bounds the streams.                                                     *)
EXTENDS RxPath, TLC

PathSymmetry == Permutations(Conns) \cup Permutations(Pbufs)
=============================================================================
