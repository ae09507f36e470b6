---------------------------- MODULE MCRxPreempt ----------------------------
(* RxPreempt under TLC: one writer and two readers, which the              *)
(* specification and its properties treat alike.                           *)
EXTENDS RxPreempt, TLC

Symmetry == Permutations(Readers)
=============================================================================
