----------------------------- MODULE MCMsgList -----------------------------
(* Four interchangeable cells, two message types, a cleanup from three     *)
(* queued messages on and a pool of two.                                   *)
EXTENDS MsgList

Symmetry == Permutations(Cells)
=============================================================================
