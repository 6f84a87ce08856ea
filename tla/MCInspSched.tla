----------------------------- MODULE MCInspSched -----------------------------
(* Two workers, as many inspectors as to give one of them two tasks in a   *)
(* block, and one allocation that fails.                                   *)
EXTENDS InspSched

CONSTANTS n1, n2, n3, i1, i2, i3
=============================================================================
