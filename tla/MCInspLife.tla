----------------------------- MODULE MCInspLife -----------------------------
(* Two inspectors: one is opened while the other is halted, and one of     *)
(* them may fail.                                                          *)
EXTENDS InspLife

CONSTANTS n1, n2
=============================================================================
