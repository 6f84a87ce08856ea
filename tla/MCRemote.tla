------------------------------ MODULE MCRemote ------------------------------
(***************************************************************************)
(* Two threads of a program that make calls while the analyzer connects,   *)
(* one of which reads, halts and destroys it.                              *)
(***************************************************************************)
EXTENDS Remote, TLC

CONSTANTS m, u

MCPrograms == { (m :> <<>>) @@ (u :> <<suscan_analyzer_set_agc(TRUE)>>) }

MCHellos == { [hello |-> "compatible", multicast |-> TRUE],
              [hello |-> "compatible", multicast |-> FALSE],
              [hello |-> "junk"] }

MCAnswers == { Info({"SET_FREQ"}), [type |-> "AUTH_REJECTED"] }
=============================================================================
