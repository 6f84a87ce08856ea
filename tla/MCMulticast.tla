---------------------------- MODULE MCMulticast ----------------------------
(***************************************************************************)
(* Three superframes of two fragments each: spectra at two frequencies and *)
(* an encapsulated call whose second half lies beyond the mask of its      *)
(* block of the bitmap, and one too large to be accepted.  Identifiers     *)
(* wrap around during the run.                                             *)
(***************************************************************************)
EXTENDS Multicast

MCCalls == {[type |-> "PSD", size |-> 2, fc |-> 1], [type |-> "PSD", size |-> 2, fc |-> 2],
            [type |-> "ENCAP", size |-> 4, fc |-> 0], [type |-> "ENCAP", size |-> 6, fc |-> 0]}
MCUsable == [PSD |-> 1, ENCAP |-> 3]

=============================================================================
