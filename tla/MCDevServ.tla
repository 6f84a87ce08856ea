----------------------------- MODULE MCDevServ ------------------------------
(***************************************************************************)
(* Five scenarios: a client that opens an inspector and closes it beside   *)
(* one that has fewer rights and may stop the server; the first alone, as  *)
(* it changes the id of an inspector that it has just closed, and with two *)
(* inspectors; one that tunes the source while the other asks for what it  *)
(* does not have; and one that stops the server and still asks for an      *)
(* inspector, while the other starts the next analyzer. The analyzer can   *)
(* be started twice.                                                       *)
(***************************************************************************)
EXTENDS DevServ

CONSTANTS c1, c2

MCScripts ==
  {(c1 :> <<{"auth"}, {"open"}, {"close"}>>) @@ (c2 :> <<{"auth", "bad_auth"}, {"open", "halt"}>>),
   (c1 :> <<{"auth"}, {"open"}, {"close"}, {"set_id"}>>) @@ (c2 :> <<>>),
   (c1 :> <<{"auth"}, {"open"}, {"open"}>>) @@ (c2 :> <<>>),
   (c1 :> <<{"auth"}, {"set"}>>) @@ (c2 :> <<{"auth", "other"}, {"get", "set"}>>),
   (c1 :> <<{"auth"}, {"halt"}, {"open"}>>) @@ (c2 :> <<{"auth"}>>)}
=============================================================================
