--------------------------- MODULE MCMessageQueue ---------------------------
(***************************************************************************)
(* Three threads on one queue, three messages of two types.  r1 reads as   *)
(* the worker threads and the analyzer's user do (anything, or one type    *)
(* with a timeout) and writes its callback back, as a worker does; r2      *)
(* reads one type, polls, and sleeps in bare waits; w1 writes normal and   *)
(* urgent messages.                                                        *)
(***************************************************************************)
EXTENDS MessageQueue

CONSTANTS r1, r2, w1, m1, m2, m3, CALLBACK, HALT

MCTypeOf == m1 :> CALLBACK @@ m2 :> CALLBACK @@ m3 :> HALT

Read(sel, timed) == [kind |-> "read", sel |-> sel, timed |-> timed]
Write(m, u) == [kind |-> "write", msg |-> m, urgent |-> u]

MCCallsOf ==
  r1 :> {Read(AnyType, FALSE), Read(CALLBACK, TRUE), Write(m2, FALSE)} @@
  r2 :> {Read(HALT, FALSE), [kind |-> "poll", sel |-> CALLBACK],
         [kind |-> "wait", timed |-> FALSE]} @@
  w1 :> {Write(m1, FALSE), Write(m2, FALSE), Write(m3, TRUE)}
=============================================================================
