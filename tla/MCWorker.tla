------------------------------ MODULE MCWorker ------------------------------
(* Two workers on one mq_out, as the local analyzer has, with a callback   *)
(* that queues itself again and one that runs once.                        *)
EXTENDS Worker

CONSTANTS w1, w2, c1, c2

MCHaltWith == [w \in AllWorkers |-> IF w \in Publishing THEN "analyzer" ELSE "worker"]
=============================================================================
