---------------------------- MODULE MCThreadPool ----------------------------
(* Instances of ThreadPool small enough for TLC.                           *)
EXTENDS ThreadPool

CONSTANTS c1, c2, j1, j2, j3, j4, bq

(* No job queues another; j1 queues j4.                                    *)
NoChildren == [j \in Jobs |-> NoJob]
J1Spawns == [NoChildren EXCEPT ![j1] = j4]
=============================================================================
