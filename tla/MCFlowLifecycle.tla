--------------------------- MODULE MCFlowLifecycle --------------------------
(* Model of FlowLifecycle for TLC: two flows in different buckets, one UDP *)
(* and one TCP, sharing one detection thread, and one capture thread.     *)
EXTENDS FlowLifecycle

CONSTANTS d1, d2, w1, c1, c2

MCBucketOf == [d \in Digests |-> IF d = d1 THEN 0 ELSE 1]

MCWorkerOf == [d \in Digests |-> w1]

MCTcpFlows == {d2}
====
