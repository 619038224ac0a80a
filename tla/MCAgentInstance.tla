---------------------------- MODULE MCAgentInstance ----------------------------
(* The capture supervisor's instance (two interfaces, a TPv3 configuration *)
(* without fanout and one with a fanout of two instances) composed with    *)
(* the cache: one address key and one hostname, which a later insert     *)
(* inserts afresh, and one detection thread, whose Create() may throw.   *)
EXTENDS AgentInstance

MCConfigs == {"single", "fanout"}

MCFanout == [c \in MCConfigs |-> IF c = "fanout" THEN 2 ELSE 0]

====
