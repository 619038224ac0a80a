------------------------- MODULE MCCaptureSupervisor -------------------------
(* Two interfaces; a TPv3 configuration without fanout and one with a     *)
(* fanout of two instances, so an edit can change an interface's group.   *)
EXTENDS CaptureSupervisor

MCConfigs == {"single", "fanout"}

MCFanout == [c \in MCConfigs |-> IF c = "fanout" THEN 2 ELSE 0]

====
