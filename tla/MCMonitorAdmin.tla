--------------------------- MODULE MCMonitorAdmin ---------------------------
(* The free plan allows one monitor here, the paid one two. *)
EXTENDS MonitorAdmin

SmallLimits == [p \in Plans \cup {"free"} |-> IF p = "free" THEN 1 ELSE 2]
=============================================================================
