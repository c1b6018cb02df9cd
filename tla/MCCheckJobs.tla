----------------------------- MODULE MCCheckJobs -----------------------------
(* Instances of CheckJobs for TLC: two processes, of two regions. *)
EXTENDS CheckJobs, TLC

CONSTANTS p1, p2, j1, j2

TwoRegions == [p \in Processes |-> IF p = p1 THEN "eu" ELSE "us"]
MixedJobs  == [j \in Jobs |-> IF j = j1 THEN "eu" ELSE "us"]

MaybeMalformed == {{}, {j2}}
=============================================================================
