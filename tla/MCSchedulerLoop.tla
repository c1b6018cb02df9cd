-------------------------- MODULE MCSchedulerLoop --------------------------
(* Instances of SchedulerLoop for TLC. *)
EXTENDS SchedulerLoop, TLC

Interchangeable == Permutations(Schedulers) \cup Permutations(Monitors)
=============================================================================
