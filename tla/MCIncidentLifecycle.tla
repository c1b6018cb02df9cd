------------------------ MODULE MCIncidentLifecycle ------------------------
(* Instances of IncidentLifecycle for TLC. *)
EXTENDS IncidentLifecycle, TLC

(* Processes of one kind and monitors are interchangeable. *)
Interchangeable ==
    Permutations(Workers) \cup Permutations(Monitors) \cup Permutations(Clients)
=============================================================================
