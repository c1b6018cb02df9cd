--------------------------- MODULE MCIncidentList ---------------------------
EXTENDS IncidentList

MCIncidents == 1..3

(* One more to come: the newest, or one that is committed late. *)
MCExisting  == {{1, 2}, {1, 3}}

(* Each in a millisecond of its own, or two in one. *)
MCTimings == {<<1, 2, 3>>, <<1, 2, 2>>}
=============================================================================
