--------------------------- MODULE MCHttpChecker ---------------------------
(* A monitor that asserts both of its body, and two that assert nothing. *)
EXTENDS HttpChecker

CONSTANTS c1, c2, c3

MCChecks   == {c1, c2, c3}
MCAsserted == [c \in MCChecks |-> IF c = c1 THEN Assertions ELSE {}]
=============================================================================
