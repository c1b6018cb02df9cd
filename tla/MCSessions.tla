----------------------------- MODULE MCSessions -----------------------------
(* Two tabs, the first with two calls. *)
EXTENDS Sessions

CONSTANTS a, b, a1, a2, b1

AllTabs    == {a, b}
AllFetches == {a1, a2, b1}
TabOfCall  == [f \in AllFetches |-> IF f = b1 THEN b ELSE a]
=============================================================================
