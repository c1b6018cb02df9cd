------------------------------ MODULE MCAccess ------------------------------
EXTENDS Access

MCSeed     == [enabled |-> FALSE, pct |-> 100]
MCSettings == {[enabled |-> TRUE, pct |-> 20], MCSeed}
=============================================================================
