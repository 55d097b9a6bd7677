--------------------------- MODULE MCPermitStore ----------------------------
\* Three calls race for one permit while a fourth spends another one.
EXTENDS PermitStore
CONSTANTS c1, c2, c3, c4, p1, p2

MCCalls == {c1, c2, c3, c4}
MCPermits == {p1, p2}
MCPermitOf == [c \in MCCalls |-> IF c = c4 THEN p2 ELSE p1]
=============================================================================
