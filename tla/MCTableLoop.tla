----------------------------- MODULE MCTableLoop -----------------------------
EXTENDS TableLoop

CONSTANTS A, B

MCID == 1 .. 4
MCClass == {A, B}
MCClassOf == [id \in MCID |-> IF id \in {1, 4} THEN A ELSE B]
MCLeastCursor == -2
=============================================================================
