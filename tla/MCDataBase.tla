----------------------------- MODULE MCDataBase -----------------------------
EXTENDS DataBase

CONSTANTS Root_, T1, T2, Ruled, A, B

MCObj == {Root_, T1, T2, Ruled, A, B}
MCTable == {Root_, T1, T2, Ruled}
MCTrueTable == {Root_, T1, T2}
\* T1 and Ruled have the same name, the case the check of Insert is about; the
\* name of T2 is free, so that T1 and T2 can be nested either way.
MCNameOf == [t \in MCTable |-> IF t \in {T1, Ruled} THEN "T1" ELSE IF t = T2 THEN "T2" ELSE "Root"]
=============================================================================
