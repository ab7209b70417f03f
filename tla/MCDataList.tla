----------------------------- MODULE MCDataList -----------------------------
EXTENDS DataList

\* Six IDs: the list grows twice and shrinks twice with steps of two cells.
MCID == 1 .. 6
=============================================================================
