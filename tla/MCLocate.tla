------------------------------ MODULE MCLocate ------------------------------
EXTENDS Locate

\* More IDs than a list may hold: IDs before, between and after its records.
MCID == 1 .. 9
=============================================================================
