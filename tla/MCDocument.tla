----------------------------- MODULE MCDocument -----------------------------
EXTENDS Document, TLC, FiniteSets

CONSTANTS P,
          MaxFiles,     \* bound on the files there are at a time
          MaxHarm       \* bound on what has gone wrong since the last good save

MCName == {P}

MCNext ==
    /\ Next
    /\ Cardinality({f \in File : disk'[f] # Absent}) <= MaxFiles
    /\ Cardinality(harm') <= MaxHarm
MCSpec == Init /\ [][MCNext]_vars
=============================================================================
