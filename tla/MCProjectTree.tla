--------------------------- MODULE MCProjectTree ----------------------------
EXTENDS ProjectTree, TLC

CONSTANTS H1, H2, H3, H4, N1, N2,
          MaxCommands           \* bound on the commands the user gives

VARIABLE commands

MCHM == {H1, H2, H3, H4}
MCName == {N1, N2}

\* Objects are told apart by their ID only, and names by equality.
MCSymmetry == Permutations(MCHM) \cup Permutations(MCName)

MCInit == Init /\ commands = 0
MCNext == commands < MaxCommands /\ Next /\ commands' = commands + 1
MCSpec == MCInit /\ [][MCNext]_<<vars, commands>>
=============================================================================
