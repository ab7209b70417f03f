---------------------------- MODULE MCDpSVisio ------------------------------
EXTENDS DpSVisioUpgrade

CONSTANTS New, Old

MCDevice == {New, Old}
MCOldFirmware == {Old}
=============================================================================
