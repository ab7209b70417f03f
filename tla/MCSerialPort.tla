--------------------------- MODULE MCSerialPort -----------------------------
EXTENDS SerialPort
=============================================================================
