SPECIFICATION Spec
CONSTANTS
    New = New
    Old = Old
    NULL = NULL
    Device <- MCDevice
    OldFirmware <- MCOldFirmware
    MaxChanges = 3
    PacketCount = 2
    WaitUSBEventTimeout = 1
INVARIANT
    FirmwareWellSent
CHECK_DEADLOCK FALSE
