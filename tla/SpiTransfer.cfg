SPECIFICATION Spec
CONSTANTS
    HAL_ACI_MAX_LENGTH = 31
    MaxEventLength = 31
INVARIANTS TypeOK CommandDelivered EventReceived NoSpareClock ReadsBeyondBuffer
CHECK_DEADLOCK FALSE
