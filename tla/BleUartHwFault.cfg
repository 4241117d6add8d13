SPECIFICATION Spec
CONSTANTS
    ACI_QUEUE_SIZE = 4
    NUM_SETUP = 1
    Credits = 2
    OtpSetup = TRUE
    MaxPending = 2
    MaxInbox = 1
    MaxFaults = 1
    AppCalls = {"tx","name"}
    HelloLength = 22
    SetupTimeout = FALSE
INVARIANTS NoStrayData
