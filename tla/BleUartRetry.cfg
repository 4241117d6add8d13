SPECIFICATION Spec
CONSTANTS
    ACI_QUEUE_SIZE = 3
    NUM_SETUP = 4
    Credits = 1
    OtpSetup = FALSE
    MaxPending = 1
    MaxInbox = 1
    MaxFaults = 0
    AppCalls = {"name"}
    HelloLength = 22
    SetupTimeout = TRUE
INVARIANTS SetupDoneMeansLoaded
