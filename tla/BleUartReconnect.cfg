SPECIFICATION FairSpec
CONSTANTS
    ACI_QUEUE_SIZE = 4
    NUM_SETUP = 1
    Credits = 1
    OtpSetup = TRUE
    MaxPending = 1
    MaxInbox = 1
    MaxFaults = 1
    AppCalls = {"name"}
    HelloLength = 22
    SetupTimeout = FALSE
INVARIANTS ConnectIsQueued
PROPERTIES AdvertisesAgain
