SPECIFICATION FairSpec
CONSTANTS
    ACI_QUEUE_SIZE = 3
    NUM_SETUP = 5
    Credits = 2
    OtpSetup = FALSE
    MaxPending = 1
    MaxInbox = 1
    MaxFaults = 0
    AppCalls = {"tx"}
    HelloLength = 22
    SetupTimeout = FALSE
INVARIANTS SetupInOrder ConnectIsQueued
PROPERTIES SetupCompletes AdvertisesAgain
