SPECIFICATION FairSpec
CONSTANTS
    ACI_QUEUE_SIZE = 4
    MaxInbox = 1
    MaxPending = 3
    QuietInit = TRUE
INVARIANTS TypeOK RequestsAfterInit WaitingHasCause
PROPERTIES ResponseMatches GatewayServes
