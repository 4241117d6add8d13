SPECIFICATION Spec
CONSTANTS
    ACI_QUEUE_SIZE = 4
    MaxInbox = 1
    MaxPending = 3
    QuietInit = FALSE
INVARIANT InitAlternates
