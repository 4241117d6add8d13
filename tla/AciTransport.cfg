SPECIFICATION FairSpec
CONSTANTS
    ACI_QUEUE_SIZE = 4
    Cmd = {c1, c2, big}
    Oversize = {big}
    Evt = {e1, e2}
    NoEvt = NoEvt
    MaxInbox = 1
    MaxPending = 2
INVARIANTS TypeOK NoLostWakeup
PROPERTIES RefinesLink CommandsMove EventsMove
