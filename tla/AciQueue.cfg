SPECIFICATION Spec
CONSTANTS
    ACI_QUEUE_SIZE = 4
    Msg = {m1, m2}
    Blank = Blank
INVARIANT TypeOK
PROPERTY RefinesFifo
