SPECIFICATION FairSpec
CONSTANTS
    Size = 7
    Lengths = {3, 4}
    ReadSize = 2
    Unknown = {3}
    MaxEntries = 4
INVARIANTS
    TypeOK
PROPERTIES
    ImplementsFifo
    NoNeedlessLoss
    RingHeard
CHECK_DEADLOCK FALSE
