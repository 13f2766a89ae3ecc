SPECIFICATION FairSpec
CONSTANTS
    Calls = {"i", "j", "a"}
    NoCall = NoCall
    Label <- MCLabel
    Sides = {"server", "client"}
    Impatient <- Methods
    MaxAsked = 1
INVARIANTS
    TypeOK
    OneOutbound
PROPERTIES
    ImplementsCall
    CallsReturn
CHECK_DEADLOCK FALSE
