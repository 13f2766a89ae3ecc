SPECIFICATION FairSpec
CONSTANTS
    Channels = {"c1", "c2"}
    Services = {"p", "q"}
    Requests = {1, 2, 3, 4, 5}
    Source <- MCSource
    Target <- MCTarget
    ChannelSlots <- MCChannelSlots
    ServiceSlots <- MCServiceSlots
    MinionCount = 2
INVARIANTS
    TypeOK
    SlotAccount
    NoIdleSlot
PROPERTIES
    ImplementsAdmission
    Answered
    SlotsReturn
CHECK_DEADLOCK FALSE
