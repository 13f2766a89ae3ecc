SPECIFICATION FairSpec
CONSTANTS
    Jobs = {"x", "y"}
    Minions = {"m1", "m2"}
    Mark <- NarrowMark
    NoJob = NoJob
    Users = {u1}
    TimerThread = timer
    Units <- MCUnits
    UserOps = {"Submit"}
    RunOps <- Mixed
    OtherOps <- NoOps
    Careful = {"y"}
    MaxRevokes = 0
PROPERTIES
    SubmitRuns
