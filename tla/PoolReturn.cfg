SPECIFICATION FairSpec
CONSTANTS
    Jobs = {"x"}
    Minions = {"m1"}
    Mark <- WideMark
    NoJob = NoJob
    Users = {u1, u2}
    TimerThread = timer
    Units <- MCUnits
    UserOps = {"Submit", "Revoke"}
    RunOps <- Revoking
    OtherOps <- NoOps
    Careful = {}
    MaxRevokes = 2
CHECK_DEADLOCK FALSE
PROPERTIES
    RevokesReturn
