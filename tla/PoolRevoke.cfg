SPECIFICATION Spec
CONSTANTS
    Jobs = {"x", "y"}
    Minions = {"m1", "m2"}
    Mark <- WideMark
    NoJob = NoJob
    Users = {u1, u2}
    TimerThread = timer
    Units <- MCUnits
    UserOps = {"Submit", "Revoke", "Destroy"}
    RunOps <- NoOps
    OtherOps <- NoOps
    Careful = {"x", "y"}
    MaxRevokes = 4
CHECK_DEADLOCK FALSE
INVARIANTS
    JobAsserts
PROPERTIES
    RunsWhenAsked
