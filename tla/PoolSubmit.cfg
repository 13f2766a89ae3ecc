SPECIFICATION Spec
CONSTANTS
    Jobs = {"x", "y"}
    Minions = {"m1", "m2"}
    Mark <- WideMark
    NoJob = NoJob
    Users = {u1, u2}
    TimerThread = timer
    Units <- MCUnits
    UserOps = {"Submit"}
    RunOps <- Repeating
    OtherOps <- Submitting
    Careful = {}
    MaxRevokes = 0
INVARIANTS
    TypeOK
    OneRun
    SubmittedOnce
