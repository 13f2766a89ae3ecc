SPECIFICATION FairSpec
CONSTANTS
    Jobs = {"a", "A", "b", "B", "c", "d"}
    Minions = {m1, m2}
    Mark <- MCMark
    NoJob = NoJob
    Inserters = {i1}
    Callback <- MCCallback
    Priority <- MCPriority
    Revocable = {}
PROPERTIES
    Served
    CalledBack
