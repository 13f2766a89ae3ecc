SPECIFICATION Spec
CONSTANTS
    Jobs = {"a", "A", "b", "B", "c", "d"}
    Minions = {m1, m2, m3}
    Mark <- WideMark
    NoJob = NoJob
    Inserters = {i1}
    Callback <- MCCallback
    Priority <- MCPriority
    Revocable = {"b", "c"}
INVARIANTS
    TypeOK
    ParallelBound
    WorkConserving
