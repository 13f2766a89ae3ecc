SPECIFICATION Spec
CONSTANTS
    Plugins = {"A", "B"}
    Order <- MCOrder
    Clients = {c1, c2}
    Worker = w
    SubSystems = {"NETWORK"}
    Platform = {}
    Preconditions <- MCPreconditions
    Terminations <- MCTerminations
    Controls <- MCControls
    Suspendable = {}
    AutoResume = {}
    Hosted = {}
    Operations = {"Activate", "Deactivate"}
    Reasons = {"REQUESTED"}
    MaxRequests = 3
    MaxProcess = 0
    NoPlugin = NoPlugin
    NoThread = NoThread
INVARIANTS
    NobodyForgotten
