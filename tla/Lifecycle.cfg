SPECIFICATION FairSpec
CONSTANTS
    Plugins = {"A", "B"}
    Order <- MCOrder
    Clients = {c1, c2}
    Worker = w
    SubSystems = {"NETWORK", "PLATFORM"}
    Platform = {"PLATFORM"}
    Preconditions <- FullPreconditions
    Terminations <- MCTerminations
    Controls <- MCControls
    Suspendable = {"A", "B"}
    AutoResume = {"A"}
    Hosted = {"B"}
    Operations = {"Activate", "Deactivate", "Resume", "Suspend", "Hibernate", "Unavailable"}
    Reasons = {"REQUESTED"}
    MaxRequests = 3
    MaxProcess = 2
    NoPlugin = NoPlugin
    NoThread = NoThread
INVARIANTS
    TypeOK
    HandlerAlive
    NeverAbandoned
    IInv
    StateControlAlive
PROPERTIES
    ImplementsContract
    RequestsReturn
    Settles
