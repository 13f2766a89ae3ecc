SPECIFICATION FairSpec
CONSTANTS
    Users = {"u1", "u2"}
    MaxProxies = 2
    Calls = {"c1", "c2"}
    MaxTakes = 2
    Roles = {"service", "sink"}
INVARIANTS
    TypeOK
    Account
    NoneOnDeleted
    
PROPERTIES
    ImplementsSharing
    Freed
CHECK_DEADLOCK FALSE
