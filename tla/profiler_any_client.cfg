\* index.js on tracer.mac.js, with a client that may do anything
SPECIFICATION Spec
CONSTANTS
    Platform = "mac"
    Pids = {p1, p2}
    Faults <- AllFaults
    MaxSessions = 2
    Client <- AnyClient
INVARIANTS
    TypeOK
    StoppedOnlyByCrash
    SessionsApart
    ActiveSessionIsArmed
    CallbackAccounting
CHECK_DEADLOCK FALSE
