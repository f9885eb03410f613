\* index.js on tracer.mac.js, with a client that waits for each answer
SPECIFICATION FairSpec
CONSTANTS
    Platform = "mac"
    Pids = {p1, p2}
    Faults <- AllFaults
    MaxSessions = 2
    Client <- SerialClient
INVARIANTS
    AnswersItsCaller
    SymbolsFromSampledProcess
    TimersOutliveOnlyFailures
PROPERTIES
    KeepsCalls
CHECK_DEADLOCK FALSE
