\* three profilers of one macOS task, two of which may be killed
SPECIFICATION FairSpec
CONSTANTS
    a = a
    b = b
    c = c
    Profilers <- ThreeProfilers
    Killable <- TwoMayDie
    MaxStackDepth = 2
INVARIANTS
    TypeOK
    NoResumeLost
    RunsBetweenSamples
    TornOnlyByOthers
PROPERTIES
    SuspendedRunsAgain
CHECK_DEADLOCK FALSE
