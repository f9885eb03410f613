\* every command line; one or two stacks of up to two frames
SPECIFICATION Spec
CONSTANTS
    Profiles <- SomeProfiles
    SpawnMayFail = TRUE
INVARIANTS
    ExitCodeIsHonest
    OnlyTextLosesProfiles
    ErrorsEndIt
CHECK_DEADLOCK FALSE
