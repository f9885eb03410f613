\* the same, against the README
SPECIFICATION Spec
CONSTANTS
    Profiles <- SomeProfiles
    SpawnMayFail = TRUE
INVARIANTS
    TextIsPrinted
CHECK_DEADLOCK FALSE
