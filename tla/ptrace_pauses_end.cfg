\* the same, against the README's promise
SPECIFICATION FairSpec
CONSTANTS
    MaxSignals = 2
    MaxStackDepth = 2
PROPERTIES
    PausesEnd
CHECK_DEADLOCK FALSE
