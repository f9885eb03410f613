\* a Linux process that gets up to six signals while it is profiled
SPECIFICATION FairSpec
CONSTANTS
    MaxSignals = 6
    MaxStackDepth = 2
INVARIANTS
    TypeOK
    ReadsStoppedProcess
    IdleStopsAreSignals
    DetachedIsFree
PROPERTIES
    WaitpidReturns
    SignalFreePausesEnd
CHECK_DEADLOCK FALSE
