\* two files that may be unreadable or malformed, three memory maps
SPECIFICATION FairSpec
CONSTANTS
    f = f
    g = g
    unreadable = unreadable
    malformed = malformed
    null = null
    foo = foo
    bar = bar
    baz = baz
    Maps <- SomeMaps
    Files <- TwoFiles
    Names <- SomeNames
    Elfs <- SomeElfs
    Unreadable = unreadable
    Malformed = malformed
    Addresses <- SomeAddresses
INVARIANTS
    TablesByName
    AnsweredOnce
    InsideHits
    NamedByItsRegion
PROPERTIES
    EndsReadyOrFailed
CHECK_DEADLOCK FALSE
