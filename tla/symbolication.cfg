\* profiles of up to three frames, with two addresses to name
SPECIFICATION FairSpec
CONSTANTS
    a = a
    b = b
    Addresses <- TwoAddresses
    JsFrame = js
    MaxFrames = 3
    NL = nl
    Noise = noise
    MaxNoise = 2
INVARIANTS
    TypeOK
    NamedByAtos
    ShortOutputIsAnError
PROPERTIES
    KeepsPromise
    Answered
CHECK_DEADLOCK FALSE
