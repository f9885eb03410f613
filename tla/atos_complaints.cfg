\* the same, against the check of standard error in osx-atos.js
SPECIFICATION FairSpec
CONSTANTS
    a = a
    b = b
    Addresses <- TwoAddresses
    JsFrame = js
    MaxFrames = 3
    NL = nl
    Noise = noise
    MaxNoise = 2
INVARIANTS
    ComplaintIsAnError
CHECK_DEADLOCK FALSE
