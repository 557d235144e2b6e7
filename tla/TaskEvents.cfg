SPECIFICATION FairSpec
CONSTANTS
    Writers = {w1, w2}
    Browsers = {b1}
    Capacity = 1
    MaxEvents = 3
INVARIANTS
    TypeOK EachEventOnce OrderPerWriter
PROPERTIES
    EndReachesBrowser
