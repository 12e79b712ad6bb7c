\* Any open, write or copy may fail, at any point.
SPECIFICATION FairSpec
CONSTANTS
    Config = {c1, c2, factory}
    Default = factory
    Missing = Missing
    Empty = Empty
    Torn = Torn
    IoFaults = TRUE
INVARIANT TypeOK
PROPERTIES
    SuccessIsDurable
    EveryCallEnds
