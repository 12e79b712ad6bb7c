\* No I/O faults: the files are a crash-safe register.
SPECIFICATION Spec
CONSTANTS
    Config = {c1, c2, factory}
    Default = factory
    Missing = Missing
    Empty = Empty
    Torn = Torn
    IoFaults = FALSE
INVARIANTS
    IInv
PROPERTIES
    Durable
    KeepsOneIntact
    LoadsWhatSurvived
    ResetStays
