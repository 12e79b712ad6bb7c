\* SIGTERM while the registry is being loaded.
SPECIFICATION Spec
CONSTANTS
    c1 = c1
    c2 = c2
    Clients = {c1}
    Ops = {"set"}
    MaxValue = 1
    RefModulus = 4
    Hal = TRUE
    SaveFaults = FALSE
    ForeignUnlock = FALSE
    Absent = Absent
    Missing = Missing
    Free = Free
    Main = Main
    Timer = Timer
    Reset = Reset
INVARIANT TermKeepsSettings
