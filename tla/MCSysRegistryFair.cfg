\* The shipped build, with saves and loads that fail.  Without sync and reload, which can stop it (MCSysRegistryLockCycle).
SPECIFICATION FairSpec
CONSTANTS
    c1 = c1
    c2 = c2
    Clients = {c1, c2}
    Ops = {"set", "get"}
    MaxValue = 1
    RefModulus = 4
    Hal = TRUE
    SaveFaults = TRUE
    ForeignUnlock = FALSE
    Absent = Absent
    Missing = Missing
    Free = Free
    Main = Main
    Timer = Timer
    Reset = Reset
INVARIANT LocksExclude
PROPERTIES EveryRequestEnds QuietIsFlushed
