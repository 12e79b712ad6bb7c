\* The registry's own file interface, every operation that takes the thread lock.  The system really may stop (MCSysRegistryLockCycle), so deadlock is not checked.
SPECIFICATION Spec
CONSTANTS
    c1 = c1
    c2 = c2
    Clients = {c1, c2}
    Ops = {"set", "delete", "sync", "reload", "reset"}
    MaxValue = 1
    RefModulus = 4
    Hal = FALSE
    SaveFaults = FALSE
    ForeignUnlock = FALSE
    Absent = Absent
    Missing = Missing
    Free = Free
    Main = Main
    Timer = Timer
    Reset = Reset
SYMMETRY ClientSymmetry
INVARIANTS
    TypeOK
    LocksExclude
    LagIsScheduled
    TimerSavesTheTree
    FlushStores
    TermSavesSettings
    OnlyLockCycle
PROPERTY WritesBack
CHECK_DEADLOCK FALSE
