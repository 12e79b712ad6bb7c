\* Imports, saves and updates at any time, and every I/O call may fail.
SPECIFICATION Spec
CONSTANTS
    Docs <- MCDocs
    Factory <- MCFactory
    NewConfig <- MCUser
    Fitted <- MCFitted
    Faults = TRUE
    Missing = Missing
INVARIANTS TypeOK ImportLasts OldSurvives NoCiphertext SlotsKept
