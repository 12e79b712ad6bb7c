CONSTANTS
    Word = 4
    Documents <- MCDocuments
    Names = {"x"}
    BusValues <- MCBusValues
    Faults = TRUE
SPECIFICATION Spec
INVARIANTS TypeOK SavesSurvive SavedLoads ReloadKeeps LoadedSoFar
PROPERTY LoadEnds
