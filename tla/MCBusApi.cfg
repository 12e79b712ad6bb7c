SPECIFICATION Spec
CONSTANTS
    c1 = c1
    c2 = c2
    Clients = {c1, c2}
    Calls <- MCCalls
    Names <- MCNames
    Types <- MCTypes
    Values <- MCValues
    Convertible <- MCConvertible
    Defaults <- MCDefaults
    RefModulus = 2
    Faults = TRUE
    ForeignUnlock = FALSE
    Absent = Absent
    None = None
    Free = Free
SYMMETRY MCSymmetry
INVARIANTS TypeOK OneWorks AppliedSoFar
PROPERTY Atomic
