SPECIFICATION Spec
CONSTANTS
    None = None
    A = A
    B = B
    Components = {A, B}
    Places = {"body", "parameter"}
    Fields = {"f", "g", "o"}
    Lists = {"o"}
    Schemas <- MCSchemas
    Documents <- MCDocuments
    RecursionLimit = 5
INVARIANTS NothingDangles SaysWhatTheSpecSays CutOnlyInPlace
PROPERTIES EntriesStay
CHECK_DEADLOCK FALSE
