SPECIFICATION Spec
CONSTANTS
    None = None
    A = A
    B = B
    Components = {A, B}
    Places = {"body", "parameter"}
    Fields = {"f", "g", "o"}
    Lists = {"o"}
    Schemas <- MCSchemas
    Documents <- MCDocuments
    RecursionLimit = 5
INVARIANTS ExpansionEnds
CHECK_DEADLOCK FALSE
