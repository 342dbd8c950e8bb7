SPECIFICATION Spec
CONSTANTS
    Keys = {k1, k2}
    Values = {v1, v2}
    Absent = Absent
    Unlimited = Unlimited
    Times <- MCTimes
    TTLs <- MCTTLs
INVARIANTS TypeOK DeadlinesHaveData
PROPERTIES KeepsContract
