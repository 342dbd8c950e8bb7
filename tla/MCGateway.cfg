SPECIFICATION Spec
CONSTANTS
    s1 = s1
    s2 = s2
    None = None
    Names = {s1, s2}
    PathPrefix <- NoPrefix
    Entries <- AllEntries
    Documents <- Published
    Passthroughs <- AppHeaders
    MaxSources = 2
INVARIANTS TypeOK DiscoveryLeadsBack NothingIsGuessed ClosedAfterServing StopsClean
CHECK_DEADLOCK FALSE
