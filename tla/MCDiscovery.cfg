SPECIFICATION Spec
CONSTANTS
    s1 = s1
    s2 = s2
    None = None
    Names = {s1, s2}
    PathPrefix <- OnePrefix
    Entries <- AllEntries
    Documents <- Published
    Passthroughs <- AppHeaders
    MaxSources = 2
INVARIANTS DiscoveryLeadsBack
CHECK_DEADLOCK FALSE
