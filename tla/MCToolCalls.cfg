SPECIFICATION Spec
CONSTANTS
    None = None
    Clean <- MCClean
    Plain = {"id", "q", "x_v"}
    Servers <- MCServers
INVARIANTS TypeOK ExposesWhatPolicyAdmits ResourcesCanBeRead ArgumentsArrive HiddenStaysTheAuthors NoPlaceholderLeft
CHECK_DEADLOCK FALSE
