SPECIFICATION Spec
CONSTANTS
    a1 = a1
    a2 = a2
    Servers = {s1}
    Clients = {c1}
    AuthServers = {a1}
    Lenient = {}
    ResponseIss = {TRUE}
    Upstreams <- OneUpstream
    Flows = {f1}
    Grants = {g1}
    Pairs = {p1, p2}
    Requests = {r1, r2}
    MaxSettings = 1
    MaxGen = 2
    None = None
SYMMETRY Symmetry
INVARIANTS EndedPairsStayDead CallsCarryCredential AnsweredStateIsSpent
PROPERTIES NewestRefreshTokenKept
CHECK_DEADLOCK FALSE
