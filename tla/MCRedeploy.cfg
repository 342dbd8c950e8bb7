SPECIFICATION Spec
CONSTANTS
    a1 = a1
    a2 = a2
    Servers = {s1}
    Clients = {c1, c2}
    AuthServers = {a1, a2}
    Lenient = {}
    ResponseIss = {TRUE, FALSE}
    Upstreams <- ThreeUpstreams
    Flows = {f1}
    Grants = {g1}
    Pairs = {p1, p2}
    Requests = {r1}
    MaxSettings = 2
    MaxGen = 1
    None = None
SYMMETRY Symmetry
INVARIANTS TypeOK CredentialCustody CodeReachesItsIssuer
CHECK_DEADLOCK FALSE
