SPECIFICATION Spec
CONSTANTS
    a1 = a1
    a2 = a2
    Servers = {s1, s2}
    Clients = {c1}
    AuthServers = {a1, a2}
    Lenient = {a2}
    ResponseIss = {TRUE}
    Upstreams <- TwoUpstreams
    Flows = {f1, f2}
    Grants = {g1, g2}
    Pairs = {p1}
    Requests = {r1}
    MaxSettings = 1
    MaxGen = 1
    None = None
SYMMETRY Symmetry
INVARIANTS SessionMatchesSignIn CredentialCustody
CHECK_DEADLOCK FALSE
