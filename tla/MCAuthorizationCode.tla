------------------------ MODULE MCAuthorizationCode ------------------------
EXTENDS AuthorizationCodeInv, TLC

CONSTANTS a1, a2

OneUpstream == {[as |-> a1, issuer |-> TRUE]}
TwoUpstreams == {[as |-> a, issuer |-> TRUE] : a \in {a1, a2}}
Renamed == {[as |-> a1, issuer |-> FALSE], [as |-> a2, issuer |-> TRUE]}
ThreeUpstreams == Renamed \cup {[as |-> a1, issuer |-> TRUE]}

Symmetry ==
    Permutations(Servers) \cup Permutations(Clients) \cup Permutations(Flows)
        \cup Permutations(Grants) \cup Permutations(Pairs) \cup Permutations(Requests)
=============================================================================
