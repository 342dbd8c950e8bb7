------------------------ MODULE AuthorizationCodeInv ------------------------
(***************************************************************************)
(* The inductive invariant: what every record, and every handler between   *)
(* two steps, keeps of the checks made earlier.                            *)
(***************************************************************************)
EXTENDS AuthorizationCode

\* Records are never rewritten, so what was read of one stays true of it.
SignInsRecorded ==
    /\ \A g \in Grants : grant[g] # None => flow[grant[g].flow] # None
    /\ \A f \in Flows : flow[f] # None =>
          /\ asked[f] # None
          /\ flow[f].issuer <=> flow[f].upstream[1] = "issuer"

MappingsOutliveRecords ==
    /\ mcp_auth_code \cap answered \subseteq code_mapping
    /\ mcp_access_token \subseteq access_mapping
    /\ mcp_refresh_token \subseteq refresh_mapping

CodesRecorded ==
    /\ \A g \in mcp_auth_code \cup code_mapping \cup answered : code[g] # None
    /\ \A g \in Grants : code[g] # None =>
          /\ g \in redeemed /\ grant[g] # None
          /\ OfServer(g, code[g].server)
          /\ code[g].client = flow[grant[g].flow].client
          /\ code[g].upstream[2] = grant[g].as
          /\ code[g].token[1] = g

PairsRecorded ==
    /\ \A p \in access_mapping \cup refresh_mapping : pair[p] # None
    /\ \A e \in ended : pair[e[1]] # None
    /\ \A p \in Pairs : pair[p] # None => code[pair[p].origin] # None

\* Only one handler ever holds the upstream's answer for a code.
CodeRedeemedOnce ==
    \A r \in Requests : request[r].step = "store_code" =>
       /\ request[r].grant \in redeemed
       /\ code[request[r].grant] = None
       /\ \A o \in Requests : request[o].step = "store_code"
             /\ request[o].grant = request[r].grant => o = r

Writing(q) == q.step \in {"store_token", "map", "spend"}
InCallback(q) == q.step \in {"redeem", "store_code", "store_token", "map", "spend"}
InExchange(q) == q.step \in {"exchange", "issue"}
OnPair(q) == q.step \in {"refresh", "renew", "rotate", "retire_access", "retire_refresh",
                         "revoke_access", "revoke_refresh", "delete_access",
                         "delete_refresh", "call", "send"}

CallbackSound(q) ==
    InCallback(q) =>
       /\ q.server \in Servers /\ q.client \in Clients /\ q.up \in Upstreams
       /\ q.grant \in Grants /\ grant[q.grant] # None
       /\ q.client = flow[grant[q.grant].flow].client
       /\ q.step = "redeem" => IssuerValid(grant[q.grant].flow, q.grant, q.up)
       /\ q.step # "redeem" => /\ q.token \in Tokens /\ q.token[1] = q.grant
                               /\ grant[q.grant].as = q.up.as
                               /\ OfServer(q.grant, q.server)
       /\ Writing(q) => /\ code[q.grant] # None
                        /\ code[q.grant].refresh = q.refresh
       /\ q.step = "spend" /\ q.grant \in mcp_auth_code => q.grant \in code_mapping

ExchangeSound(q) ==
    InExchange(q) =>
       /\ q.server \in Servers /\ q.client \in Clients /\ q.up \in Upstreams
       /\ q.grant \in Grants /\ code[q.grant] # None
       /\ q.client = code[q.grant].client
       /\ IsBoundHere(code[q.grant], q.server, q.up)
       /\ q.step = "issue" => q.token \in Tokens /\ q.token[1] = q.grant

PairSound(q) ==
    OnPair(q) =>
       /\ q.server \in Servers /\ q.client \in Clients /\ q.up \in Upstreams
       /\ q.pair \in Pairs /\ pair[q.pair] # None
       /\ q.client = pair[q.pair].client
       /\ IsBoundHere(pair[q.pair], q.server, q.up)
       /\ q.step \in {"renew", "rotate"} =>
             q.token \in Tokens /\ q.token[1] = pair[q.pair].origin
       /\ q.step = "send" /\ q.token # None => q.token[1] = pair[q.pair].origin
       /\ q.step = "send" /\ q.token = None => q.pair \notin mcp_access_token
       /\ q.step \in {"retire_refresh", "delete_refresh"} /\ q.pair \in refresh_mapping =>
             q.pair \notin mcp_access_token
       /\ q.step = "delete_access" /\ q.pair \in access_mapping =>
             q.pair \notin mcp_refresh_token

RequestsSound ==
    \A r \in Requests :
       CallbackSound(request[r]) /\ ExchangeSound(request[r]) /\ PairSound(request[r])

IInv ==
    /\ TypeOK
    /\ SignInsRecorded /\ MappingsOutliveRecords
    /\ CodesRecorded /\ PairsRecorded
    /\ CodeRedeemedOnce /\ RequestsSound
    /\ SessionMatchesSignIn /\ AnsweredStateIsSpent /\ EndedPairsStayDead

-----------------------------------------------------------------------------
\* Beyond that, for the upstream refresh tokens: none is newer than the last one
\* issued, and a handler about to replace a pair that can still be used holds one
\* no older than the pair's.
RefreshOrdered(q) ==
    /\ q.step \in {"store_code", "issue"} => q.refresh <= refreshGen[q.grant]
    /\ q.step = "renew" => q.refresh # 0 /\ q.refresh = pair[q.pair].refresh
    /\ q.step = "rotate" =>
          /\ q.refresh <= refreshGen[pair[q.pair].origin]
          /\ q.pair \in mcp_refresh_token => pair[q.pair].refresh <= q.refresh

RefreshTokensOrdered ==
    /\ \A g \in Grants :
          /\ refreshGen[g] <= accessGen[g]
          /\ refreshGen[g] # 0 => g \in redeemed
          /\ code[g] # None => code[g].refresh <= refreshGen[g]
    /\ \A p \in Pairs : pair[p] # None => pair[p].refresh <= refreshGen[pair[p].origin]
    /\ \A r \in Requests : RefreshOrdered(request[r])

=============================================================================
