-------------------------- MODULE AuthorizationCode --------------------------
(***************************************************************************)
(* AuthorizationCodeProvider (auth/flows/authorization_code.py): the       *)
(* gateway as OAuth server in front of an upstream that has its own.       *)
(* Every server of the gateway, and every replica of the gateway, runs a   *)
(* provider over ONE token store.  A handler awaits the store and the      *)
(* upstream between its steps, so handlers interleave at those points.     *)
(*                                                                         *)
(* Variables named mcp_* and api_* are the store's namespaces: the set of  *)
(* keys whose record is present.  A secret is named by what it was made    *)
(* for: a state by its sign-in (Flows), an upstream code and the MCP code  *)
(* that answers it by the user's consent (Grants), an access and refresh   *)
(* token minted together by their pair (Pairs), and the n-th upstream      *)
(* access token of a consent by <<g, n>>.                                  *)
(***************************************************************************)
EXTENDS Naturals, FiniteSets

CONSTANTS Servers,      \* servers of the gateway, each with its own issuer
          Clients,      \* MCP client ids
          AuthServers,  \* upstream authorization servers
          Lenient,      \* those that redeem a code whatever its redirect_uri
          ResponseIss,  \* whether their responses name them (iss): {TRUE}, {FALSE} or both
          Upstreams,    \* auth.upstream settings a server may be deployed with
          Flows,        \* sign-ins: calls of authorize(), each with a fresh state
          Grants,       \* consents of a user at an upstream, one code each
          Pairs,        \* access and refresh tokens minted together
          Requests,     \* handlers in flight
          MaxSettings,  \* bound on the settings a server runs with at a time
          MaxGen,       \* bound on the upstream tokens issued for one consent
          None

ASSUME ProviderAssumption ==
    /\ MaxGen \in Nat \ {0}
    /\ Lenient \subseteq AuthServers /\ ResponseIss \subseteq BOOLEAN
    /\ Upstreams \subseteq [as: AuthServers, issuer: BOOLEAN]
    /\ None \notin Servers \cup Clients \cup Flows \cup Grants \cup Pairs
    /\ None \notin Grants \X (1..MaxGen)

VARIABLES
    running,            \* settings each server's replicas run with
    mcp_client,         \* registered clients
    mcp_auth_state, flow,
    asked,              \* the server whose callback URL the authorize URL names
    mcp_auth_code, code_mapping, code,
    mcp_access_token, access_mapping, mcp_refresh_token, refresh_mapping, pair,
    api_access_token,
    request,            \* the handlers' local variables
    grant, redeemed, accessGen, refreshGen,     \* the upstreams' own state
    answered,           \* history: the codes browsers were sent back with
    ended               \* history: the tokens whose revocation or rotation finished

replicas == <<running>>
signIn == <<mcp_client, mcp_auth_state, flow, asked>>
codes == <<mcp_auth_code, code_mapping, code, answered>>
tokens == <<mcp_access_token, access_mapping, mcp_refresh_token, refresh_mapping, pair>>
idp == <<grant, redeemed, accessGen, refreshGen>>
vars == <<replicas, signIn, codes, tokens, api_access_token, request, idp, ended>>

Tokens == Grants \X (1..MaxGen)
Gens == 0..MaxGen

\* UpstreamOAuthClient.authorization_server: the issuer if set, else token_url.
AuthorizationServer(u) ==
    IF u.issuer THEN <<"issuer", u.as>> ELSE <<"token_url", u.as>>
UpstreamIds == {"issuer", "token_url"} \X AuthServers

\* A state record is stored under the bare state and names no server.
FlowRecord == [client: Clients, issuer: BOOLEAN, upstream: UpstreamIds]
CodeRecord == [server: Servers, client: Clients, upstream: UpstreamIds,
               token: Tokens, refresh: Gens]
PairRecord == [server: Servers, client: Clients, upstream: UpstreamIds,
               token: Tokens, refresh: Gens, origin: Grants]
GrantRecord == [flow: Flows, as: AuthServers, iss: BOOLEAN]

ASSUME NoneAssumption ==
    None \notin FlowRecord \cup CodeRecord \cup PairRecord \cup GrantRecord

Steps == {"idle", "redeem", "store_code", "store_token", "map", "spend", "exchange", "issue",
          "refresh", "renew", "rotate", "retire_access", "retire_refresh",
          "revoke_access", "revoke_refresh", "delete_access", "delete_refresh",
          "call", "send"}

RequestRecord == [step: Steps, server: Servers \cup {None}, up: Upstreams \cup {None},
                  client: Clients \cup {None}, grant: Grants \cup {None},
                  pair: Pairs \cup {None}, token: Tokens \cup {None},
                  refresh: Gens, stored: BOOLEAN]

Idle == [step |-> "idle", server |-> None, up |-> None, client |-> None,
         grant |-> None, pair |-> None, token |-> None, refresh |-> 0,
         stored |-> TRUE]

TypeOK ==
    /\ running \in [Servers -> SUBSET Upstreams]
    /\ mcp_client \subseteq Servers \X Clients
    /\ mcp_auth_state \subseteq Flows
    /\ flow \in [Flows -> FlowRecord \cup {None}]
    /\ asked \in [Flows -> Servers \cup {None}]
    /\ mcp_auth_code \subseteq Grants /\ code_mapping \subseteq Grants
    /\ code \in [Grants -> CodeRecord \cup {None}]
    /\ mcp_access_token \subseteq Pairs /\ access_mapping \subseteq Pairs
    /\ mcp_refresh_token \subseteq Pairs /\ refresh_mapping \subseteq Pairs
    /\ pair \in [Pairs -> PairRecord \cup {None}]
    /\ api_access_token \subseteq Tokens
    /\ request \in [Requests -> RequestRecord]
    /\ grant \in [Grants -> GrantRecord \cup {None}]
    /\ redeemed \subseteq Grants
    /\ accessGen \in [Grants -> Gens] /\ refreshGen \in [Grants -> Gens]
    /\ answered \subseteq Grants
    /\ ended \subseteq Pairs \X {"access", "refresh"}

Init ==
    /\ running \in [Servers -> {{u} : u \in Upstreams}]
    /\ mcp_client = {} /\ mcp_auth_state = {} /\ flow = [f \in Flows |-> None]
    /\ asked = [f \in Flows |-> None]
    /\ mcp_auth_code = {} /\ code_mapping = {} /\ code = [g \in Grants |-> None]
    /\ mcp_access_token = {} /\ access_mapping = {}
    /\ mcp_refresh_token = {} /\ refresh_mapping = {}
    /\ pair = [p \in Pairs |-> None]
    /\ api_access_token = {}
    /\ request = [r \in Requests |-> Idle]
    /\ grant = [g \in Grants |-> None] /\ redeemed = {}
    /\ accessGen = [g \in Grants |-> 0] /\ refreshGen = [g \in Grants |-> 0]
    /\ answered = {} /\ ended = {}

-----------------------------------------------------------------------------
\* Handlers take a free slot, keep their locals in it, and free it on return.
At(r, step) == request[r].step = step
Begin(r, step, s, u, c, g, p) ==
    /\ At(r, "idle")
    /\ u \in running[s]
    /\ request' = [request EXCEPT ![r] =
          [step |-> step, server |-> s, up |-> u, client |-> c, grant |-> g,
           pair |-> p, token |-> None, refresh |-> 0, stored |-> TRUE]]
Holding(r, step, token, refresh, stored) ==
    request' = [request EXCEPT ![r] =
       [@ EXCEPT !.step = step, !.token = token, !.refresh = refresh, !.stored = stored]]
Goto(r, step) == request' = [request EXCEPT ![r] = [@ EXCEPT !.step = step]]
Return(r) == request' = [request EXCEPT ![r] = Idle]

\* _client_key and _is_bound_here.  (A definition marked "variant" is a slip of
\* the one after it, kept to show which property notices.)
ClientKeyShared(s, c) == c      \* variant
ClientKey(s, c) == <<s, c>>
IsBoundToServer(data, s, u) == data.server = s      \* variant
IsBoundToUpstream(data, s, u) == data.upstream = AuthorizationServer(u)      \* variant
IsBoundHere(data, s, u) ==
    data.server = s /\ data.upstream = AuthorizationServer(u)

-----------------------------------------------------------------------------
\* Deployment.  During a rolling deployment replicas with the old and the new
\* settings of a server run side by side.
Deploy(s, u) ==
    /\ u \notin running[s] /\ Cardinality(running[s]) < MaxSettings
    /\ running' = [running EXCEPT ![s] = @ \cup {u}]
    /\ UNCHANGED <<signIn, codes, tokens, api_access_token, request, idp, ended>>

Undeploy(s, u) ==
    /\ u \in running[s] /\ running[s] # {u}
    /\ running' = [running EXCEPT ![s] = @ \ {u}]
    /\ UNCHANGED <<signIn, codes, tokens, api_access_token, request, idp, ended>>

\* The process serving r dies, the caller disconnects, or a store command
\* raises: what r had not written yet is never written.
Crash(r) ==
    /\ ~At(r, "idle")
    /\ Return(r)
    /\ UNCHANGED <<replicas, signIn, codes, tokens, api_access_token, idp, ended>>

-----------------------------------------------------------------------------
\* Sign-in: registration, the authorize redirect, the user's consent.
RegisterClient(s, c) ==
    /\ ClientKey(s, c) \notin mcp_client
    /\ mcp_client' = mcp_client \cup {ClientKey(s, c)}
    /\ UNCHANGED <<replicas, mcp_auth_state, flow, asked, codes, tokens,
                   api_access_token, request, idp, ended>>

\* get_client, then authorize: the state record remembers the upstream the
\* browser is sent to, and the URL it is sent to names this server's callback.
\* The state is the client's, if it sent one, or a random one; either way it is
\* assumed that no other sign-in has it.
Authorize(s, u, c, f) ==
    /\ u \in running[s]
    /\ ClientKey(s, c) \in mcp_client
    /\ flow[f] = None
    /\ flow' = [flow EXCEPT ![f] = [client |-> c, issuer |-> u.issuer,
                                    upstream |-> AuthorizationServer(u)]]
    /\ asked' = [asked EXCEPT ![f] = s]
    /\ mcp_auth_state' = mcp_auth_state \cup {f}
    /\ UNCHANGED <<replicas, mcp_client, codes, tokens, api_access_token, request,
                   idp, ended>>

\* The browser comes back with a code.  Usually it is from the upstream the
\* sign-in was sent to; iss (RFC 9207) tells when it is not, if it is there.
Consent(f, g, as, iss) ==
    /\ flow[f] # None
    /\ grant[g] = None
    /\ grant' = [grant EXCEPT ![g] = [flow |-> f, as |-> as, iss |-> iss]]
    /\ UNCHANGED <<replicas, signIn, codes, tokens, api_access_token, request,
                   redeemed, accessGen, refreshGen, ended>>

-----------------------------------------------------------------------------
\* handle_upstream_callback.

\* _validate_upstream_response_issuer: the sign-in was for the upstream this
\* replica uses, and iss names the recorded issuer if both are known.
UpstreamUnchanged(f, g, u) == flow[f].upstream = AuthorizationServer(u)      \* variant
IssuerValid(f, g, u) ==
    /\ flow[f].upstream = AuthorizationServer(u)
    /\ grant[g].iss /\ flow[f].issuer => flow[f].upstream = <<"issuer", grant[g].as>>

\* The request may be for the callback of any server: the state record does not
\* say whose sign-in it was, and all servers look it up in the one store.
CallbackBegin(r, s, u, g) ==
    /\ grant[g] # None
    /\ LET f == grant[g].flow IN
         /\ f \in mcp_auth_state
         /\ IssuerValid(f, g, u)
         /\ Begin(r, "redeem", s, u, flow[f].client, g, None)
    /\ UNCHANGED <<replicas, signIn, codes, tokens, api_access_token, idp, ended>>

\* The upstream redeems a code once, only a code of its own and, unless it is
\* lenient, only with the redirect_uri the browser came to it with (RFC 6749
\* 4.1.3); it may issue a refresh token with the access token.
UpstreamRedeems(r, refreshable) ==
    LET g == request[r].grant IN
    /\ grant[g].as = request[r].up.as
    /\ request[r].server = asked[grant[g].flow] \/ grant[g].as \in Lenient
    /\ g \notin redeemed
    /\ redeemed' = redeemed \cup {g}
    /\ accessGen' = [accessGen EXCEPT ![g] = 1]
    /\ refreshGen' = [refreshGen EXCEPT ![g] = IF refreshable THEN 1 ELSE 0]
    /\ UNCHANGED grant

CallbackRedeem(r, refreshable) ==
    /\ At(r, "redeem")
    /\ UpstreamRedeems(r, refreshable)
    /\ LET g == request[r].grant IN
         Holding(r, "store_code", <<g, accessGen'[g]>>, refreshGen'[g], FALSE)
    /\ UNCHANGED <<replicas, signIn, codes, tokens, api_access_token, ended>>

\* The upstream answers with an error, or not at all.
CallbackRefused(r) ==
    /\ At(r, "redeem")
    /\ Return(r)
    /\ UNCHANGED <<replicas, signIn, codes, tokens, api_access_token, idp, ended>>

\* The upstream redeems the code but its answer never arrives.
CallbackAnswerLost(r, refreshable) ==
    /\ At(r, "redeem")
    /\ UpstreamRedeems(r, refreshable)
    /\ Return(r)
    /\ UNCHANGED <<replicas, signIn, codes, tokens, api_access_token, ended>>

\* The writes after the upstream's answer, one by one: the code, the upstream
\* token (a ttl of zero or less makes Redis raise, which Crash covers), the
\* code's mappings, and the state's deletion, after which the browser is sent
\* back with the code.  code[g] holds what record and mappings say.
CallbackStoreCode(r) ==
    /\ At(r, "store_code")
    /\ LET q == request[r] IN
         /\ code' = [code EXCEPT ![q.grant] =
              [server |-> q.server, client |-> q.client,
               upstream |-> AuthorizationServer(q.up),
               token |-> q.token, refresh |-> q.refresh]]
         /\ mcp_auth_code' = mcp_auth_code \cup {q.grant}
    /\ Goto(r, "store_token")
    /\ UNCHANGED <<replicas, signIn, code_mapping, answered, tokens, api_access_token,
                   idp, ended>>

CallbackStoreToken(r) ==
    /\ At(r, "store_token")
    /\ api_access_token' = api_access_token \cup {request[r].token}
    /\ Goto(r, "map")
    /\ UNCHANGED <<replicas, signIn, codes, tokens, idp, ended>>

\* Both mappings: nobody knows the code yet, so nobody sees one without the other.
CallbackMap(r) ==
    /\ At(r, "map")
    /\ code_mapping' = code_mapping \cup {request[r].grant}
    /\ Goto(r, "spend")
    /\ UNCHANGED <<replicas, signIn, mcp_auth_code, code, answered, tokens,
                   api_access_token, idp, ended>>

KeepState(f) == UNCHANGED mcp_auth_state      \* variant
SpendState(f) == mcp_auth_state' = mcp_auth_state \ {f}

CallbackSpend(r) ==
    /\ At(r, "spend")
    /\ SpendState(grant[request[r].grant].flow)
    /\ answered' = answered \cup {request[r].grant}
    /\ Return(r)
    /\ UNCHANGED <<replicas, mcp_client, flow, asked, mcp_auth_code, code_mapping, code,
                   tokens, api_access_token, idp, ended>>

-----------------------------------------------------------------------------
\* _issue_mcp_token: a fresh pair, its records, and the mappings of each token
\* with its record's ttl.  Nobody knows the new tokens before the response, so
\* the seven writes are one step.
IssueMcpToken(r, p, origin) ==
    /\ pair[p] = None
    /\ pair' = [pair EXCEPT ![p] =
          [server |-> request[r].server, client |-> request[r].client,
           upstream |-> AuthorizationServer(request[r].up),
           token |-> request[r].token, refresh |-> request[r].refresh,
           origin |-> origin]]
    /\ mcp_access_token' = mcp_access_token \cup {p}
    /\ access_mapping' = access_mapping \cup {p}
    /\ mcp_refresh_token' = mcp_refresh_token \cup {p}
    /\ refresh_mapping' = refresh_mapping \cup {p}

-----------------------------------------------------------------------------
\* exchange_authorization_code.  The code record is only read, never deleted.
\* A client has no code before a browser brings it.
ExchangeBegin(r, s, u, c, g) ==
    /\ g \in answered
    /\ ClientKey(s, c) \in mcp_client
    /\ g \in mcp_auth_code
    /\ code[g].client = c
    /\ IsBoundHere(code[g], s, u)
    /\ Begin(r, "exchange", s, u, c, g, None)
    /\ UNCHANGED <<replicas, signIn, codes, tokens, api_access_token, idp, ended>>

\* The upstream token a code stands for: its own mapping, nothing else.
TokensOfClient(g, c) ==      \* variant
    IF g \in code_mapping THEN {code[g].token}
    ELSE {t \in api_access_token :
             \E h \in Grants : code[h] # None /\ code[h].client = c /\ code[h].token = t}
MappedTokens(g, c) == IF g \in code_mapping THEN {code[g].token} ELSE {}

ExchangeRead(r) ==
    /\ At(r, "exchange")
    /\ LET g == request[r].grant IN
         \E t \in MappedTokens(g, request[r].client) :
            \/ /\ Holding(r, "issue", t, code[g].refresh, TRUE)
               /\ UNCHANGED code_mapping
            \* The mappings reach their ttl between the two reads.
            \/ /\ g \notin mcp_auth_code
               /\ Holding(r, "issue", t, 0, TRUE)
               /\ code_mapping' = code_mapping \ {g}
    /\ UNCHANGED <<replicas, signIn, mcp_auth_code, code, answered, tokens,
                   api_access_token, idp, ended>>

\* The mapping lapsed after the record was read: invalid_grant.
ExchangeRejected(r) ==
    /\ At(r, "exchange")
    /\ MappedTokens(request[r].grant, request[r].client) = {}
    /\ Return(r)
    /\ UNCHANGED <<replicas, signIn, codes, tokens, api_access_token, idp, ended>>

ExchangeIssue(r, p) ==
    /\ At(r, "issue")
    /\ IssueMcpToken(r, p, request[r].grant)
    /\ Return(r)
    /\ UNCHANGED <<replicas, signIn, codes, api_access_token, idp, ended>>

-----------------------------------------------------------------------------
\* exchange_refresh_token.
RefreshBegin(r, s, u, c, p) ==
    /\ ClientKey(s, c) \in mcp_client
    /\ p \in mcp_refresh_token
    /\ pair[p].client = c
    /\ IsBoundHere(pair[p], s, u)
    /\ Begin(r, "refresh", s, u, c, None, p)
    /\ UNCHANGED <<replicas, signIn, codes, tokens, api_access_token, idp, ended>>

UpstreamTokenHeld(p) == pair[p].token \in api_access_token

\* The upstream token is still good: rotate over it.  The second mapping may
\* reach its ttl before it is read.
RefreshKeep(r) ==
    /\ At(r, "refresh")
    /\ LET p == request[r].pair IN
         /\ p \in refresh_mapping
         /\ UpstreamTokenHeld(p)
         /\ \/ /\ Holding(r, "rotate", pair[p].token, pair[p].refresh, TRUE)
               /\ UNCHANGED refresh_mapping
            \/ /\ p \notin mcp_refresh_token
               /\ Holding(r, "rotate", pair[p].token, 0, TRUE)
               /\ refresh_mapping' = refresh_mapping \ {p}
    /\ UNCHANGED <<replicas, signIn, codes, mcp_access_token, access_mapping,
                   mcp_refresh_token, pair, api_access_token, idp, ended>>

\* It lapsed, and there is an upstream refresh token to renew it with.
RefreshRenew(r) ==
    /\ At(r, "refresh")
    /\ LET p == request[r].pair IN
         /\ p \in refresh_mapping
         /\ ~UpstreamTokenHeld(p)
         /\ pair[p].refresh # 0
         /\ Holding(r, "renew", pair[p].token, pair[p].refresh, FALSE)
    /\ UNCHANGED <<replicas, signIn, codes, tokens, api_access_token, idp, ended>>

\* It lapsed and there is none: invalid_grant, "re-authenticate".
RefreshNeedsSignIn(r) ==
    /\ At(r, "refresh")
    /\ LET p == request[r].pair IN
         /\ p \in refresh_mapping
         /\ ~UpstreamTokenHeld(p)
         /\ pair[p].refresh = 0
    /\ Return(r)
    /\ UNCHANGED <<replicas, signIn, codes, tokens, api_access_token, idp, ended>>

\* The mapping lapsed after the record was read: invalid_grant.
RefreshMappingLost(r) ==
    /\ At(r, "refresh")
    /\ request[r].pair \notin refresh_mapping
    /\ Return(r)
    /\ UNCHANGED <<replicas, signIn, codes, tokens, api_access_token, idp, ended>>

\* The upstream renews for its newest refresh token only, and may rotate it.
UpstreamRenews(r, rotates) ==
    LET g == request[r].token[1] IN
    /\ grant[g].as = request[r].up.as
    /\ request[r].refresh = refreshGen[g]
    /\ accessGen[g] < MaxGen
    /\ accessGen' = [accessGen EXCEPT ![g] = @ + 1]
    /\ refreshGen' = [refreshGen EXCEPT ![g] = IF rotates THEN accessGen[g] + 1 ELSE @]
    /\ UNCHANGED <<grant, redeemed>>

\* new_refresh or api_refresh_token, where 0 stands for None.
NewOnly(new, old) == new      \* variant
NewOrOld(new, old) == IF new # 0 THEN new ELSE old

RefreshUpstream(r, rotates) ==
    /\ At(r, "renew")
    /\ UpstreamRenews(r, rotates)
    /\ LET g == request[r].token[1] IN
         Holding(r, "rotate", <<g, accessGen'[g]>>,
                 NewOrOld(IF rotates THEN refreshGen'[g] ELSE 0, request[r].refresh), FALSE)
    /\ UNCHANGED <<replicas, signIn, codes, tokens, api_access_token, ended>>

RefreshRefused(r) ==
    /\ At(r, "renew")
    /\ Return(r)
    /\ UNCHANGED <<replicas, signIn, codes, tokens, api_access_token, idp, ended>>

RefreshAnswerLost(r, rotates) ==
    /\ At(r, "renew")
    /\ UpstreamRenews(r, rotates)
    /\ Return(r)
    /\ UNCHANGED <<replicas, signIn, codes, tokens, api_access_token, ended>>

\* _store_api_token if the upstream token is new, then _issue_mcp_token.
RefreshIssue(r, p) ==
    /\ At(r, "rotate")
    /\ api_access_token' = IF request[r].stored THEN api_access_token
                           ELSE api_access_token \cup {request[r].token}
    /\ IssueMcpToken(r, p, pair[request[r].pair].origin)
    /\ Goto(r, "retire_access")
    /\ UNCHANGED <<replicas, signIn, codes, idp, ended>>

\* Delete the old access token, found through the old refresh token's mapping.
LeaveAccess(r) ==      \* variant
    /\ At(r, "retire_access")
    /\ Goto(r, "retire_refresh")
    /\ UNCHANGED <<replicas, signIn, codes, tokens, api_access_token, idp, ended>>

RetireAccess(r) ==
    /\ At(r, "retire_access")
    /\ mcp_access_token' = IF request[r].pair \in refresh_mapping
                           THEN mcp_access_token \ {request[r].pair}
                           ELSE mcp_access_token
    /\ Goto(r, "retire_refresh")
    /\ UNCHANGED <<replicas, signIn, codes, access_mapping, mcp_refresh_token,
                   refresh_mapping, pair, api_access_token, idp, ended>>

RetireRefresh(r) ==
    /\ At(r, "retire_refresh")
    /\ mcp_refresh_token' = mcp_refresh_token \ {request[r].pair}
    /\ ended' = ended \cup {<<request[r].pair, "refresh">>}
    /\ Return(r)
    /\ UNCHANGED <<replicas, signIn, codes, mcp_access_token, access_mapping,
                   refresh_mapping, pair, api_access_token, idp>>

-----------------------------------------------------------------------------
\* revoke_token, for a token the provider has just loaded for its own client.
RevokeBegin(r, s, u, p, step, record) ==
    /\ p \in record
    /\ IsBoundHere(pair[p], s, u)
    /\ Begin(r, step, s, u, pair[p].client, None, p)
    /\ UNCHANGED <<replicas, signIn, codes, tokens, api_access_token, idp, ended>>

RevokeAccessBegin(r, s, u, p) == RevokeBegin(r, s, u, p, "revoke_access", mcp_access_token)
RevokeRefreshBegin(r, s, u, p) == RevokeBegin(r, s, u, p, "revoke_refresh", mcp_refresh_token)

\* Delete the paired token, found through the mapping of the revoked one ...
RevokePairedRefresh(r) ==
    /\ At(r, "revoke_access")
    /\ mcp_refresh_token' = IF request[r].pair \in access_mapping
                            THEN mcp_refresh_token \ {request[r].pair}
                            ELSE mcp_refresh_token
    /\ Goto(r, "delete_access")
    /\ UNCHANGED <<replicas, signIn, codes, mcp_access_token, access_mapping,
                   refresh_mapping, pair, api_access_token, idp, ended>>

RevokePairedAccess(r) ==
    /\ At(r, "revoke_refresh")
    /\ mcp_access_token' = IF request[r].pair \in refresh_mapping
                           THEN mcp_access_token \ {request[r].pair}
                           ELSE mcp_access_token
    /\ Goto(r, "delete_refresh")
    /\ UNCHANGED <<replicas, signIn, codes, mcp_refresh_token, access_mapping,
                   refresh_mapping, pair, api_access_token, idp, ended>>

\* ... then the token itself.
RevokeAccess(r) ==
    /\ At(r, "delete_access")
    /\ mcp_access_token' = mcp_access_token \ {request[r].pair}
    /\ ended' = ended \cup {<<request[r].pair, "access">>}
    /\ Return(r)
    /\ UNCHANGED <<replicas, signIn, codes, mcp_refresh_token, access_mapping,
                   refresh_mapping, pair, api_access_token, idp>>

RevokeRefresh(r) ==
    /\ At(r, "delete_refresh")
    /\ mcp_refresh_token' = mcp_refresh_token \ {request[r].pair}
    /\ ended' = ended \cup {<<request[r].pair, "refresh">>}
    /\ Return(r)
    /\ UNCHANGED <<replicas, signIn, codes, mcp_access_token, access_mapping,
                   refresh_mapping, pair, api_access_token, idp>>

-----------------------------------------------------------------------------
\* A tool call: load_access_token admits the bearer, get_api_access_token maps
\* it to the upstream token, and the call leaves with that token or, when the
\* mapping lapsed meanwhile, with none.
CallBegin(r, s, u, p) ==
    /\ p \in mcp_access_token
    /\ IsBoundHere(pair[p], s, u)
    /\ Begin(r, "call", s, u, pair[p].client, None, p)
    /\ UNCHANGED <<replicas, signIn, codes, tokens, api_access_token, idp, ended>>

CallResolve(r) ==
    /\ At(r, "call")
    /\ LET p == request[r].pair IN
         Holding(r, "send", IF p \in access_mapping THEN pair[p].token ELSE None, 0, TRUE)
    /\ UNCHANGED <<replicas, signIn, codes, tokens, api_access_token, idp, ended>>

CallSend(r) ==
    /\ At(r, "send")
    /\ Return(r)
    /\ UNCHANGED <<replicas, signIn, codes, tokens, api_access_token, idp, ended>>

-----------------------------------------------------------------------------
\* The store drops what reached its ttl.  A mapping has the ttl of its record
\* and is written after it, so it goes no earlier; a record that was deleted
\* leaves its mapping to lapse.
LapseState(f) ==
    /\ f \in mcp_auth_state
    /\ mcp_auth_state' = mcp_auth_state \ {f}
    /\ UNCHANGED <<replicas, mcp_client, flow, asked, codes, tokens, api_access_token,
                   request, idp, ended>>

LapseCode(g) ==
    /\ g \in mcp_auth_code
    /\ mcp_auth_code' = mcp_auth_code \ {g}
    /\ UNCHANGED <<replicas, signIn, code_mapping, code, answered, tokens,
                   api_access_token, request, idp, ended>>

LapseCodeMapping(g) ==
    /\ g \in code_mapping \ mcp_auth_code
    /\ code_mapping' = code_mapping \ {g}
    /\ UNCHANGED <<replicas, signIn, mcp_auth_code, code, answered, tokens,
                   api_access_token, request, idp, ended>>

LapseAccess(p) ==
    /\ p \in mcp_access_token
    /\ mcp_access_token' = mcp_access_token \ {p}
    /\ UNCHANGED <<replicas, signIn, codes, access_mapping, mcp_refresh_token,
                   refresh_mapping, pair, api_access_token, request, idp, ended>>

LapseAccessMappingEarly(p) ==      \* variant
    /\ p \in access_mapping
    /\ access_mapping' = access_mapping \ {p}
    /\ UNCHANGED <<replicas, signIn, codes, mcp_access_token, mcp_refresh_token,
                   refresh_mapping, pair, api_access_token, request, idp, ended>>

LapseAccessMapping(p) ==
    /\ p \in access_mapping \ mcp_access_token
    /\ access_mapping' = access_mapping \ {p}
    /\ UNCHANGED <<replicas, signIn, codes, mcp_access_token, mcp_refresh_token,
                   refresh_mapping, pair, api_access_token, request, idp, ended>>

LapseRefresh(p) ==
    /\ p \in mcp_refresh_token
    /\ mcp_refresh_token' = mcp_refresh_token \ {p}
    /\ UNCHANGED <<replicas, signIn, codes, mcp_access_token, access_mapping,
                   refresh_mapping, pair, api_access_token, request, idp, ended>>

LapseRefreshMapping(p) ==
    /\ p \in refresh_mapping \ mcp_refresh_token
    /\ refresh_mapping' = refresh_mapping \ {p}
    /\ UNCHANGED <<replicas, signIn, codes, mcp_access_token, access_mapping,
                   mcp_refresh_token, pair, api_access_token, request, idp, ended>>

LapseApiToken(t) ==
    /\ t \in api_access_token
    /\ api_access_token' = api_access_token \ {t}
    /\ UNCHANGED <<replicas, signIn, codes, tokens, request, idp, ended>>

Lapse ==
    \/ \E f \in Flows : LapseState(f)
    \/ \E g \in Grants : LapseCode(g) \/ LapseCodeMapping(g)
    \/ \E p \in Pairs : \/ LapseAccess(p) \/ LapseAccessMapping(p)
                        \/ LapseRefresh(p) \/ LapseRefreshMapping(p)
    \/ \E t \in Tokens : LapseApiToken(t)

-----------------------------------------------------------------------------
Deployment == \E s \in Servers, u \in Upstreams : Deploy(s, u) \/ Undeploy(s, u)

SignIn ==
    \/ \E s \in Servers, c \in Clients : RegisterClient(s, c)
    \/ \E s \in Servers, u \in Upstreams, c \in Clients, f \in Flows : Authorize(s, u, c, f)
    \/ \E f \in Flows, g \in Grants, as \in AuthServers, iss \in ResponseIss : Consent(f, g, as, iss)

Callback(r) ==
    \/ \E s \in Servers, u \in Upstreams, g \in Grants : CallbackBegin(r, s, u, g)
    \/ \E refreshable \in BOOLEAN :
          CallbackRedeem(r, refreshable) \/ CallbackAnswerLost(r, refreshable)
    \/ CallbackRefused(r)
    \/ CallbackStoreCode(r) \/ CallbackStoreToken(r) \/ CallbackMap(r) \/ CallbackSpend(r)

Exchange(r) ==
    \/ \E s \in Servers, u \in Upstreams, c \in Clients, g \in Grants :
          ExchangeBegin(r, s, u, c, g)
    \/ ExchangeRead(r)
    \/ ExchangeRejected(r)
    \/ \E p \in Pairs : ExchangeIssue(r, p)

Refresh(r) ==
    \/ \E s \in Servers, u \in Upstreams, c \in Clients, p \in Pairs :
          RefreshBegin(r, s, u, c, p)
    \/ RefreshKeep(r) \/ RefreshRenew(r)
    \/ RefreshNeedsSignIn(r) \/ RefreshMappingLost(r)
    \/ \E rotates \in BOOLEAN : RefreshUpstream(r, rotates) \/ RefreshAnswerLost(r, rotates)
    \/ RefreshRefused(r)
    \/ \E p \in Pairs : RefreshIssue(r, p)
    \/ RetireAccess(r) \/ RetireRefresh(r)

Revoke(r) ==
    \/ \E s \in Servers, u \in Upstreams, p \in Pairs :
          RevokeAccessBegin(r, s, u, p) \/ RevokeRefreshBegin(r, s, u, p)
    \/ RevokePairedRefresh(r) \/ RevokePairedAccess(r)
    \/ RevokeAccess(r) \/ RevokeRefresh(r)

ToolCall(r) ==
    \/ \E s \in Servers, u \in Upstreams, p \in Pairs : CallBegin(r, s, u, p)
    \/ CallResolve(r) \/ CallSend(r)

Next ==
    \/ Deployment
    \/ SignIn
    \/ \E r \in Requests :
          Callback(r) \/ Exchange(r) \/ Refresh(r) \/ Revoke(r) \/ ToolCall(r) \/ Crash(r)
    \/ Lapse

Spec == Init /\ [][Next]_vars

-----------------------------------------------------------------------------
(***************************************************************************)
(* Properties.                                                             *)
(***************************************************************************)

\* The server of a sign-in is kept by the upstream alone, in the redirect_uri it
\* saw: a lenient one may redeem the code for whichever server's callback it came to.
OfServer(g, s) == asked[grant[g].flow] = s \/ grant[g].as \in Lenient

\* Whatever a pair of MCP tokens unlocks is what its owner consented to: it
\* belongs to the client of the sign-in it descends from and, at an upstream that
\* checks redirect_uri, to the server; it maps to a token of that sign-in's
\* consent, and names the upstream that issued it.  Several handlers copy these
\* facts along (callback, exchange, every rotation), each checking only the record
\* it was given, and no record says which server the sign-in began at.
SessionMatchesSignIn ==
    \A p \in Pairs : pair[p] # None =>
       LET g == pair[p].origin
           f == grant[g].flow
       IN  /\ pair[p].server = code[g].server /\ OfServer(g, code[g].server)
           /\ pair[p].client = flow[f].client
           /\ pair[p].token[1] = g
           /\ pair[p].upstream[2] = grant[g].as

\* A tool call that leaves with a credential carries one issued by the upstream
\* this replica calls, to the user whose MCP token admitted the call, on the
\* server the user signed in to (or, at a lenient upstream, came back to): no
\* credential crosses sessions, servers or upstreams, also while replicas with different settings run side by side.
CredentialCustody ==
    \A r \in Requests : request[r].step = "send" /\ request[r].token # None =>
       LET q == request[r]
           g == q.token[1]
       IN  /\ g = pair[q.pair].origin
           /\ grant[g].as = q.up.as
           /\ OfServer(g, q.server)
           /\ q.server = pair[q.pair].server

\* When both the issuer is configured and the response names one, a code is
\* sent to no token endpoint but that of the server that issued it, even when
\* the configuration changed during the sign-in.
CodeReachesItsIssuer ==
    \A r \in Requests : request[r].step = "redeem" =>
       LET q == request[r] IN
       grant[q.grant].iss /\ q.up.issuer => grant[q.grant].as = q.up.as

\* Once a browser was sent back with a code, its state is spent: whatever handler
\* crashed, was overtaken by a second callback or answered late, no callback that
\* begins afterwards passes the check.  (One that stops before its last write
\* leaves a code nobody knows, and its state alive.)
AnsweredStateIsSpent == \A g \in answered : grant[g].flow \notin mcp_auth_state

\* Once the revocation of a token or the rotation of a refresh token has been
\* answered, that token admits no later request, and neither does the other one of
\* its pair, however rotations and revocations interleave.  The exception: the other
\* token is found through a mapping as old as the token, so if that had lapsed, the
\* handler found nothing to delete.
Ended(p, token, mapping, other) ==
    /\ p \notin token
    /\ p \in other => p \notin mapping

EndedPairsStayDead ==
    \A p \in Pairs :
       /\ <<p, "access">> \in ended =>
             Ended(p, mcp_access_token, access_mapping, mcp_refresh_token)
       /\ <<p, "refresh">> \in ended =>
             Ended(p, mcp_refresh_token, refresh_mapping, mcp_access_token)

\* A call leaves without a credential only if its access token is no longer
\* good: as long as the record is there its mapping is, too.
CallsCarryCredential ==
    \A r \in Requests : request[r].step = "send" /\ request[r].token = None =>
       request[r].pair \notin mcp_access_token

\* Somebody can still use the newest upstream refresh token of consent g: a
\* pair or code a client holds and that is not being replaced, or a handler (one
\* that has stored a code still needs the code).
Retiring(p) == \E r \in Requests :
    request[r].pair = p /\ request[r].step \in {"retire_access", "retire_refresh"}

NewestRefreshTokenHeld(g) ==
    \/ \E p \in mcp_refresh_token \cap refresh_mapping :
          /\ pair[p].token[1] = g /\ pair[p].refresh = refreshGen[g]
          /\ ~Retiring(p)
    \/ /\ g \in answered \cap mcp_auth_code \cap code_mapping
       /\ code[g].refresh = refreshGen[g]
    \/ \E r \in Requests :
          /\ \/ request[r].step \in {"store_code", "issue", "rotate"}
             \/ request[r].step \in {"store_token", "map", "spend"} /\ g \in mcp_auth_code
          /\ request[r].token[1] = g /\ request[r].refresh = refreshGen[g]

\* The newest refresh token an upstream issued is let go of only by a crash,
\* an answer lost in transit, a ttl or a revocation.  Refreshing, rotating and
\* exchanging, alone or at the same time, never strand it.
NewestRefreshTokenKept ==
    [][\A g \in Grants :
          refreshGen[g] # 0 /\ NewestRefreshTokenHeld(g) /\ ~NewestRefreshTokenHeld(g)' =>
             \/ Lapse
             \/ \E r \in Requests :
                  \/ Crash(r) \/ Revoke(r)
                  \/ \E rotates \in BOOLEAN : RefreshAnswerLost(r, rotates)]_vars

=============================================================================
