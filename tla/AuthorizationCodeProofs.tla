----------------------- MODULE AuthorizationCodeProofs -----------------------
EXTENDS AuthorizationCodeInv, TLAPS

USE DEF replicas, signIn, codes, tokens, idp

-----------------------------------------------------------------------------
\* A free slot is a typed record.
LEMMA IdleType == Idle \in RequestRecord
BY ProviderAssumption DEF Idle, RequestRecord, Steps, Gens

\* The generations in use: none yet, and the first.
LEMMA GenZero == 0 \in Gens /\ (MaxGen \in Nat \ {0} => 1 \in Gens)
BY ProviderAssumption DEF Gens

\* Starting a handler keeps the slots typed.
LEMMA BeginType ==
    ASSUME TypeOK, NEW r \in Requests, NEW step \in Steps, NEW s \in Servers,
           NEW u \in Upstreams, NEW c \in Clients, NEW g \in Grants \cup {None},
           NEW p \in Pairs \cup {None}, Begin(r, step, s, u, c, g, p)
    PROVE  request' \in [Requests -> RequestRecord]
<1>1. [step |-> step, server |-> s, up |-> u, client |-> c, grant |-> g,
       pair |-> p, token |-> None, refresh |-> 0, stored |-> TRUE] \in RequestRecord
  BY GenZero DEF RequestRecord
<1>2. QED
  BY <1>1, Zenon DEF Begin, TypeOK

\* So does keeping an answer in its locals,
LEMMA HoldingType ==
    ASSUME TypeOK, NEW r \in Requests, NEW step \in Steps,
           NEW t \in Tokens \cup {None}, NEW n \in Gens, NEW b \in BOOLEAN,
           Holding(r, step, t, n, b)
    PROVE  request' \in [Requests -> RequestRecord]
<1>1. request[r] \in RequestRecord
  BY DEF TypeOK
<1>2. [request[r] EXCEPT !.step = step, !.token = t, !.refresh = n, !.stored = b]
         \in RequestRecord
  BY <1>1 DEF RequestRecord
<1>3. QED
  BY <1>2, Zenon DEF Holding, TypeOK

\* moving on to its next step,
LEMMA GotoType ==
    ASSUME TypeOK, NEW r \in Requests, NEW step \in Steps, Goto(r, step)
    PROVE  request' \in [Requests -> RequestRecord]
<1>1. request[r] \in RequestRecord
  BY DEF TypeOK
<1>2. [request[r] EXCEPT !.step = step] \in RequestRecord
  BY <1>1 DEF RequestRecord
<1>3. QED
  BY <1>2, Zenon DEF Goto, TypeOK

\* and returning.
LEMMA ReturnType ==
    ASSUME TypeOK, NEW r \in Requests, Return(r)
    PROVE  request' \in [Requests -> RequestRecord]
BY IdleType DEF Return, TypeOK

-----------------------------------------------------------------------------
\* What the records a handler found tell about its arguments.
LEMMA RecordTypes ==
    ASSUME IInv
    PROVE  /\ \A f \in Flows : flow[f] # None => flow[f] \in FlowRecord
           /\ \A g \in Grants : grant[g] # None =>
                 grant[g] \in GrantRecord /\ flow[grant[g].flow] \in FlowRecord
           /\ \A g \in Grants : code[g] # None => code[g] \in CodeRecord
           /\ \A p \in Pairs : pair[p] # None => pair[p] \in PairRecord
           /\ \A r \in Requests : request[r] \in RequestRecord
BY DEF IInv, TypeOK, SignInsRecorded, GrantRecord

\* An upstream is named by its kind of identifier and its server.
LEMMA UpstreamIdType ==
    ASSUME NEW u \in Upstreams
    PROVE  /\ AuthorizationServer(u) \in UpstreamIds
           /\ AuthorizationServer(u)[2] = u.as
           /\ u.as \in AuthServers /\ u.issuer \in BOOLEAN
BY ProviderAssumption DEF AuthorizationServer, UpstreamIds

\* handle_upstream_callback keeps the types.
LEMMA CallbackType ==
    ASSUME IInv, NEW r \in Requests, Callback(r)
    PROVE  TypeOK'
<1>. TypeOK
  BY DEF IInv
<1>1. ASSUME NEW s \in Servers, NEW u \in Upstreams, NEW g \in Grants, CallbackBegin(r, s, u, g)
      PROVE  TypeOK'
  <2>1. flow[grant[g].flow].client \in Clients
    BY <1>1, RecordTypes DEF CallbackBegin, FlowRecord
  <2>2. request' \in [Requests -> RequestRecord]
    BY <1>1, <2>1, BeginType DEF CallbackBegin, Steps
  <2>3. QED
    BY <1>1, <2>2 DEF CallbackBegin, TypeOK
<1>2. ASSUME NEW refreshable \in BOOLEAN, CallbackRedeem(r, refreshable)
      PROVE  TypeOK'
  <2>. DEFINE g == request[r].grant
  <2>1. g \in Grants
    BY <1>2, RecordTypes DEF IInv, RequestsSound, CallbackSound, InCallback, CallbackRedeem, At
  <2>2. /\ accessGen' \in [Grants -> Gens] /\ refreshGen' \in [Grants -> Gens]
        /\ redeemed' \subseteq Grants /\ accessGen'[g] = 1
    BY <1>2, <2>1, ProviderAssumption DEF CallbackRedeem, UpstreamRedeems, TypeOK, Gens
  <2>3. <<g, accessGen'[g]>> \in Tokens /\ refreshGen'[g] \in Gens
    BY <2>1, <2>2, ProviderAssumption DEF Tokens, Gens
  <2>4. request' \in [Requests -> RequestRecord]
    BY <1>2, <2>3, HoldingType DEF CallbackRedeem, Steps
  <2>5. QED
    BY <1>2, <2>2, <2>4 DEF CallbackRedeem, UpstreamRedeems, TypeOK
<1>3. ASSUME NEW refreshable \in BOOLEAN, CallbackAnswerLost(r, refreshable)
      PROVE  TypeOK'
  <2>. DEFINE g == request[r].grant
  <2>1. g \in Grants
    BY <1>3, RecordTypes DEF IInv, RequestsSound, CallbackSound, InCallback, CallbackAnswerLost, At
  <2>2. /\ accessGen' \in [Grants -> Gens] /\ refreshGen' \in [Grants -> Gens]
        /\ redeemed' \subseteq Grants
    BY <1>3, <2>1, ProviderAssumption DEF CallbackAnswerLost, UpstreamRedeems, TypeOK, Gens
  <2>3. QED
    BY <1>3, <2>2, ReturnType DEF CallbackAnswerLost, UpstreamRedeems, TypeOK
<1>4. CASE CallbackRefused(r)
  BY <1>4, ReturnType DEF CallbackRefused, TypeOK
<1>5. CASE CallbackStoreCode(r)
  <2>. DEFINE q == request[r]
  <2>1. /\ q.grant \in Grants /\ q.server \in Servers /\ q.client \in Clients
        /\ q.up \in Upstreams /\ q.token \in Tokens /\ q.refresh \in Gens
    BY <1>5, RecordTypes DEF IInv, RequestsSound, CallbackSound, InCallback,
       CallbackStoreCode, At, RequestRecord
  <2>2. [server |-> q.server, client |-> q.client, upstream |-> AuthorizationServer(q.up),
         token |-> q.token, refresh |-> q.refresh] \in CodeRecord
    BY <2>1, UpstreamIdType DEF CodeRecord
  <2>3. code' \in [Grants -> CodeRecord \cup {None}]
    BY <1>5, <2>1, <2>2 DEF CallbackStoreCode, TypeOK
  <2>4. request' \in [Requests -> RequestRecord]
    BY <1>5, GotoType DEF CallbackStoreCode, Steps
  <2>5. QED
    BY <1>5, <2>1, <2>3, <2>4 DEF CallbackStoreCode, TypeOK
<1>6. CASE CallbackStoreToken(r) \/ CallbackMap(r)
  <2>1. request[r].grant \in Grants /\ request[r].token \in Tokens
    BY <1>6 DEF IInv, RequestsSound, CallbackSound, InCallback, CallbackStoreToken, CallbackMap, At
  <2>2. request' \in [Requests -> RequestRecord]
    BY <1>6, GotoType DEF CallbackStoreToken, CallbackMap, Steps
  <2>3. QED
    BY <1>6, <2>1, <2>2 DEF CallbackStoreToken, CallbackMap, TypeOK
<1>7. CASE CallbackSpend(r)
  <2>1. request[r].grant \in Grants
    BY <1>7 DEF IInv, RequestsSound, CallbackSound, InCallback, CallbackSpend, At
  <2>2. QED
    BY <1>7, <2>1, ReturnType DEF CallbackSpend, SpendState, TypeOK
<1>8. QED
  BY <1>1, <1>2, <1>3, <1>4, <1>5, <1>6, <1>7 DEF Callback

\* _issue_mcp_token keeps the types of the token tables.
LEMMA IssueType ==
    ASSUME IInv, NEW r \in Requests, NEW p \in Pairs, NEW origin \in Grants,
           request[r].server \in Servers, request[r].client \in Clients,
           request[r].up \in Upstreams, request[r].token \in Tokens,
           IssueMcpToken(r, p, origin)
    PROVE  /\ pair' \in [Pairs -> PairRecord \cup {None}]
           /\ mcp_access_token' \subseteq Pairs /\ access_mapping' \subseteq Pairs
           /\ mcp_refresh_token' \subseteq Pairs /\ refresh_mapping' \subseteq Pairs
<1>1. request[r].refresh \in Gens
  BY RecordTypes DEF RequestRecord
<1>2. [server |-> request[r].server, client |-> request[r].client,
       upstream |-> AuthorizationServer(request[r].up), token |-> request[r].token,
       refresh |-> request[r].refresh, origin |-> origin] \in PairRecord
  BY <1>1, UpstreamIdType DEF PairRecord
<1>3. QED
  BY <1>2 DEF IssueMcpToken, IInv, TypeOK

\* exchange_authorization_code keeps the types.
LEMMA ExchangeType ==
    ASSUME IInv, NEW r \in Requests, Exchange(r)
    PROVE  TypeOK'
<1>. TypeOK
  BY DEF IInv
<1>1. ASSUME NEW s \in Servers, NEW u \in Upstreams, NEW c \in Clients, NEW g \in Grants,
             ExchangeBegin(r, s, u, c, g)
      PROVE  TypeOK'
  <2>1. request' \in [Requests -> RequestRecord]
    BY <1>1, BeginType DEF ExchangeBegin, Steps
  <2>2. QED
    BY <1>1, <2>1 DEF ExchangeBegin, TypeOK
<1>2. CASE ExchangeRead(r)
  <2>. DEFINE g == request[r].grant
  <2>1. g \in Grants /\ code[g] \in CodeRecord
    BY <1>2, RecordTypes DEF IInv, RequestsSound, ExchangeSound, InExchange, ExchangeRead, At
  <2>2. code[g].token \in Tokens /\ code[g].refresh \in Gens /\ 0 \in Gens
    BY <2>1, ProviderAssumption DEF CodeRecord, Gens
  <2>3. request' \in [Requests -> RequestRecord]
    BY <1>2, <2>2, HoldingType DEF ExchangeRead, MappedTokens, Steps
  <2>4. QED
    BY <1>2, <2>3 DEF ExchangeRead, TypeOK
<1>3. CASE ExchangeRejected(r)
  BY <1>3, ReturnType DEF ExchangeRejected, TypeOK
<1>4. ASSUME NEW p \in Pairs, ExchangeIssue(r, p)
      PROVE  TypeOK'
  <2>1. /\ request[r].grant \in Grants /\ request[r].server \in Servers
        /\ request[r].client \in Clients /\ request[r].up \in Upstreams
        /\ request[r].token \in Tokens
    BY <1>4 DEF IInv, RequestsSound, ExchangeSound, InExchange, ExchangeIssue, At
  <2>2. request' \in [Requests -> RequestRecord]
    BY <1>4, ReturnType DEF ExchangeIssue
  <2>3. QED
    BY <1>4, <2>1, <2>2, IssueType DEF ExchangeIssue, TypeOK
<1>5. QED
  BY <1>1, <1>2, <1>3, <1>4 DEF Exchange

\* A handler that works on a pair has one.
LEMMA PairTypes ==
    ASSUME IInv, NEW r \in Requests, OnPair(request[r])
    PROVE  /\ request[r].pair \in Pairs /\ pair[request[r].pair] \in PairRecord
           /\ request[r].server \in Servers /\ request[r].client \in Clients
           /\ request[r].up \in Upstreams
           /\ pair[request[r].pair].token \in Tokens
           /\ pair[request[r].pair].refresh \in Gens /\ 0 \in Gens
           /\ pair[request[r].pair].origin \in Grants
BY RecordTypes, ProviderAssumption DEF IInv, RequestsSound, PairSound, PairRecord, Gens

\* What the upstream has when it renews a token.
LEMMA RenewsType ==
    ASSUME IInv, NEW r \in Requests, NEW rotates \in BOOLEAN,
           At(r, "renew"), UpstreamRenews(r, rotates)
    PROVE  /\ request[r].token[1] \in Grants
           /\ accessGen' \in [Grants -> Gens] /\ refreshGen' \in [Grants -> Gens]
           /\ <<request[r].token[1], accessGen'[request[r].token[1]]>> \in Tokens
           /\ refreshGen'[request[r].token[1]] \in Gens
<1>. DEFINE g == request[r].token[1]
<1>1. request[r].token \in Tokens
  BY DEF IInv, RequestsSound, PairSound, OnPair, At, Steps
<1>2. g \in Grants
  BY <1>1 DEF Tokens
<1>3. accessGen[g] \in Gens /\ accessGen[g] + 1 \in 1..MaxGen
  BY <1>2, ProviderAssumption DEF UpstreamRenews, IInv, TypeOK, Gens
<1>4. accessGen' \in [Grants -> Gens] /\ accessGen'[g] \in 1..MaxGen
  BY <1>2, <1>3, ProviderAssumption DEF UpstreamRenews, IInv, TypeOK, Gens
<1>5. refreshGen' \in [Grants -> Gens]
  BY <1>2, <1>3, ProviderAssumption DEF UpstreamRenews, IInv, TypeOK, Gens
<1>6. QED
  BY <1>2, <1>4, <1>5 DEF Tokens

\* exchange_refresh_token keeps the types.
LEMMA RefreshType ==
    ASSUME IInv, NEW r \in Requests, Refresh(r)
    PROVE  TypeOK'
<1>. TypeOK
  BY DEF IInv
<1>. USE DEF At
<1>1. ASSUME NEW s \in Servers, NEW u \in Upstreams, NEW c \in Clients, NEW p \in Pairs,
             RefreshBegin(r, s, u, c, p)
      PROVE  TypeOK'
  <2>1. request' \in [Requests -> RequestRecord]
    BY <1>1, BeginType DEF RefreshBegin, Steps
  <2>2. QED
    BY <1>1, <2>1 DEF RefreshBegin, TypeOK
<1>2. CASE RefreshKeep(r)
  <2>1. OnPair(request[r])
    BY <1>2 DEF RefreshKeep, OnPair, Steps
  <2>2. request' \in [Requests -> RequestRecord]
    BY <1>2, <2>1, PairTypes, HoldingType DEF RefreshKeep, Steps
  <2>3. QED
    BY <1>2, <2>2 DEF RefreshKeep, TypeOK
<1>3. CASE RefreshRenew(r)
  <2>1. OnPair(request[r])
    BY <1>3 DEF RefreshRenew, OnPair, Steps
  <2>2. request' \in [Requests -> RequestRecord]
    BY <1>3, <2>1, PairTypes, HoldingType DEF RefreshRenew, Steps
  <2>3. QED
    BY <1>3, <2>2 DEF RefreshRenew, TypeOK
<1>4. CASE RefreshNeedsSignIn(r) \/ RefreshMappingLost(r) \/ RefreshRefused(r)
  BY <1>4, ReturnType DEF RefreshNeedsSignIn, RefreshMappingLost, RefreshRefused, TypeOK
<1>5. ASSUME NEW rotates \in BOOLEAN, RefreshUpstream(r, rotates)
      PROVE  TypeOK'
  <2>. DEFINE g == request[r].token[1]
              n == NewOrOld(IF rotates THEN refreshGen'[g] ELSE 0, request[r].refresh)
  <2>1. /\ <<g, accessGen'[g]>> \in Tokens /\ refreshGen'[g] \in Gens
        /\ accessGen' \in [Grants -> Gens] /\ refreshGen' \in [Grants -> Gens]
    BY <1>5, RenewsType DEF RefreshUpstream
  <2>2. n \in Gens
    BY <2>1, RecordTypes DEF NewOrOld, RequestRecord
  <2>3. request' \in [Requests -> RequestRecord]
    BY <1>5, <2>1, <2>2, HoldingType DEF RefreshUpstream, Steps
  <2>4. QED
    BY <1>5, <2>1, <2>3 DEF RefreshUpstream, UpstreamRenews, TypeOK
<1>6. ASSUME NEW rotates \in BOOLEAN, RefreshAnswerLost(r, rotates)
      PROVE  TypeOK'
  <2>1. accessGen' \in [Grants -> Gens] /\ refreshGen' \in [Grants -> Gens]
    BY <1>6, RenewsType DEF RefreshAnswerLost
  <2>2. request' \in [Requests -> RequestRecord]
    BY <1>6, ReturnType DEF RefreshAnswerLost
  <2>3. QED
    BY <1>6, <2>1, <2>2 DEF RefreshAnswerLost, UpstreamRenews, TypeOK
<1>7. ASSUME NEW p \in Pairs, RefreshIssue(r, p)
      PROVE  TypeOK'
  <2>1. OnPair(request[r]) /\ request[r].token \in Tokens
    BY <1>7 DEF RefreshIssue, OnPair, Steps, IInv, RequestsSound, PairSound
  <2>2. request' \in [Requests -> RequestRecord]
    BY <1>7, GotoType DEF RefreshIssue, Steps
  <2>3. api_access_token' \subseteq Tokens
    BY <1>7, <2>1 DEF RefreshIssue, TypeOK
  <2>4. QED
    BY <1>7, <2>1, <2>2, <2>3, PairTypes, IssueType DEF RefreshIssue, TypeOK
<1>8. CASE RetireAccess(r)
  BY <1>8, GotoType DEF RetireAccess, TypeOK, Steps
<1>9. CASE RetireRefresh(r)
  <2>1. OnPair(request[r])
    BY <1>9 DEF RetireRefresh, OnPair
  <2>2. QED
    BY <1>9, <2>1, PairTypes, ReturnType DEF RetireRefresh, TypeOK
<1>10. QED
  BY <1>1, <1>2, <1>3, <1>4, <1>5, <1>6, <1>7, <1>8, <1>9 DEF Refresh

\* revoke_token keeps the types.
LEMMA RevokeType ==
    ASSUME IInv, NEW r \in Requests, Revoke(r)
    PROVE  TypeOK'
<1>. TypeOK
  BY DEF IInv
<1>1. ASSUME NEW s \in Servers, NEW u \in Upstreams, NEW p \in Pairs,
             RevokeAccessBegin(r, s, u, p) \/ RevokeRefreshBegin(r, s, u, p)
      PROVE  TypeOK'
  <2>1. pair[p].client \in Clients
    BY <1>1, RecordTypes DEF RevokeAccessBegin, RevokeRefreshBegin, RevokeBegin, PairRecord,
       IInv, MappingsOutliveRecords, PairsRecorded
  <2>2. request' \in [Requests -> RequestRecord]
    BY <1>1, <2>1, BeginType DEF RevokeAccessBegin, RevokeRefreshBegin, RevokeBegin, Steps
  <2>3. QED
    BY <1>1, <2>2 DEF RevokeAccessBegin, RevokeRefreshBegin, RevokeBegin, TypeOK
<1>2. CASE RevokePairedRefresh(r) \/ RevokePairedAccess(r)
  BY <1>2, GotoType DEF RevokePairedRefresh, RevokePairedAccess, TypeOK, Steps
<1>3. CASE RevokeAccess(r) \/ RevokeRefresh(r)
  <2>1. OnPair(request[r])
    BY <1>3 DEF RevokeAccess, RevokeRefresh, At, OnPair
  <2>2. QED
    BY <1>3, <2>1, PairTypes, ReturnType DEF RevokeAccess, RevokeRefresh, TypeOK
<1>4. QED
  BY <1>1, <1>2, <1>3 DEF Revoke

\* get_api_access_token keeps the types.
LEMMA ToolCallType ==
    ASSUME IInv, NEW r \in Requests, ToolCall(r)
    PROVE  TypeOK'
<1>. TypeOK
  BY DEF IInv
<1>1. ASSUME NEW s \in Servers, NEW u \in Upstreams, NEW p \in Pairs, CallBegin(r, s, u, p)
      PROVE  TypeOK'
  <2>1. pair[p].client \in Clients
    BY <1>1, RecordTypes DEF CallBegin, PairRecord, IInv, MappingsOutliveRecords, PairsRecorded
  <2>2. request' \in [Requests -> RequestRecord]
    BY <1>1, <2>1, BeginType DEF CallBegin, Steps
  <2>3. QED
    BY <1>1, <2>2 DEF CallBegin, TypeOK
<1>2. CASE CallResolve(r)
  <2>1. OnPair(request[r])
    BY <1>2 DEF CallResolve, OnPair, Steps, At
  <2>2. request' \in [Requests -> RequestRecord]
    BY <1>2, <2>1, PairTypes, HoldingType DEF CallResolve, Steps
  <2>3. QED
    BY <1>2, <2>2 DEF CallResolve, TypeOK
<1>3. CASE CallSend(r)
  BY <1>3, ReturnType DEF CallSend, TypeOK
<1>4. QED
  BY <1>1, <1>2, <1>3 DEF ToolCall

\* register_client, authorize and the consent keep the types.
LEMMA SignInType ==
    ASSUME IInv, SignIn
    PROVE  TypeOK'
<1>. TypeOK
  BY DEF IInv
<1>1. ASSUME NEW s \in Servers, NEW c \in Clients, RegisterClient(s, c)
      PROVE  TypeOK'
  BY <1>1 DEF RegisterClient, ClientKey, TypeOK
<1>2. ASSUME NEW s \in Servers, NEW u \in Upstreams, NEW c \in Clients, NEW f \in Flows,
             Authorize(s, u, c, f)
      PROVE  TypeOK'
  <2>1. [client |-> c, issuer |-> u.issuer, upstream |-> AuthorizationServer(u)] \in FlowRecord
    BY UpstreamIdType DEF FlowRecord
  <2>2. QED
    BY <1>2, <2>1 DEF Authorize, TypeOK
<1>3. ASSUME NEW f \in Flows, NEW g \in Grants, NEW as \in AuthServers, NEW iss \in ResponseIss,
             Consent(f, g, as, iss)
      PROVE  TypeOK'
  <2>1. [flow |-> f, as |-> as, iss |-> iss] \in GrantRecord
    BY ProviderAssumption DEF GrantRecord
  <2>2. QED
    BY <1>3, <2>1 DEF Consent, TypeOK
<1>4. QED
  BY <1>1, <1>2, <1>3 DEF SignIn

\* So does an entry that reaches its ttl.
LEMMA LapseType ==
    ASSUME IInv, Lapse
    PROVE  TypeOK'
BY DEF Lapse, LapseState, LapseCode, LapseCodeMapping, LapseAccess, LapseAccessMapping,
   LapseRefresh, LapseRefreshMapping, LapseApiToken, IInv, TypeOK

\* Every step keeps the types.
LEMMA TypeStep == IInv /\ [Next]_vars => TypeOK'
<1>. SUFFICES ASSUME IInv, [Next]_vars PROVE TypeOK'
  OBVIOUS
<1>. TypeOK
  BY DEF IInv
<1>1. CASE Deployment
  BY <1>1 DEF Deployment, Deploy, Undeploy, TypeOK
<1>2. CASE SignIn
  BY <1>2, SignInType
<1>3. ASSUME NEW r \in Requests,
             Callback(r) \/ Exchange(r) \/ Refresh(r) \/ Revoke(r) \/ ToolCall(r) \/ Crash(r)
      PROVE  TypeOK'
  <2>1. CASE Crash(r)
    BY <2>1, ReturnType DEF Crash, TypeOK
  <2>2. QED
    BY <1>3, <2>1, CallbackType, ExchangeType, RefreshType, RevokeType, ToolCallType
<1>4. CASE Lapse
  BY <1>4, LapseType
<1>5. CASE UNCHANGED vars
  BY <1>5 DEF vars, TypeOK
<1>6. QED
  BY <1>1, <1>2, <1>3, <1>4, <1>5 DEF Next

-----------------------------------------------------------------------------
\* Records are written once, and a token that is gone stays gone.
Stable ==
    /\ \A f \in Flows : flow[f] # None => flow'[f] = flow[f] /\ asked'[f] = asked[f]
    /\ \A g \in Grants : grant[g] # None => grant'[g] = grant[g]
    /\ \A g \in Grants : code[g] # None =>
          /\ code'[g] = code[g]
          /\ g \in mcp_auth_code' =>
                g \in mcp_auth_code /\ (g \in code_mapping => g \in code_mapping')
    /\ \A p \in Pairs : pair[p] # None =>
          /\ pair'[p] = pair[p]
          /\ p \in mcp_access_token' => p \in mcp_access_token
          /\ p \in mcp_refresh_token' => p \in mcp_refresh_token
          /\ p \in access_mapping' => p \in access_mapping
          /\ p \in refresh_mapping' => p \in refresh_mapping
    /\ redeemed \subseteq redeemed'

\* The handler that acts is the only one whose locals change.
OnlyMoves(r) ==
    /\ \A o \in Requests \ {r} : request'[o] = request[o]
    /\ request'[r] \in RequestRecord

\* A handler changes no other handler's locals.
LEMMA HandlerMoves ==
    ASSUME TypeOK, TypeOK', NEW r \in Requests,
           Callback(r) \/ Exchange(r) \/ Refresh(r) \/ Revoke(r) \/ ToolCall(r) \/ Crash(r)
    PROVE  OnlyMoves(r)
<1>. USE DEF Begin, Holding, Goto, Return
<1>. request'[r] \in RequestRecord
  BY DEF TypeOK
<1>1. \E q : request' = [request EXCEPT ![r] = q]
  <2>1. CASE Callback(r)
    BY <2>1 DEF Callback, CallbackBegin, CallbackRedeem, CallbackAnswerLost, CallbackRefused,
       CallbackStoreCode, CallbackStoreToken, CallbackMap, CallbackSpend
  <2>2. CASE Exchange(r)
    BY <2>2 DEF Exchange, ExchangeBegin, ExchangeRead, ExchangeRejected, ExchangeIssue
  <2>3. CASE Refresh(r)
    BY <2>3 DEF Refresh, RefreshBegin, RefreshKeep, RefreshRenew, RefreshNeedsSignIn,
       RefreshMappingLost, RefreshUpstream, RefreshAnswerLost, RefreshRefused, RefreshIssue,
       RetireAccess, RetireRefresh
  <2>4. CASE Revoke(r)
    BY <2>4 DEF Revoke, RevokeAccessBegin, RevokeRefreshBegin, RevokeBegin, RevokePairedRefresh,
       RevokePairedAccess, RevokeAccess, RevokeRefresh
  <2>5. CASE ToolCall(r)
    BY <2>5 DEF ToolCall, CallBegin, CallResolve, CallSend
  <2>6. CASE Crash(r)
    BY <2>6 DEF Crash
  <2>7. QED
    BY <2>1, <2>2, <2>3, <2>4, <2>5, <2>6
<1>2. QED
  BY <1>1 DEF OnlyMoves, TypeOK

\* Minting a pair rewrites no pair that is there.
LEMMA IssueStable ==
    ASSUME IInv, NEW r \in Requests, NEW p \in Pairs, NEW origin \in Grants,
           IssueMcpToken(r, p, origin)
    PROVE  \A o \in Pairs : pair[o] # None =>
              /\ pair'[o] = pair[o]
              /\ o \in mcp_access_token' => o \in mcp_access_token
              /\ o \in mcp_refresh_token' => o \in mcp_refresh_token
              /\ o \in access_mapping' => o \in access_mapping
              /\ o \in refresh_mapping' => o \in refresh_mapping
BY DEF IssueMcpToken, IInv, TypeOK

\* No step rewrites a record that is there.
LEMMA StableStep == IInv /\ [Next]_vars => Stable
<1>. SUFFICES ASSUME IInv, [Next]_vars PROVE Stable
  OBVIOUS
<1>. USE DEF Stable
<1>. TypeOK
  BY DEF IInv
<1>1. CASE Deployment
  BY <1>1 DEF Deployment, Deploy, Undeploy
<1>2. CASE SignIn
  BY <1>2 DEF SignIn, RegisterClient, Authorize, Consent, TypeOK
<1>3. ASSUME NEW r \in Requests, Callback(r)
      PROVE  Stable
  <2>1. CASE CallbackStoreCode(r)
    <3>1. code[request[r].grant] = None
      BY <2>1 DEF CallbackStoreCode, At, IInv, CodeRedeemedOnce
    <3>2. QED
      BY <2>1, <3>1 DEF CallbackStoreCode, TypeOK
  <2>2. QED
    BY <1>3, <2>1 DEF Callback, CallbackBegin, CallbackRedeem, CallbackAnswerLost,
       UpstreamRedeems, CallbackRefused, CallbackStoreToken, CallbackMap, CallbackSpend
<1>4. ASSUME NEW r \in Requests, Exchange(r)
      PROVE  Stable
  <2>1. ASSUME NEW p \in Pairs, ExchangeIssue(r, p)
        PROVE  Stable
    <3>1. request[r].grant \in Grants
      BY <2>1 DEF ExchangeIssue, At, IInv, RequestsSound, ExchangeSound, InExchange
    <3>2. QED
      BY <2>1, <3>1, IssueStable DEF ExchangeIssue
  <2>2. QED
    BY <1>4, <2>1 DEF Exchange, ExchangeBegin, ExchangeRead, ExchangeRejected
<1>5. ASSUME NEW r \in Requests, Refresh(r)
      PROVE  Stable
  <2>1. ASSUME NEW p \in Pairs, RefreshIssue(r, p)
        PROVE  Stable
    <3>1. OnPair(request[r])
      BY <2>1 DEF RefreshIssue, At, OnPair, Steps
    <3>2. QED
      BY <2>1, <3>1, PairTypes, IssueStable DEF RefreshIssue
  <2>2. QED
    BY <1>5, <2>1 DEF Refresh, RefreshBegin, RefreshKeep, RefreshRenew, RefreshNeedsSignIn,
       RefreshMappingLost, RefreshUpstream, RefreshAnswerLost, UpstreamRenews, RefreshRefused,
       RetireAccess, RetireRefresh
<1>6. ASSUME NEW r \in Requests, Revoke(r)
      PROVE  Stable
  BY <1>6 DEF Revoke, RevokeAccessBegin, RevokeRefreshBegin, RevokeBegin, RevokePairedRefresh,
     RevokePairedAccess, RevokeAccess, RevokeRefresh
<1>7. ASSUME NEW r \in Requests, ToolCall(r) \/ Crash(r)
      PROVE  Stable
  BY <1>7 DEF ToolCall, CallBegin, CallResolve, CallSend, Crash
<1>8. CASE Lapse
  BY <1>8 DEF Lapse, LapseState, LapseCode, LapseCodeMapping, LapseAccess,
     LapseAccessMapping, LapseRefresh, LapseRefreshMapping, LapseApiToken
<1>9. CASE UNCHANGED vars
  BY <1>9 DEF vars
<1>10. QED
  BY <1>1, <1>2, <1>3, <1>4, <1>5, <1>6, <1>7, <1>8, <1>9 DEF Next

\* What a handler knows is not disturbed by the steps of others.
LEMMA UndisturbedRequest ==
    ASSUME IInv, TypeOK', Stable, NEW r \in Requests, request'[r] = request[r]
    PROVE  /\ CallbackSound(request[r])' /\ ExchangeSound(request[r])'
           /\ PairSound(request[r])'
<1>. DEFINE q == request[r]
<1>1. CallbackSound(q)'
  <2>. SUFFICES ASSUME InCallback(q) PROVE CallbackSound(q)'
    BY DEF CallbackSound, InCallback
  <2>1. CallbackSound(q) /\ q.grant \in Grants /\ grant[q.grant] # None
    BY DEF IInv, RequestsSound, CallbackSound
  <2>2. /\ grant[q.grant].flow \in Flows /\ flow[grant[q.grant].flow] # None
    BY <2>1, RecordTypes DEF IInv, SignInsRecorded, GrantRecord
  <2>3. /\ grant'[q.grant] = grant[q.grant]
        /\ flow'[grant[q.grant].flow] = flow[grant[q.grant].flow]
        /\ asked'[grant[q.grant].flow] = asked[grant[q.grant].flow]
    BY <2>1, <2>2 DEF Stable
  <2>4. Writing(q) => /\ code[q.grant] # None /\ code'[q.grant] = code[q.grant]
                      /\ q.grant \in mcp_auth_code' => q.grant \in mcp_auth_code
                      /\ q.grant \in mcp_auth_code' /\ q.grant \in code_mapping =>
                            q.grant \in code_mapping'
    BY <2>1 DEF CallbackSound, Stable
  <2>5. Writing(q)' <=> Writing(q)
    BY DEF Writing
  <2>6. QED
    BY <2>1, <2>3, <2>4, <2>5 DEF CallbackSound, InCallback, IssuerValid, OfServer, Writing
<1>2. ExchangeSound(q)'
  BY DEF ExchangeSound, InExchange, IsBoundHere, Stable, IInv, RequestsSound
<1>3. PairSound(q)'
  BY DEF PairSound, OnPair, IsBoundHere, Stable, IInv, RequestsSound
<1>4. QED
  BY <1>1, <1>2, <1>3

\* A free slot claims nothing,
LEMMA IdleSound ==
    CallbackSound(Idle) /\ ExchangeSound(Idle) /\ PairSound(Idle)
BY DEF Idle, CallbackSound, InCallback, ExchangeSound, InExchange, PairSound, OnPair

\* A handler that returns, or that moves on inside its own flow, keeps what it
\* knows.
Sound(q) == CallbackSound(q) /\ ExchangeSound(q) /\ PairSound(q)

\* and neither does one that was just freed.
LEMMA ReturnSound ==
    ASSUME TypeOK, NEW r \in Requests, Return(r)
    PROVE  Sound(request[r])'
BY DEF TypeOK, Return, Idle, Sound, CallbackSound, InCallback, ExchangeSound, InExchange,
   PairSound, OnPair

\* A handler's locals after a step that keeps its arguments.
Advanced(r, step, t) ==
    /\ request'[r].step = step /\ request'[r].token = t
    /\ request'[r].server = request[r].server /\ request'[r].up = request[r].up
    /\ request'[r].client = request[r].client /\ request'[r].grant = request[r].grant
    /\ request'[r].pair = request[r].pair

\* What a handler keeps of its locals when an answer arrives,
LEMMA HoldingFields ==
    ASSUME IInv, NEW r \in Requests, NEW step, NEW t, NEW n, NEW b, Holding(r, step, t, n, b)
    PROVE  Advanced(r, step, t)
<1>1. request[r] \in RequestRecord
  BY DEF IInv, TypeOK
<1>2. request'[r] = [request[r] EXCEPT !.step = step, !.token = t, !.refresh = n, !.stored = b]
  BY DEF Holding, IInv, TypeOK
<1>3. QED
  BY <1>1, <1>2 DEF RequestRecord, Advanced

\* and when it moves on without one.
LEMMA GotoFields ==
    ASSUME IInv, NEW r \in Requests, NEW step, Goto(r, step)
    PROVE  Advanced(r, step, request[r].token)
<1>1. request[r] \in RequestRecord
  BY DEF IInv, TypeOK
<1>2. request'[r] = [request[r] EXCEPT !.step = step]
  BY DEF Goto, IInv, TypeOK
<1>3. QED
  BY <1>1, <1>2 DEF RequestRecord, Advanced

\* Moving on keeps the refresh token it holds.
LEMMA GotoRefresh ==
    ASSUME IInv, NEW r \in Requests, NEW step, Goto(r, step)
    PROVE  request'[r].refresh = request[r].refresh
<1>1. request[r] \in RequestRecord
  BY DEF IInv, TypeOK
<1>2. request'[r] = [request[r] EXCEPT !.step = step]
  BY DEF Goto, IInv, TypeOK
<1>3. QED
  BY <1>1, <1>2 DEF RequestRecord

\* A callback stores a code for the consent it was begun for.
LEMMA StoredCode ==
    ASSUME IInv, NEW r \in Requests, CallbackStoreCode(r)
    PROVE  LET q == request[r] IN
           /\ code'[q.grant] = [server |-> q.server, client |-> q.client,
                                upstream |-> AuthorizationServer(q.up),
                                token |-> q.token, refresh |-> q.refresh]
           /\ code'[q.grant] # None
<1>. DEFINE q == request[r]
<1>1. /\ q.grant \in Grants /\ q.up \in Upstreams
      /\ q.server \in Servers /\ q.client \in Clients /\ q.token \in Tokens
  BY DEF CallbackStoreCode, At, IInv, RequestsSound, CallbackSound, InCallback
<1>2. code'[q.grant] = [server |-> q.server, client |-> q.client,
                        upstream |-> AuthorizationServer(q.up),
                        token |-> q.token, refresh |-> q.refresh]
  BY <1>1 DEF CallbackStoreCode, IInv, TypeOK
<1>3. q.refresh \in Gens
  BY RecordTypes DEF RequestRecord
<1>4. code'[q.grant] \in CodeRecord
  BY <1>1, <1>2, <1>3, UpstreamIdType DEF CodeRecord
<1>5. QED
  BY <1>2, <1>4, NoneAssumption

\* Each handler's own steps keep what it knows: the callback,
LEMMA CallbackKeepsSound ==
    ASSUME IInv, TypeOK', Stable, NEW r \in Requests, Callback(r)
    PROVE  Sound(request[r])'
<1>. TypeOK
  BY DEF IInv
<1>1. ASSUME NEW s \in Servers, NEW u \in Upstreams, NEW g \in Grants, CallbackBegin(r, s, u, g)
      PROVE  Sound(request[r])'
  <2>1. /\ flow[grant[g].flow] \in FlowRecord /\ grant' = grant /\ flow' = flow
        /\ IssuerValid(grant[g].flow, g, u)
    BY <1>1, RecordTypes DEF CallbackBegin
  <2>2. request'[r] = [step |-> "redeem", server |-> s, up |-> u,
                       client |-> flow[grant[g].flow].client, grant |-> g, pair |-> None,
                       token |-> None, refresh |-> 0, stored |-> TRUE]
    BY <1>1 DEF CallbackBegin, Begin, TypeOK
  <2>3. IssuerValid(grant[g].flow, g, u)'
    BY <2>1 DEF IssuerValid
  <2>4. QED
    BY <1>1, <2>1, <2>2, <2>3 DEF CallbackBegin, Sound, CallbackSound, InCallback, Writing,
       ExchangeSound, InExchange, PairSound, OnPair, FlowRecord
<1>2. ASSUME NEW refreshable \in BOOLEAN, CallbackRedeem(r, refreshable)
      PROVE  Sound(request[r])'
  <2>. DEFINE g == request[r].grant
  <2>1. CallbackSound(request[r]) /\ request[r].step = "redeem"
    BY <1>2 DEF CallbackRedeem, At, IInv, RequestsSound
  <2>2. /\ request'[r].step = "store_code" /\ request'[r].token = <<g, accessGen'[g]>>
        /\ request'[r].server = request[r].server /\ request'[r].client = request[r].client
        /\ request'[r].up = request[r].up /\ request'[r].grant = g
    BY <1>2, HoldingFields DEF CallbackRedeem, Advanced
  <2>3. /\ grant[g].as = request[r].up.as /\ OfServer(g, request[r].server)
        /\ accessGen'[g] \in 1..MaxGen /\ g \in Grants
    BY <1>2, <2>1, ProviderAssumption DEF CallbackRedeem, UpstreamRedeems, TypeOK, CallbackSound,
       InCallback, OfServer
  <2>4. QED
    BY <1>2, <2>1, <2>2, <2>3 DEF CallbackRedeem, UpstreamRedeems, Sound, CallbackSound, Writing,
       OfServer, InCallback, ExchangeSound, InExchange, PairSound, OnPair, Tokens
<1>3. CASE CallbackStoreCode(r)
  <2>. DEFINE q == request[r]
  <2>1. CallbackSound(q) /\ q.step = "store_code" /\ q.grant \in Grants
    BY <1>3 DEF CallbackStoreCode, At, IInv, RequestsSound, CallbackSound, InCallback
  <2>2. /\ Advanced(r, "store_token", q.token) /\ q'.refresh = q.refresh
    BY <1>3, GotoFields, GotoRefresh DEF CallbackStoreCode
  <2>3. code'[q.grant].refresh = q.refresh
    BY <1>3, <2>1 DEF CallbackStoreCode, TypeOK
  <2>4. code'[q.grant] # None
    BY <1>3, <2>1, StoredCode
  <2>5. UNCHANGED <<flow, grant, asked>>
    BY <1>3 DEF CallbackStoreCode
  <2>6. QED
    BY <2>1, <2>2, <2>3, <2>4, <2>5 DEF Advanced, Sound, CallbackSound, Writing, OfServer,
       InCallback, ExchangeSound, InExchange, PairSound, OnPair
<1>4. CASE CallbackStoreToken(r) \/ CallbackMap(r)
  <2>. DEFINE q == request[r]
  <2>1. CallbackSound(q) /\ q.step \in {"store_token", "map"} /\ q.grant \in Grants
    BY <1>4 DEF CallbackStoreToken, CallbackMap, At, IInv, RequestsSound, CallbackSound, InCallback
  <2>2. PICK step \in {"map", "spend"} : /\ Goto(r, step)
                                         /\ step = "spend" => q.grant \in code_mapping'
    BY <1>4 DEF CallbackStoreToken, CallbackMap
  <2>3. Advanced(r, step, q.token) /\ q'.refresh = q.refresh
    BY <2>2, GotoFields, GotoRefresh
  <2>4. UNCHANGED <<flow, grant, asked, code>>
    BY <1>4 DEF CallbackStoreToken, CallbackMap
  <2>5. QED
    BY <2>1, <2>2, <2>3, <2>4 DEF Advanced, Sound, CallbackSound, Writing, OfServer,
       InCallback, ExchangeSound, InExchange, PairSound, OnPair
<1>5. QED
  BY <1>1, <1>2, <1>3, <1>4, ReturnSound DEF Callback, CallbackAnswerLost, CallbackRefused,
     CallbackSpend

\* the code exchange, whose code names a consent of its client,
LEMMA ExchangeKeepsSound ==
    ASSUME IInv, TypeOK', Stable, NEW r \in Requests, Exchange(r)
    PROVE  Sound(request[r])'
<1>. TypeOK
  BY DEF IInv
<1>1. ASSUME NEW s \in Servers, NEW u \in Upstreams, NEW c \in Clients, NEW g \in Grants,
             ExchangeBegin(r, s, u, c, g)
      PROVE  Sound(request[r])'
  <2>1. /\ request'[r].step = "exchange" /\ request'[r].server = s /\ request'[r].up = u
        /\ request'[r].client = c /\ request'[r].grant = g
    BY <1>1 DEF ExchangeBegin, Begin, TypeOK
  <2>2. code[g] # None
    BY <1>1 DEF ExchangeBegin, IInv, CodesRecorded
  <2>3. QED
    BY <1>1, <2>1, <2>2 DEF ExchangeBegin, IsBoundHere, Sound, CallbackSound, InCallback,
       ExchangeSound, InExchange, PairSound, OnPair
<1>2. CASE ExchangeRead(r)
  <2>. DEFINE g == request[r].grant
  <2>1. ExchangeSound(request[r]) /\ request[r].step = "exchange"
    BY <1>2 DEF ExchangeRead, At, IInv, RequestsSound
  <2>2. g \in Grants /\ code[g] # None /\ code[g].token \in Tokens /\ code[g].token[1] = g
    BY <2>1, RecordTypes DEF ExchangeSound, InExchange, IInv, CodesRecorded, CodeRecord
  <2>3. /\ request'[r].step = "issue" /\ request'[r].token = code[g].token
        /\ request'[r].server = request[r].server /\ request'[r].client = request[r].client
        /\ request'[r].up = request[r].up /\ request'[r].grant = g
    <3>1. PICK n : Holding(r, "issue", code[g].token, n, TRUE)
      BY <1>2 DEF ExchangeRead, MappedTokens
    <3>2. Advanced(r, "issue", code[g].token)
      BY <3>1, HoldingFields
    <3>3. QED
      BY <3>2 DEF Advanced
  <2>4. QED
    BY <1>2, <2>1, <2>2, <2>3 DEF ExchangeRead, IsBoundHere, Sound, CallbackSound, InCallback,
       ExchangeSound, InExchange, PairSound, OnPair
<1>3. QED
  BY <1>1, <1>2, ReturnSound DEF Exchange, ExchangeRejected, ExchangeIssue

\* A handler admitted with a token of a pair of its own server and client.
LEMMA PairBeginSound ==
    ASSUME IInv, TypeOK', Stable, NEW r \in Requests, NEW s \in Servers, NEW u \in Upstreams,
           NEW p \in Pairs, NEW step \in {"refresh", "revoke_access", "revoke_refresh", "call"},
           p \in mcp_access_token \cup mcp_refresh_token, IsBoundHere(pair[p], s, u),
           Begin(r, step, s, u, pair[p].client, None, p)
    PROVE  Sound(request[r])'
<1>. TypeOK
  BY DEF IInv
<1>1. /\ request'[r].step = step /\ request'[r].server = s /\ request'[r].up = u
      /\ request'[r].client = pair[p].client /\ request'[r].pair = p
  BY DEF Begin, TypeOK
<1>2. pair[p] # None
  BY DEF IInv, MappingsOutliveRecords, PairsRecorded
<1>3. pair'[p] = pair[p] /\ pair[p].client \in Clients
  BY <1>2, RecordTypes DEF Stable, PairRecord
<1>4. PairSound(request[r])'
  BY <1>1, <1>2, <1>3 DEF IsBoundHere, PairSound
<1>5. CallbackSound(request[r])' /\ ExchangeSound(request[r])'
  BY <1>1 DEF CallbackSound, InCallback, ExchangeSound, InExchange
<1>6. QED
  BY <1>4, <1>5 DEF Sound

\* A handler on a pair moves to a later step of its flow.
LEMMA PairGotoSound ==
    ASSUME IInv, TypeOK', Stable, NEW r \in Requests, OnPair(request[r]), OnPair(request[r])',
           request'[r].server = request[r].server, request'[r].up = request[r].up,
           request'[r].client = request[r].client, request'[r].pair = request[r].pair,
           request'[r].step \in {"renew", "rotate"} =>
              /\ request'[r].token \in Tokens
              /\ request'[r].token[1] = pair[request[r].pair].origin,
           request'[r].step = "send" =>
              IF request'[r].token # None
              THEN request'[r].token[1] = pair[request[r].pair].origin
              ELSE request[r].pair \notin mcp_access_token',
           request'[r].step \in {"retire_refresh", "delete_refresh"}
                 /\ request[r].pair \in refresh_mapping' =>
              request[r].pair \notin mcp_access_token',
           request'[r].step = "delete_access" /\ request[r].pair \in access_mapping' =>
              request[r].pair \notin mcp_refresh_token'
    PROVE  Sound(request[r])'
<1>1. PairSound(request[r])
  BY DEF IInv, RequestsSound
<1>2. PairSound(request[r])'
  BY <1>1 DEF PairSound, IsBoundHere, Stable
<1>3. CallbackSound(request[r])' /\ ExchangeSound(request[r])'
  BY DEF OnPair, CallbackSound, InCallback, ExchangeSound, InExchange
<1>4. QED
  BY <1>2, <1>3 DEF Sound

\* the refresh, which finds the old access token gone before it ends,
LEMMA RefreshKeepsSound ==
    ASSUME IInv, TypeOK', Stable, NEW r \in Requests, Refresh(r)
    PROVE  Sound(request[r])'
<1>. TypeOK
  BY DEF IInv
<1>. USE DEF At
<1>1. ASSUME NEW s \in Servers, NEW u \in Upstreams, NEW c \in Clients, NEW p \in Pairs,
             RefreshBegin(r, s, u, c, p)
      PROVE  Sound(request[r])'
  BY <1>1, PairBeginSound DEF RefreshBegin
<1>2. CASE RefreshKeep(r)
  <2>1. OnPair(request[r])
    BY <1>2 DEF RefreshKeep, OnPair, Steps
  <2>2. PICK n : Holding(r, "rotate", pair[request[r].pair].token, n, TRUE)
    BY <1>2 DEF RefreshKeep
  <2>3. /\ pair[request[r].pair] # None
        /\ pair[request[r].pair].token[1] = pair[request[r].pair].origin
    BY <2>1 DEF IInv, RequestsSound, PairSound, SessionMatchesSignIn
  <2>4. Advanced(r, "rotate", pair[request[r].pair].token)
    BY <2>2, HoldingFields
  <2>5. OnPair(request[r])'
    BY <2>4 DEF OnPair, Steps, Advanced
  <2>6. QED
    BY <2>1, <2>3, <2>4, <2>5, PairTypes, PairGotoSound DEF Advanced
<1>3. CASE RefreshRenew(r)
  <2>1. OnPair(request[r])
    BY <1>3 DEF RefreshRenew, OnPair, Steps
  <2>2. PICK n : Holding(r, "renew", pair[request[r].pair].token, n, FALSE)
    BY <1>3 DEF RefreshRenew
  <2>3. /\ pair[request[r].pair] # None
        /\ pair[request[r].pair].token[1] = pair[request[r].pair].origin
    BY <2>1 DEF IInv, RequestsSound, PairSound, SessionMatchesSignIn
  <2>4. Advanced(r, "renew", pair[request[r].pair].token)
    BY <2>2, HoldingFields
  <2>5. OnPair(request[r])'
    BY <2>4 DEF OnPair, Steps, Advanced
  <2>6. QED
    BY <2>1, <2>3, <2>4, <2>5, PairTypes, PairGotoSound DEF Advanced
<1>4. ASSUME NEW rotates \in BOOLEAN, RefreshUpstream(r, rotates)
      PROVE  Sound(request[r])'
  <2>1. OnPair(request[r]) /\ request[r].step = "renew"
    BY <1>4 DEF RefreshUpstream, OnPair, Steps
  <2>2. <<request[r].token[1], accessGen'[request[r].token[1]]>> \in Tokens
    BY <1>4, RenewsType DEF RefreshUpstream
  <2>3. PICK n : Holding(r, "rotate", <<request[r].token[1], accessGen'[request[r].token[1]]>>, n, FALSE)
    BY <1>4 DEF RefreshUpstream
  <2>4. request[r].token[1] = pair[request[r].pair].origin
    BY <2>1 DEF IInv, RequestsSound, PairSound
  <2>5. Advanced(r, "rotate", <<request[r].token[1], accessGen'[request[r].token[1]]>>)
    BY <2>3, HoldingFields
  <2>6. OnPair(request[r])'
    BY <2>5 DEF OnPair, Steps, Advanced
  <2>7. QED
    BY <2>1, <2>2, <2>4, <2>5, <2>6, PairGotoSound DEF Advanced
<1>5. ASSUME NEW p \in Pairs, RefreshIssue(r, p)
      PROVE  Sound(request[r])'
  <2>1. OnPair(request[r])
    BY <1>5 DEF RefreshIssue, OnPair, Steps
  <2>2. Goto(r, "retire_access")
    BY <1>5 DEF RefreshIssue
  <2>3. OnPair(request[r])'
    BY <2>2, GotoFields DEF OnPair, Steps, Advanced
  <2>4. QED
    BY <2>1, <2>2, <2>3, GotoFields, PairGotoSound DEF Advanced
<1>6. CASE RetireAccess(r)
  <2>1. OnPair(request[r])
    BY <1>6 DEF RetireAccess, OnPair, Steps
  <2>2. /\ Goto(r, "retire_refresh") /\ refresh_mapping' = refresh_mapping
        /\ request[r].pair \in refresh_mapping => request[r].pair \notin mcp_access_token'
    BY <1>6 DEF RetireAccess
  <2>3. OnPair(request[r])'
    BY <2>2, GotoFields DEF OnPair, Steps, Advanced
  <2>4. QED
    BY <2>1, <2>2, <2>3, GotoFields, PairGotoSound DEF Advanced
<1>7. QED
  BY <1>1, <1>2, <1>3, <1>4, <1>5, <1>6, ReturnSound DEF Refresh, RefreshNeedsSignIn,
     RefreshMappingLost, RefreshAnswerLost, RefreshRefused, RetireRefresh

\* the revocation,
LEMMA RevokeKeepsSound ==
    ASSUME IInv, TypeOK', Stable, NEW r \in Requests, Revoke(r)
    PROVE  Sound(request[r])'
<1>. TypeOK
  BY DEF IInv
<1>. USE DEF At
<1>1. ASSUME NEW s \in Servers, NEW u \in Upstreams, NEW p \in Pairs,
             RevokeAccessBegin(r, s, u, p) \/ RevokeRefreshBegin(r, s, u, p)
      PROVE  Sound(request[r])'
  BY <1>1, PairBeginSound DEF RevokeAccessBegin, RevokeRefreshBegin, RevokeBegin
<1>2. CASE RevokePairedRefresh(r)
  <2>1. OnPair(request[r])
    BY <1>2 DEF RevokePairedRefresh, OnPair, Steps
  <2>2. /\ Goto(r, "delete_access") /\ access_mapping' = access_mapping
        /\ request[r].pair \in access_mapping => request[r].pair \notin mcp_refresh_token'
    BY <1>2 DEF RevokePairedRefresh
  <2>3. OnPair(request[r])'
    BY <2>2, GotoFields DEF OnPair, Steps, Advanced
  <2>4. QED
    BY <2>1, <2>2, <2>3, GotoFields, PairGotoSound DEF Advanced
<1>3. CASE RevokePairedAccess(r)
  <2>1. OnPair(request[r])
    BY <1>3 DEF RevokePairedAccess, OnPair, Steps
  <2>2. /\ Goto(r, "delete_refresh") /\ refresh_mapping' = refresh_mapping
        /\ request[r].pair \in refresh_mapping => request[r].pair \notin mcp_access_token'
    BY <1>3 DEF RevokePairedAccess
  <2>3. OnPair(request[r])'
    BY <2>2, GotoFields DEF OnPair, Steps, Advanced
  <2>4. QED
    BY <2>1, <2>2, <2>3, GotoFields, PairGotoSound DEF Advanced
<1>4. QED
  BY <1>1, <1>2, <1>3, ReturnSound DEF Revoke, RevokeAccess, RevokeRefresh

\* and the tool call.
LEMMA ToolCallKeepsSound ==
    ASSUME IInv, TypeOK', Stable, NEW r \in Requests, ToolCall(r)
    PROVE  Sound(request[r])'
<1>. TypeOK
  BY DEF IInv
<1>1. ASSUME NEW s \in Servers, NEW u \in Upstreams, NEW p \in Pairs, CallBegin(r, s, u, p)
      PROVE  Sound(request[r])'
  BY <1>1, PairBeginSound DEF CallBegin
<1>2. CASE CallResolve(r)
  <2>. DEFINE p == request[r].pair
              t == IF p \in access_mapping THEN pair[p].token ELSE None
  <2>1. OnPair(request[r])
    BY <1>2 DEF CallResolve, At, OnPair, Steps
  <2>2. Holding(r, "send", t, 0, TRUE)
    BY <1>2 DEF CallResolve
  <2>3. pair[p] # None /\ pair[p].token[1] = pair[p].origin
    BY <2>1 DEF IInv, RequestsSound, PairSound, SessionMatchesSignIn
  <2>4. t = None => p \notin mcp_access_token'
    BY <1>2, <2>1, PairTypes, ProviderAssumption DEF CallResolve, IInv, MappingsOutliveRecords, Tokens
  <2>5. t # None => t[1] = pair[p].origin
    BY <2>3
  <2>6. Advanced(r, "send", t)
    BY <2>2, HoldingFields
  <2>. HIDE DEF t
  <2>7. OnPair(request[r])'
    BY <2>6 DEF OnPair, Steps, Advanced
  <2>8. QED
    BY <2>1, <2>4, <2>5, <2>6, <2>7, PairGotoSound DEF Advanced
<1>3. QED
  BY <1>1, <1>2, ReturnSound DEF ToolCall, CallSend

-----------------------------------------------------------------------------
\* The steps that are no handler's leave the handlers alone.
LEMMA OthersMove ==
    ASSUME [Next]_vars,
           ~ \E r \in Requests : Callback(r) \/ Exchange(r) \/ Refresh(r) \/ Revoke(r)
                                 \/ ToolCall(r) \/ Crash(r)
    PROVE  /\ UNCHANGED <<request, code, answered, pair, ended, redeemed>>
           /\ mcp_auth_state' \subseteq mcp_auth_state \cup {f \in Flows : flow[f] = None}
           /\ mcp_access_token' \subseteq mcp_access_token
           /\ mcp_refresh_token' \subseteq mcp_refresh_token
           /\ access_mapping' \subseteq access_mapping
           /\ refresh_mapping' \subseteq refresh_mapping
           /\ mcp_auth_code' \subseteq mcp_auth_code
           /\ code_mapping' \subseteq code_mapping
<1>1. CASE Deployment
  BY <1>1 DEF Deployment, Deploy, Undeploy
<1>2. CASE SignIn
  BY <1>2 DEF SignIn, RegisterClient, Authorize, Consent
<1>3. CASE Lapse
  BY <1>3 DEF Lapse, LapseState, LapseCode, LapseCodeMapping, LapseAccess,
     LapseAccessMapping, LapseRefresh, LapseRefreshMapping, LapseApiToken
<1>4. CASE UNCHANGED vars
  BY <1>4 DEF vars
<1>5. QED
  BY <1>1, <1>2, <1>3, <1>4 DEF Next

\* Every handler's knowledge survives every step, its own and others'.
LEMMA RequestsStep ==
    ASSUME IInv, [Next]_vars
    PROVE  RequestsSound'
<1>. TypeOK /\ TypeOK' /\ Stable
  BY TypeStep, StableStep DEF IInv
<1>1. ASSUME NEW r \in Requests, request'[r] = request[r]
      PROVE  Sound(request[r])'
  BY <1>1, UndisturbedRequest DEF Sound
<1>2. ASSUME NEW r \in Requests,
             Callback(r) \/ Exchange(r) \/ Refresh(r) \/ Revoke(r) \/ ToolCall(r) \/ Crash(r)
      PROVE  RequestsSound'
  <2>1. Sound(request[r])'
    <3>1. CASE Crash(r)
      BY <3>1, ReturnSound DEF Crash
    <3>2. QED
      BY <1>2, <3>1, CallbackKeepsSound, ExchangeKeepsSound, RefreshKeepsSound,
         RevokeKeepsSound, ToolCallKeepsSound
  <2>2. ASSUME NEW o \in Requests \ {r}
        PROVE  Sound(request[o])'
    BY <1>1, <1>2, HandlerMoves DEF OnlyMoves
  <2>3. QED
    BY <2>1, <2>2 DEF RequestsSound, Sound
<1>3. CASE ~ \E r \in Requests : Callback(r) \/ Exchange(r) \/ Refresh(r) \/ Revoke(r)
                                 \/ ToolCall(r) \/ Crash(r)
  <2>1. request' = request
    BY <1>3, OthersMove
  <2>2. QED
    BY <1>1, <2>1 DEF RequestsSound, Sound
<1>4. QED
  BY <1>2, <1>3

-----------------------------------------------------------------------------
\* Which steps of a handler touch which records.
LEMMA HandlerFootprint ==
    ASSUME NEW r \in Requests,
           Callback(r) \/ Exchange(r) \/ Refresh(r) \/ Revoke(r) \/ ToolCall(r) \/ Crash(r)
    PROVE  /\ flow' = flow /\ asked' = asked /\ grant' = grant
           /\ CallbackStoreCode(r) \/ UNCHANGED <<code, mcp_auth_code>>
           /\ CallbackSpend(r) \/ UNCHANGED <<mcp_auth_state, answered>>
           /\ \/ \E p \in Pairs : ExchangeIssue(r, p) \/ RefreshIssue(r, p)
              \/ /\ pair' = pair
                 /\ mcp_access_token' \subseteq mcp_access_token
                 /\ mcp_refresh_token' \subseteq mcp_refresh_token
                 /\ access_mapping' \subseteq access_mapping
                 /\ refresh_mapping' \subseteq refresh_mapping
           /\ RetireRefresh(r) \/ RevokeAccess(r) \/ RevokeRefresh(r) \/ ended' = ended
           /\ \/ \E refreshable \in BOOLEAN :
                    CallbackRedeem(r, refreshable) \/ CallbackAnswerLost(r, refreshable)
              \/ redeemed' = redeemed
<1>1. CASE Callback(r)
  BY <1>1 DEF Callback, CallbackBegin, CallbackRedeem, CallbackAnswerLost, UpstreamRedeems,
     CallbackRefused, CallbackStoreCode, CallbackStoreToken, CallbackMap, CallbackSpend
<1>2. CASE Exchange(r)
  BY <1>2 DEF Exchange, ExchangeBegin, ExchangeRead, ExchangeRejected, ExchangeIssue
<1>3. CASE Refresh(r)
  BY <1>3 DEF Refresh, RefreshBegin, RefreshKeep, RefreshRenew, RefreshNeedsSignIn,
     RefreshMappingLost, RefreshUpstream, RefreshAnswerLost, UpstreamRenews, RefreshRefused,
     RefreshIssue, RetireAccess, RetireRefresh
<1>4. CASE Revoke(r)
  BY <1>4 DEF Revoke, RevokeAccessBegin, RevokeRefreshBegin, RevokeBegin, RevokePairedRefresh,
     RevokePairedAccess, RevokeAccess, RevokeRefresh
<1>5. CASE ToolCall(r) \/ Crash(r)
  BY <1>5 DEF ToolCall, CallBegin, CallResolve, CallSend, Crash
<1>6. QED
  BY <1>1, <1>2, <1>3, <1>4, <1>5

-----------------------------------------------------------------------------
\* The rest of the invariant, one part at a time.
LEMMA SignInsStep ==
    ASSUME IInv, [Next]_vars
    PROVE  SignInsRecorded'
<1>. TypeOK /\ TypeOK' /\ Stable /\ SignInsRecorded
  BY TypeStep, StableStep DEF IInv
<1>1. ASSUME NEW s \in Servers, NEW u \in Upstreams, NEW c \in Clients, NEW f \in Flows,
             Authorize(s, u, c, f)
      PROVE  SignInsRecorded'
  <2>1. /\ flow'[f].issuer = u.issuer /\ flow'[f].upstream = AuthorizationServer(u)
        /\ asked'[f] = s /\ s # None
        /\ \A e \in Flows : e # f => flow'[e] = flow[e] /\ asked'[e] = asked[e]
        /\ grant' = grant
    BY <1>1, ProviderAssumption DEF Authorize, TypeOK
  <2>2. u.issuer <=> AuthorizationServer(u)[1] = "issuer"
    BY UpstreamIdType DEF AuthorizationServer
  <2>3. \A e \in Flows : flow'[e] # None =>
           /\ asked'[e] # None
           /\ flow'[e].issuer <=> flow'[e].upstream[1] = "issuer"
    BY <2>1, <2>2 DEF SignInsRecorded
  <2>4. \A g \in Grants : grant'[g] # None => flow'[grant'[g].flow] # None
    BY <2>1, RecordTypes DEF SignInsRecorded, Stable, GrantRecord
  <2>5. QED
    BY <2>3, <2>4 DEF SignInsRecorded
<1>2. CASE grant' = grant /\ flow' = flow /\ asked' = asked
  BY <1>2 DEF SignInsRecorded
<1>3. CASE SignIn
  BY <1>1, <1>2, <1>3 DEF SignIn, RegisterClient, Consent, SignInsRecorded, TypeOK
<1>4. CASE Deployment \/ Lapse \/ UNCHANGED vars
  BY <1>2, <1>4 DEF vars, Deployment, Deploy, Undeploy, Lapse, LapseState, LapseCode,
     LapseCodeMapping, LapseAccess, LapseAccessMapping, LapseRefresh, LapseRefreshMapping,
     LapseApiToken
<1>5. QED
  BY <1>2, <1>3, <1>4, HandlerFootprint DEF Next

\* A mapping is written with its record and lapses after it.
LEMMA MappingsStep ==
    ASSUME IInv, [Next]_vars
    PROVE  MappingsOutliveRecords'
<1>. USE DEF MappingsOutliveRecords
<1>. MappingsOutliveRecords
  BY DEF IInv
<1>1. ASSUME NEW r \in Requests, Callback(r)
      PROVE  MappingsOutliveRecords'
  <2>1. CASE CallbackStoreCode(r)
    <3>1. request[r].grant \notin answered
      BY <2>1 DEF CallbackStoreCode, At, IInv, CodeRedeemedOnce, CodesRecorded
    <3>2. QED
      BY <2>1, <3>1 DEF CallbackStoreCode
  <2>2. CASE CallbackSpend(r)
    <3>1. request[r].grant \in mcp_auth_code => request[r].grant \in code_mapping
      BY <2>2 DEF CallbackSpend, At, IInv, RequestsSound, CallbackSound, InCallback
    <3>2. QED
      BY <2>2, <3>1 DEF CallbackSpend
  <2>3. QED
    BY <1>1, <2>1, <2>2 DEF Callback, CallbackBegin, CallbackRedeem, CallbackAnswerLost,
       CallbackRefused, CallbackStoreToken, CallbackMap
<1>2. ASSUME NEW r \in Requests, Exchange(r)
      PROVE  MappingsOutliveRecords'
  BY <1>2 DEF Exchange, ExchangeBegin, ExchangeRead, ExchangeRejected, ExchangeIssue,
     IssueMcpToken
<1>3. ASSUME NEW r \in Requests, Refresh(r)
      PROVE  MappingsOutliveRecords'
  BY <1>3 DEF Refresh, RefreshBegin, RefreshKeep, RefreshRenew, RefreshNeedsSignIn,
     RefreshMappingLost, RefreshUpstream, RefreshAnswerLost, RefreshRefused, RefreshIssue,
     IssueMcpToken, RetireAccess, RetireRefresh
<1>4. ASSUME NEW r \in Requests, Revoke(r) \/ ToolCall(r) \/ Crash(r)
      PROVE  MappingsOutliveRecords'
  BY <1>4 DEF Revoke, RevokeAccessBegin, RevokeRefreshBegin, RevokeBegin, RevokePairedRefresh,
     RevokePairedAccess, RevokeAccess, RevokeRefresh, ToolCall, CallBegin, CallResolve,
     CallSend, Crash
<1>5. CASE Lapse
  BY <1>5 DEF Lapse, LapseState, LapseCode, LapseCodeMapping, LapseAccess,
     LapseAccessMapping, LapseRefresh, LapseRefreshMapping, LapseApiToken
<1>6. CASE Deployment \/ SignIn \/ UNCHANGED vars
  BY <1>6 DEF Deployment, Deploy, Undeploy, SignIn, RegisterClient, Authorize, Consent, vars
<1>7. QED
  BY <1>1, <1>2, <1>3, <1>4, <1>5, <1>6 DEF Next

\* A code record is what its sign-in and its consent say.
LEMMA CodesStep ==
    ASSUME IInv, [Next]_vars
    PROVE  CodesRecorded'
<1>. TypeOK /\ TypeOK' /\ Stable
  BY TypeStep, StableStep DEF IInv
<1>. USE DEF CodesRecorded
<1>. CodesRecorded
  BY DEF IInv
<1>1. ASSUME NEW g \in Grants, code'[g] = code[g], code[g] # None
      PROVE  /\ g \in redeemed' /\ grant'[g] # None
             /\ OfServer(g, code[g].server)'
             /\ code'[g].client = flow'[grant'[g].flow].client
             /\ code'[g].upstream[2] = grant'[g].as
             /\ code'[g].token[1] = g
  <2>1. /\ g \in redeemed /\ grant[g] # None /\ grant[g].flow \in Flows
        /\ flow[grant[g].flow] # None
    BY <1>1, RecordTypes DEF IInv, SignInsRecorded, GrantRecord
  <2>2. QED
    BY <1>1, <2>1 DEF Stable, OfServer
<1>2. ASSUME NEW r \in Requests, CallbackStoreCode(r)
      PROVE  CodesRecorded'
  <2>. DEFINE q == request[r]
  <2>. PICK h : h = request[r].grant
    OBVIOUS
  <2>1. /\ h \in Grants /\ grant[h] # None /\ q.up \in Upstreams
        /\ OfServer(h, q.server)
        /\ q.client = flow[grant[h].flow].client
        /\ q.token[1] = h /\ grant[h].as = q.up.as
        /\ h \in redeemed
    BY <1>2 DEF CallbackStoreCode, At, IInv, RequestsSound, CallbackSound, InCallback,
       CodeRedeemedOnce
  <2>2. /\ code'[h] # None
        /\ code'[h].server = q.server /\ code'[h].client = q.client
        /\ code'[h].upstream = AuthorizationServer(q.up) /\ code'[h].token = q.token
    <3>1. /\ code'[h] = [server |-> q.server, client |-> q.client,
                         upstream |-> AuthorizationServer(q.up),
                         token |-> q.token, refresh |-> q.refresh]
          /\ code'[h] # None
      BY <1>2, StoredCode
    <3>2. QED
      BY <3>1
  <2>3. ASSUME NEW g \in Grants, g # h
        PROVE  code'[g] = code[g]
    BY <1>2, <2>3 DEF CallbackStoreCode, TypeOK
  <2>4. /\ UNCHANGED <<flow, asked, grant, redeemed, code_mapping, answered>>
        /\ mcp_auth_code' = mcp_auth_code \cup {h}
    BY <1>2 DEF CallbackStoreCode, idp, signIn
  <2>5. code'[h].upstream[2] = grant[h].as
    BY <2>1, <2>2, UpstreamIdType
  <2>6. \A g \in mcp_auth_code' \cup code_mapping' \cup answered' : code'[g] # None
    BY <2>2, <2>3, <2>4 DEF TypeOK
  <2>7. OfServer(h, code[h].server)'
    BY <2>1, <2>2, <2>4 DEF OfServer
  <2>8. ASSUME NEW g \in Grants, code'[g] # None
        PROVE  /\ g \in redeemed' /\ grant'[g] # None
               /\ OfServer(g, code[g].server)'
               /\ code'[g].client = flow'[grant'[g].flow].client
               /\ code'[g].upstream[2] = grant'[g].as
               /\ code'[g].token[1] = g
    <3>1. CASE g = h
      BY <3>1, <2>1, <2>2, <2>4, <2>5, <2>7
    <3>2. CASE g # h
      BY <3>2, <1>1, <2>3, <2>8
    <3>3. QED
      BY <3>1, <3>2
  <2>9. QED
    BY <2>6, <2>8
<1>3. CASE /\ code' = code
           /\ \A g \in mcp_auth_code' \cup code_mapping' \cup answered' : code[g] # None
  BY <1>1, <1>3
<1>4. ASSUME NEW r \in Requests, CallbackMap(r) \/ CallbackSpend(r)
      PROVE  \A g \in mcp_auth_code' \cup code_mapping' \cup answered' : code[g] # None
  <2>1. code[request[r].grant] # None
    BY <1>4 DEF CallbackMap, CallbackSpend, At, IInv, RequestsSound, CallbackSound, InCallback, Writing
  <2>2. QED
    BY <1>4, <2>1 DEF CallbackMap, CallbackSpend
<1>5. ASSUME NEW r \in Requests,
             Callback(r) \/ Exchange(r) \/ Refresh(r) \/ Revoke(r) \/ ToolCall(r) \/ Crash(r),
             ~ CallbackStoreCode(r)
      PROVE  /\ code' = code
             /\ \A g \in mcp_auth_code' \cup code_mapping' \cup answered' : code[g] # None
  <2>1. code' = code /\ mcp_auth_code' = mcp_auth_code
    BY <1>5, HandlerFootprint
  <2>2. CASE CallbackMap(r) \/ CallbackSpend(r)
    BY <1>4, <2>1, <2>2
  <2>3. ASSUME Callback(r) \/ Exchange(r), ~CallbackMap(r), ~CallbackSpend(r)
        PROVE  code_mapping' \subseteq code_mapping /\ answered' = answered
    BY <1>5, <2>3 DEF Callback, CallbackBegin, CallbackRedeem, CallbackAnswerLost,
       CallbackRefused, CallbackStoreToken, Exchange, ExchangeBegin, ExchangeRead,
       ExchangeRejected, ExchangeIssue
  <2>4. ASSUME Refresh(r)
        PROVE  code_mapping' \subseteq code_mapping /\ answered' = answered
    BY <2>4 DEF Refresh, RefreshBegin, RefreshKeep, RefreshRenew, RefreshNeedsSignIn,
       RefreshMappingLost, RefreshUpstream, RefreshAnswerLost, RefreshRefused, RefreshIssue,
       RetireAccess, RetireRefresh
  <2>5. ASSUME Revoke(r) \/ ToolCall(r) \/ Crash(r)
        PROVE  code_mapping' \subseteq code_mapping /\ answered' = answered
    BY <2>5 DEF Revoke, RevokeAccessBegin, RevokeRefreshBegin, RevokeBegin,
       RevokePairedRefresh, RevokePairedAccess, RevokeAccess, RevokeRefresh, ToolCall,
       CallBegin, CallResolve, CallSend, Crash
  <2>6. QED
    BY <1>5, <2>1, <2>2, <2>3, <2>4, <2>5
<1>6. CASE ~ \E r \in Requests : Callback(r) \/ Exchange(r) \/ Refresh(r) \/ Revoke(r)
                                 \/ ToolCall(r) \/ Crash(r)
  <2>1. /\ code' = code /\ answered' = answered /\ mcp_auth_code' \subseteq mcp_auth_code
        /\ code_mapping' \subseteq code_mapping
    BY <1>6, OthersMove
  <2>2. QED
    BY <1>3, <2>1
<1>7. QED
  BY <1>2, <1>3, <1>5, <1>6

\* What a minted pair takes over from the code or the pair it replaces.
LEMMA MintedPair ==
    ASSUME IInv, NEW r \in Requests, NEW p \in Pairs, ExchangeIssue(r, p) \/ RefreshIssue(r, p)
    PROVE  \E g \in Grants :
              /\ IssueMcpToken(r, p, g)
              /\ code[g] # None
              /\ pair'[p] # None
              /\ pair'[p].origin = g
              /\ pair'[p].server = code[g].server
              /\ pair'[p].client = flow[grant[g].flow].client
              /\ pair'[p].token[1] = g
              /\ pair'[p].upstream[2] = grant[g].as
<1>. DEFINE q == request[r]
<1>1. PICK g \in Grants :
         /\ IssueMcpToken(r, p, g) /\ code[g] # None
         /\ q.server \in Servers /\ q.client \in Clients /\ q.up \in Upstreams
         /\ q.token \in Tokens /\ q.token[1] = g
         /\ q.server = code[g].server /\ q.client = flow[grant[g].flow].client
         /\ q.up.as = grant[g].as
  <2>1. CASE ExchangeIssue(r, p)
    <3>1. /\ ExchangeSound(q) /\ q.step = "issue" /\ IssueMcpToken(r, p, q.grant)
      BY <2>1 DEF ExchangeIssue, At, IInv, RequestsSound
    <3>2. /\ q.grant \in Grants /\ code[q.grant] # None
          /\ q.server \in Servers /\ q.client \in Clients /\ q.up \in Upstreams
          /\ q.token \in Tokens /\ q.token[1] = q.grant
          /\ q.client = code[q.grant].client /\ IsBoundHere(code[q.grant], q.server, q.up)
          /\ code[q.grant].client = flow[grant[q.grant].flow].client
          /\ code[q.grant].upstream[2] = grant[q.grant].as
      BY <3>1 DEF ExchangeSound, InExchange, IInv, CodesRecorded
    <3>3. QED
      BY <3>1, <3>2, UpstreamIdType DEF IsBoundHere
  <2>2. CASE RefreshIssue(r, p)
    <3>. DEFINE o == q.pair
    <3>1. /\ PairSound(q) /\ q.step = "rotate" /\ IssueMcpToken(r, p, pair[o].origin)
          /\ OnPair(q)
      BY <2>2 DEF RefreshIssue, At, IInv, RequestsSound, OnPair, Steps
    <3>2. /\ o \in Pairs /\ pair[o] # None /\ pair[o].origin \in Grants
          /\ q.server \in Servers /\ q.client \in Clients /\ q.up \in Upstreams
          /\ q.token \in Tokens /\ q.token[1] = pair[o].origin
          /\ q.client = pair[o].client /\ IsBoundHere(pair[o], q.server, q.up)
      BY <3>1, PairTypes DEF PairSound
    <3>3. /\ code[pair[o].origin] # None
          /\ pair[o].server = code[pair[o].origin].server
          /\ pair[o].client = flow[grant[pair[o].origin].flow].client
          /\ pair[o].upstream[2] = grant[pair[o].origin].as
      BY <3>2 DEF IInv, PairsRecorded, SessionMatchesSignIn
    <3>4. QED
      BY <3>1, <3>2, <3>3, UpstreamIdType DEF IsBoundHere
  <2>3. QED
    BY <2>1, <2>2
<1>2. q.refresh \in Gens
  BY RecordTypes DEF RequestRecord
<1>3. pair'[p] = [server |-> q.server, client |-> q.client,
                  upstream |-> AuthorizationServer(q.up), token |-> q.token,
                  refresh |-> q.refresh, origin |-> g]
  BY <1>1 DEF IssueMcpToken, IInv, TypeOK
<1>4. pair'[p] \in PairRecord
  BY <1>1, <1>2, <1>3, UpstreamIdType DEF PairRecord
<1>5. pair'[p] # None
  BY <1>4, NoneAssumption
<1>6. AuthorizationServer(q.up)[2] = grant[g].as
  BY <1>1, UpstreamIdType
<1>. HIDE DEF q
<1>7. QED
  BY <1>1, <1>3, <1>5, <1>6

\* A pair is what its sign-in and its consent say.
LEMMA PairsStep ==
    ASSUME IInv, [Next]_vars
    PROVE  PairsRecorded' /\ SessionMatchesSignIn'
<1>. TypeOK /\ TypeOK' /\ Stable
  BY TypeStep, StableStep DEF IInv
<1>. PairsRecorded /\ SessionMatchesSignIn /\ SignInsRecorded
  BY DEF IInv
<1>. CodesRecorded
  BY DEF IInv
<1>1. ASSUME NEW g \in Grants, code[g] # None
      PROVE  /\ code'[g] = code[g] /\ code'[g] # None
             /\ grant'[g] = grant[g] /\ flow'[grant[g].flow] = flow[grant[g].flow]
             /\ OfServer(g, code[g].server)'
  <2>1. /\ grant[g] # None /\ grant[g].flow \in Flows /\ flow[grant[g].flow] # None
        /\ OfServer(g, code[g].server)
    BY <1>1, RecordTypes DEF CodesRecorded, GrantRecord, SignInsRecorded
  <2>2. QED
    BY <1>1, <2>1 DEF Stable, OfServer
<1>2. ASSUME NEW p \in Pairs, pair'[p] = pair[p], pair[p] # None
      PROVE  /\ code'[pair'[p].origin] # None
             /\ pair'[p].server = code'[pair'[p].origin].server
             /\ OfServer(pair[p].origin, code[pair[p].origin].server)'
             /\ pair'[p].client = flow'[grant'[pair'[p].origin].flow].client
             /\ pair'[p].token[1] = pair'[p].origin
             /\ pair'[p].upstream[2] = grant'[pair'[p].origin].as
  <2>1. pair[p].origin \in Grants /\ code[pair[p].origin] # None
    BY <1>2, RecordTypes DEF PairRecord, PairsRecorded
  <2>2. QED
    BY <1>1, <1>2, <2>1 DEF SessionMatchesSignIn
<1>3. ASSUME NEW r \in Requests, NEW p \in Pairs, ExchangeIssue(r, p) \/ RefreshIssue(r, p)
      PROVE  PairsRecorded' /\ SessionMatchesSignIn'
  <2>1. PICK g \in Grants :
           /\ IssueMcpToken(r, p, g) /\ code[g] # None
           /\ pair'[p] # None /\ pair'[p].origin = g
           /\ pair'[p].server = code[g].server
           /\ pair'[p].client = flow[grant[g].flow].client
           /\ pair'[p].token[1] = g
           /\ pair'[p].upstream[2] = grant[g].as
    BY <1>3, MintedPair
  <2>2. UNCHANGED <<flow, grant, ended>>
    BY <1>3 DEF ExchangeIssue, RefreshIssue
  <2>3. \A o \in Pairs : o # p => pair'[o] = pair[o]
    BY <2>1 DEF IssueMcpToken, TypeOK
  <2>4. /\ access_mapping' = access_mapping \cup {p}
        /\ refresh_mapping' = refresh_mapping \cup {p}
    BY <2>1 DEF IssueMcpToken
  <2>5. \A e \in ended' : pair'[e[1]] # None
    <3>. SUFFICES ASSUME NEW e \in ended PROVE pair'[e[1]] # None
      BY <2>2
    <3>1. e[1] \in Pairs /\ pair[e[1]] # None
      BY DEF PairsRecorded, TypeOK
    <3>2. QED
      BY <2>1, <2>3, <3>1
  <2>6. \A o \in Pairs : pair'[o] # None => code'[pair'[o].origin] # None
    BY <1>1, <1>2, <2>1, <2>3
  <2>7. PairsRecorded'
    BY <2>1, <2>3, <2>4, <2>5, <2>6 DEF PairsRecorded, TypeOK
  <2>8. SessionMatchesSignIn'
    BY <1>1, <1>2, <2>1, <2>2, <2>3 DEF SessionMatchesSignIn
  <2>9. QED
    BY <2>7, <2>8
<1>4. CASE /\ pair' = pair /\ access_mapping' \subseteq access_mapping
           /\ refresh_mapping' \subseteq refresh_mapping
           /\ \A e \in ended' : pair[e[1]] # None
  <2>1. PairsRecorded'
    BY <1>2, <1>4 DEF PairsRecorded
  <2>2. SessionMatchesSignIn'
    BY <1>2, <1>4 DEF SessionMatchesSignIn
  <2>3. QED
    BY <2>1, <2>2
<1>5. ASSUME NEW r \in Requests, RetireRefresh(r) \/ RevokeAccess(r) \/ RevokeRefresh(r)
      PROVE  \A e \in ended' : pair[e[1]] # None
  <2>1. OnPair(request[r])
    BY <1>5 DEF RetireRefresh, RevokeAccess, RevokeRefresh, At, OnPair
  <2>2. pair[request[r].pair] # None
    BY <2>1 DEF IInv, RequestsSound, PairSound
  <2>3. PICK half : ended' = ended \cup {<<request[r].pair, half>>}
    BY <1>5 DEF RetireRefresh, RevokeAccess, RevokeRefresh
  <2>4. QED
    BY <2>2, <2>3 DEF PairsRecorded
<1>6. ASSUME ended' = ended
      PROVE  \A e \in ended' : pair[e[1]] # None
  BY <1>6 DEF PairsRecorded
<1>7. ASSUME NEW r \in Requests,
             Callback(r) \/ Exchange(r) \/ Refresh(r) \/ Revoke(r) \/ ToolCall(r) \/ Crash(r)
      PROVE  PairsRecorded' /\ SessionMatchesSignIn'
  BY <1>3, <1>4, <1>5, <1>6, <1>7, HandlerFootprint
<1>8. QED
  BY <1>4, <1>6, <1>7, OthersMove

\* Only redeeming a code leads to storing its answer.
LEMMA PersistsOnlyRedeemed ==
    ASSUME IInv, NEW r \in Requests,
           Callback(r) \/ Exchange(r) \/ Refresh(r) \/ Revoke(r) \/ ToolCall(r) \/ Crash(r),
           request'[r].step = "store_code"
    PROVE  \E refreshable \in BOOLEAN : CallbackRedeem(r, refreshable)
<1>1. ASSUME NEW step, NEW s, NEW u, NEW c, NEW g, NEW p, Begin(r, step, s, u, c, g, p)
      PROVE  request'[r].step = step
  BY <1>1 DEF Begin, IInv, TypeOK
<1>2. ASSUME NEW step, NEW t, NEW n, NEW b, Holding(r, step, t, n, b)
      PROVE  request'[r].step = step
  BY <1>2, HoldingFields DEF Advanced
<1>3. ASSUME NEW step, Goto(r, step)
      PROVE  request'[r].step = step
  BY <1>3, GotoFields DEF Advanced
<1>4. ASSUME Return(r)
      PROVE  request'[r].step = "idle"
  BY <1>4 DEF Return, Idle, IInv, TypeOK
<1>5. CASE Callback(r)
  BY <1>1, <1>3, <1>4, <1>5 DEF Callback, CallbackBegin, CallbackAnswerLost, CallbackRefused,
     CallbackStoreCode, CallbackStoreToken, CallbackMap, CallbackSpend
<1>6. CASE Exchange(r)
  BY <1>1, <1>2, <1>4, <1>6 DEF Exchange, ExchangeBegin, ExchangeRead, ExchangeRejected,
     ExchangeIssue
<1>7. CASE Refresh(r)
  BY <1>1, <1>2, <1>3, <1>4, <1>7 DEF Refresh, RefreshBegin, RefreshKeep, RefreshRenew,
     RefreshNeedsSignIn, RefreshMappingLost, RefreshUpstream, RefreshAnswerLost,
     RefreshRefused, RefreshIssue, RetireAccess, RetireRefresh
<1>8. CASE Revoke(r)
  BY <1>1, <1>3, <1>4, <1>8 DEF Revoke, RevokeAccessBegin, RevokeRefreshBegin, RevokeBegin,
     RevokePairedRefresh, RevokePairedAccess, RevokeAccess, RevokeRefresh
<1>9. CASE ToolCall(r) \/ Crash(r)
  BY <1>1, <1>2, <1>4, <1>9 DEF ToolCall, CallBegin, CallResolve, CallSend, Crash
<1>10. QED
  BY <1>5, <1>6, <1>7, <1>8, <1>9

\* No second handler gets the answer for a code.
LEMMA RedeemedOnceStep ==
    ASSUME IInv, [Next]_vars
    PROVE  CodeRedeemedOnce'
<1>. TypeOK /\ TypeOK' /\ Stable /\ CodeRedeemedOnce
  BY TypeStep, StableStep DEF IInv
<1>1. ASSUME NEW r \in Requests, NEW refreshable \in BOOLEAN, CallbackRedeem(r, refreshable)
      PROVE  CodeRedeemedOnce'
  <2>. DEFINE g == request[r].grant
  <2>1. g \in Grants /\ g \notin redeemed /\ redeemed' = redeemed \cup {g} /\ code' = code
    BY <1>1 DEF CallbackRedeem, UpstreamRedeems, At, IInv, RequestsSound, CallbackSound,
       InCallback
  <2>2. code[g] = None
    BY <2>1 DEF IInv, CodesRecorded
  <2>3. request'[r].grant = g
    BY <1>1, HoldingFields DEF CallbackRedeem, Advanced
  <2>4. \A o \in Requests : o # r => request'[o] = request[o]
    BY <1>1, HandlerMoves DEF OnlyMoves, Callback
  <2>5. QED
    BY <2>1, <2>2, <2>3, <2>4 DEF CodeRedeemedOnce
<1>2. ASSUME NEW r \in Requests,
             Callback(r) \/ Exchange(r) \/ Refresh(r) \/ Revoke(r) \/ ToolCall(r) \/ Crash(r),
             ~ \E refreshable \in BOOLEAN : CallbackRedeem(r, refreshable)
      PROVE  CodeRedeemedOnce'
  <2>1. request'[r].step # "store_code"
    BY <1>2, PersistsOnlyRedeemed
  <2>2. \A o \in Requests : o # r => request'[o] = request[o]
    BY <1>2, HandlerMoves DEF OnlyMoves
  <2>3. redeemed \subseteq redeemed'
    BY DEF Stable
  <2>4. CASE CallbackStoreCode(r)
    <3>1. \A g \in Grants : g # request[r].grant => code'[g] = code[g]
      BY <2>4 DEF CallbackStoreCode, TypeOK
    <3>2. ASSUME NEW o \in Requests, request[o].step = "store_code", o # r
          PROVE  request[o].grant # request[r].grant
      BY <2>4, <3>2 DEF CallbackStoreCode, At, CodeRedeemedOnce
    <3>3. ASSUME NEW o \in Requests, request[o].step = "store_code"
          PROVE  request[o].grant \in Grants
      BY <3>3 DEF IInv, RequestsSound, CallbackSound, InCallback
    <3>4. QED
      BY <2>1, <2>2, <2>3, <3>1, <3>2, <3>3 DEF CodeRedeemedOnce
  <2>5. CASE code' = code
    BY <2>1, <2>2, <2>3, <2>5 DEF CodeRedeemedOnce
  <2>6. QED
    BY <1>2, <2>4, <2>5, HandlerFootprint
<1>3. CASE UNCHANGED <<request, code, redeemed>>
  BY <1>3 DEF CodeRedeemedOnce
<1>4. QED
  BY <1>1, <1>2, <1>3, OthersMove

\* A spent state never comes back.
LEMMA AnsweredStep ==
    ASSUME IInv, [Next]_vars
    PROVE  AnsweredStateIsSpent'
<1>. TypeOK /\ TypeOK' /\ Stable /\ AnsweredStateIsSpent
  BY TypeStep, StableStep DEF IInv
<1>1. ASSUME NEW g \in answered
      PROVE  /\ grant'[g] = grant[g] /\ grant[g].flow \in Flows
             /\ flow[grant[g].flow] # None /\ grant[g].flow \notin mcp_auth_state
  <2>1. g \in Grants /\ code[g] # None
    BY DEF TypeOK, IInv, CodesRecorded
  <2>2. QED
    BY <2>1, RecordTypes DEF IInv, CodesRecorded, SignInsRecorded, Stable, GrantRecord,
       AnsweredStateIsSpent
<1>2. ASSUME NEW r \in Requests, CallbackSpend(r)
      PROVE  AnsweredStateIsSpent'
  <2>. DEFINE g == request[r].grant
  <2>1. /\ grant' = grant /\ mcp_auth_state' = mcp_auth_state \ {grant[g].flow}
        /\ answered' = answered \cup {g}
    BY <1>2 DEF CallbackSpend, SpendState
  <2>2. QED
    BY <2>1 DEF AnsweredStateIsSpent
<1>3. CASE /\ answered' = answered
           /\ mcp_auth_state' \subseteq mcp_auth_state \cup {f \in Flows : flow[f] = None}
  BY <1>1, <1>3 DEF AnsweredStateIsSpent
<1>4. QED
  BY <1>2, <1>3, OthersMove, HandlerFootprint

\* No step brings a record of an ended pair back.
LEMMA EndedStep ==
    ASSUME IInv, [Next]_vars
    PROVE  EndedPairsStayDead'
<1>. TypeOK /\ TypeOK' /\ Stable /\ EndedPairsStayDead
  BY TypeStep, StableStep DEF IInv
<1>1. ASSUME NEW p \in Pairs
      PROVE  /\ <<p, "access">> \in ended =>
                   Ended(p, mcp_access_token, access_mapping, mcp_refresh_token)'
             /\ <<p, "refresh">> \in ended =>
                   Ended(p, mcp_refresh_token, refresh_mapping, mcp_access_token)'
  <2>1. ASSUME NEW half, <<p, half>> \in ended
        PROVE  pair[p] # None
    BY <2>1 DEF IInv, PairsRecorded
  <2>2. QED
    BY <2>1 DEF EndedPairsStayDead, Ended, Stable
<1>2. ASSUME NEW r \in Requests,
             \/ RetireRefresh(r) /\ request[r].step = "retire_refresh"
             \/ RevokeRefresh(r) /\ request[r].step = "delete_refresh"
      PROVE  EndedPairsStayDead'
  <2>. PICK p : p = request[r].pair
    OBVIOUS
  <2>1. OnPair(request[r])
    BY <1>2 DEF OnPair
  <2>2. p \in Pairs /\ (p \in refresh_mapping => p \notin mcp_access_token)
    BY <1>2, <2>1 DEF IInv, RequestsSound, PairSound
  <2>3. /\ ended' = ended \cup {<<p, "refresh">>}
        /\ mcp_refresh_token' = mcp_refresh_token \ {p}
        /\ refresh_mapping' = refresh_mapping /\ mcp_access_token' = mcp_access_token
    BY <1>2 DEF RetireRefresh, RevokeRefresh
  <2>4. Ended(p, mcp_refresh_token, refresh_mapping, mcp_access_token)'
    BY <2>2, <2>3 DEF Ended
  <2>5. ASSUME NEW o \in Pairs, <<o, "access">> \in ended'
        PROVE  <<o, "access">> \in ended
    BY <2>3, <2>5
  <2>6. ASSUME NEW o \in Pairs, <<o, "refresh">> \in ended'
        PROVE  <<o, "refresh">> \in ended \/ o = p
    BY <2>3, <2>6
  <2>7. QED
    BY <1>1, <2>4, <2>5, <2>6 DEF EndedPairsStayDead
<1>3. ASSUME NEW r \in Requests, RevokeAccess(r), request[r].step = "delete_access"
      PROVE  EndedPairsStayDead'
  <2>. PICK p : p = request[r].pair
    OBVIOUS
  <2>1. OnPair(request[r])
    BY <1>3 DEF OnPair
  <2>2. p \in Pairs /\ (p \in access_mapping => p \notin mcp_refresh_token)
    BY <1>3, <2>1 DEF IInv, RequestsSound, PairSound
  <2>3. /\ ended' = ended \cup {<<p, "access">>}
        /\ mcp_access_token' = mcp_access_token \ {p}
        /\ access_mapping' = access_mapping /\ mcp_refresh_token' = mcp_refresh_token
    BY <1>3 DEF RevokeAccess
  <2>4. Ended(p, mcp_access_token, access_mapping, mcp_refresh_token)'
    BY <2>2, <2>3 DEF Ended
  <2>5. ASSUME NEW o \in Pairs, <<o, "refresh">> \in ended'
        PROVE  <<o, "refresh">> \in ended
    BY <2>3, <2>5
  <2>6. ASSUME NEW o \in Pairs, <<o, "access">> \in ended'
        PROVE  <<o, "access">> \in ended \/ o = p
    BY <2>3, <2>6
  <2>7. QED
    BY <1>1, <2>4, <2>5, <2>6 DEF EndedPairsStayDead
<1>4. CASE ended' = ended
  BY <1>1, <1>4 DEF EndedPairsStayDead
<1>5. \A r \in Requests : /\ RetireRefresh(r) => request[r].step = "retire_refresh"
                          /\ RevokeAccess(r) => request[r].step = "delete_access"
                          /\ RevokeRefresh(r) => request[r].step = "delete_refresh"
  BY DEF RetireRefresh, RevokeAccess, RevokeRefresh, At
<1>6. QED
  BY <1>2, <1>3, <1>4, <1>5, OthersMove, HandlerFootprint

-----------------------------------------------------------------------------
(***************************************************************************)
(* The theorems.                                                           *)
(***************************************************************************)
LEMMA InitInductive == Init => IInv
<1>. SUFFICES ASSUME Init PROVE IInv
  OBVIOUS
<1>. USE DEF Init
<1>1. TypeOK
  BY IdleType, GenZero DEF TypeOK
<1>2. /\ SignInsRecorded /\ MappingsOutliveRecords /\ CodesRecorded /\ PairsRecorded
      /\ SessionMatchesSignIn /\ AnsweredStateIsSpent /\ EndedPairsStayDead
  BY DEF SignInsRecorded, MappingsOutliveRecords, CodesRecorded, PairsRecorded,
     SessionMatchesSignIn, AnsweredStateIsSpent, EndedPairsStayDead
<1>3. CodeRedeemedOnce /\ RequestsSound
  BY IdleSound DEF CodeRedeemedOnce, RequestsSound, Idle
<1>4. QED
  BY <1>1, <1>2, <1>3 DEF IInv

\* Every step keeps the inductive invariant.
LEMMA StepInductive == IInv /\ [Next]_vars => IInv'
<1>. SUFFICES ASSUME IInv, [Next]_vars PROVE IInv'
  OBVIOUS
<1>. QED
  BY TypeStep, SignInsStep, MappingsStep, CodesStep, PairsStep, RedeemedOnceStep, RequestsStep,
     AnsweredStep, EndedStep DEF IInv

\* The conjunction of what the records and the handlers between two steps keep
\* of the checks made earlier is an invariant.
THEOREM Inductive == Spec => []IInv
BY InitInductive, StepInductive, PTL DEF Spec

\* Every variable keeps its type.
THEOREM TypeCorrect == Spec => []TypeOK
<1>1. IInv => TypeOK
  BY DEF IInv
<1>2. QED
  BY <1>1, Inductive, PTL

\* What a pair of MCP tokens unlocks is what its owner consented to, however
\* often it was rotated, whoever else was served meanwhile and whichever server's
\* callback the sign-in came back to: the session is that server's, and another
\* one's than it began at only if the upstream does not check redirect_uri.
THEOREM SessionsMatchSignIns == Spec => []SessionMatchesSignIn
<1>1. IInv => SessionMatchesSignIn
  BY DEF IInv
<1>2. QED
  BY <1>1, Inductive, PTL

\* A tool call leaves only with a credential of its own caller's, upstream's and
\* session's; of its own server's unless the upstream does not check redirect_uri.
THEOREM CredentialsStayInCustody == Spec => []CredentialCustody
<1>1. ASSUME IInv PROVE CredentialCustody
  <2>1. SUFFICES ASSUME NEW r \in Requests, request[r].step = "send", request[r].token # None
        PROVE  /\ request[r].token[1] = pair[request[r].pair].origin
               /\ grant[request[r].token[1]].as = request[r].up.as
               /\ OfServer(request[r].token[1], request[r].server)
               /\ request[r].server = pair[request[r].pair].server
    BY DEF CredentialCustody
  <2>2. /\ request[r].pair \in Pairs /\ pair[request[r].pair] # None
        /\ request[r].up \in Upstreams
        /\ IsBoundHere(pair[request[r].pair], request[r].server, request[r].up)
        /\ request[r].token[1] = pair[request[r].pair].origin
    BY <1>1, <2>1 DEF IInv, RequestsSound, PairSound, OnPair, Steps
  <2>3. QED
    BY <1>1, <2>2, UpstreamIdType DEF IInv, SessionMatchesSignIn, IsBoundHere
<1>2. QED
  BY <1>1, Inductive, PTL

\* A code reaches no token endpoint but its issuer's, when both are known.
THEOREM CodesReachTheirIssuer == Spec => []CodeReachesItsIssuer
<1>1. ASSUME IInv PROVE CodeReachesItsIssuer
  <2>1. SUFFICES ASSUME NEW r \in Requests, request[r].step = "redeem",
                        grant[request[r].grant].iss, request[r].up.issuer
        PROVE  grant[request[r].grant].as = request[r].up.as
    BY DEF CodeReachesItsIssuer
  <2>2. /\ request[r].up \in Upstreams /\ request[r].grant \in Grants
        /\ IssuerValid(grant[request[r].grant].flow, request[r].grant, request[r].up)
        /\ grant[request[r].grant] # None
    BY <1>1, <2>1 DEF IInv, RequestsSound, CallbackSound, InCallback
  <2>. DEFINE f == grant[request[r].grant].flow
  <2>3. flow[f].upstream = <<"issuer", request[r].up.as>>
    BY <2>1, <2>2 DEF IssuerValid, AuthorizationServer
  <2>4. f \in Flows /\ flow[f].issuer
    BY <1>1, <2>2, <2>3, RecordTypes DEF IInv, SignInsRecorded, GrantRecord
  <2>5. flow[f].upstream = <<"issuer", grant[request[r].grant].as>>
    BY <2>1, <2>2, <2>4 DEF IssuerValid
  <2>6. QED
    BY <2>3, <2>5
<1>2. QED
  BY <1>1, Inductive, PTL

\* Once the browser was sent back, the state of its sign-in is never accepted
\* again, whatever was interrupted between the callback's writes.
THEOREM AnsweredStatesAreSpent == Spec => []AnsweredStateIsSpent
<1>1. IInv => AnsweredStateIsSpent
  BY DEF IInv
<1>2. QED
  BY <1>1, Inductive, PTL

\* A token is not accepted once its revocation or its rotation is over, whatever
\* ran at the same time, and neither is the other one of its pair, unless the
\* mapping to it had lapsed.
THEOREM EndedPairsStayDeadAlways == Spec => []EndedPairsStayDead
<1>1. IInv => EndedPairsStayDead
  BY DEF IInv
<1>2. QED
  BY <1>1, Inductive, PTL

\* A call leaves without a credential only when its access token is gone.
THEOREM CallsAlwaysCarryCredential == Spec => []CallsCarryCredential
<1>1. IInv => CallsCarryCredential
  BY DEF IInv, CallsCarryCredential, RequestsSound, PairSound, OnPair, Steps
<1>2. QED
  BY <1>1, Inductive, PTL

-----------------------------------------------------------------------------
(***************************************************************************)
(* The newest refresh token an upstream issued is never stranded by the    *)
(* gateway's own handlers.                                                 *)
(***************************************************************************)
Acts(r) == Callback(r) \/ Exchange(r) \/ Refresh(r) \/ Revoke(r) \/ ToolCall(r) \/ Crash(r)

RInv == IInv /\ RefreshTokensOrdered

-----------------------------------------------------------------------------
\* Where the upstreams' own counters may change: when a code is redeemed and when
\* an access token is renewed.
Redeems(r) ==
    \E refreshable \in BOOLEAN : CallbackRedeem(r, refreshable) \/ CallbackAnswerLost(r, refreshable)
Renews(r) ==
    \E rotates \in BOOLEAN : RefreshUpstream(r, rotates) \/ RefreshAnswerLost(r, rotates)

LEMMA GensFootprint ==
    ASSUME NEW r \in Requests, Acts(r)
    PROVE  Redeems(r) \/ Renews(r) \/ UNCHANGED <<accessGen, refreshGen>>
<1>1. CASE Callback(r)
  BY <1>1 DEF Callback, CallbackBegin, CallbackRefused, CallbackStoreCode, CallbackStoreToken,
     CallbackMap, CallbackSpend, Redeems
<1>2. CASE Exchange(r)
  BY <1>2 DEF Exchange, ExchangeBegin, ExchangeRead, ExchangeRejected, ExchangeIssue
<1>3. CASE Refresh(r)
  BY <1>3 DEF Refresh, RefreshBegin, RefreshKeep, RefreshRenew, RefreshNeedsSignIn,
     RefreshMappingLost, RefreshRefused, RefreshIssue, RetireAccess, RetireRefresh, Renews
<1>4. CASE Revoke(r)
  BY <1>4 DEF Revoke, RevokeAccessBegin, RevokeRefreshBegin, RevokeBegin, RevokePairedRefresh,
     RevokePairedAccess, RevokeAccess, RevokeRefresh
<1>5. CASE ToolCall(r) \/ Crash(r)
  BY <1>5 DEF ToolCall, CallBegin, CallResolve, CallSend, Crash
<1> QED
  BY <1>1, <1>2, <1>3, <1>4, <1>5 DEF Acts

\* Nothing but a handler moves them.
LEMMA OthersKeepGens ==
    ASSUME [Next]_vars, ~ \E r \in Requests : Acts(r)
    PROVE  UNCHANGED <<accessGen, refreshGen>>
<1>1. CASE Deployment
  BY <1>1 DEF Deployment, Deploy, Undeploy
<1>2. CASE SignIn
  BY <1>2 DEF SignIn, RegisterClient, Authorize, Consent
<1>3. CASE Lapse
  BY <1>3 DEF Lapse, LapseState, LapseCode, LapseCodeMapping, LapseAccess,
     LapseAccessMapping, LapseRefresh, LapseRefreshMapping, LapseApiToken
<1>4. CASE UNCHANGED vars
  BY <1>4 DEF vars
<1> QED
  BY <1>1, <1>2, <1>3, <1>4 DEF Next, Acts

\* The counters are numbers.
LEMMA GensAreNumbers ==
    ASSUME RInv, [Next]_vars
    PROVE  /\ \A g \in Grants : /\ refreshGen[g] \in Nat /\ accessGen[g] \in Nat
                               /\ refreshGen'[g] \in Nat /\ accessGen'[g] \in Nat
           /\ \A q \in RequestRecord : q.refresh \in Nat
           /\ \A c \in CodeRecord : c.refresh \in Nat
           /\ \A p \in PairRecord : p.refresh \in Nat
<1>1. \A n \in Gens : n \in Nat
  BY ProviderAssumption DEF Gens
<1>2. /\ accessGen \in [Grants -> Gens] /\ refreshGen \in [Grants -> Gens]
      /\ accessGen' \in [Grants -> Gens] /\ refreshGen' \in [Grants -> Gens]
  BY TypeStep DEF RInv, IInv, TypeOK
<1> QED
  BY <1>1, <1>2 DEF RequestRecord, CodeRecord, PairRecord

\* A handler that renews has the consent of its pair, and it is the upstream's
\* newest refresh token that it sends.
LEMMA RenewsFor ==
    ASSUME RInv, NEW r \in Requests, NEW rotates \in BOOLEAN, At(r, "renew"), UpstreamRenews(r, rotates),
           NEW g, g = pair[request[r].pair].origin
    PROVE  /\ g \in Grants /\ g \in redeemed /\ request[r].token[1] = g
           /\ request[r].refresh = refreshGen[g]
           /\ accessGen'[g] = accessGen[g] + 1
           /\ refreshGen'[g] = IF rotates THEN accessGen[g] + 1 ELSE refreshGen[g]
           /\ \A h \in Grants \ {g} : accessGen'[h] = accessGen[h] /\ refreshGen'[h] = refreshGen[h]
           /\ redeemed' = redeemed
<1>1. OnPair(request[r]) /\ request[r].step = "renew"
  BY DEF At, OnPair, Steps
<1>2. g \in Grants
  BY <1>1, PairTypes DEF RInv
<1>3. request[r].token[1] = g
  BY <1>1 DEF RInv, IInv, RequestsSound, PairSound
<1>4. request[r].refresh = refreshGen[g] /\ request[r].refresh # 0
  BY <1>1, <1>3 DEF UpstreamRenews, RInv, RefreshTokensOrdered, RefreshOrdered
<1>5. g \in redeemed
  BY <1>2, <1>4 DEF RInv, RefreshTokensOrdered
<1> QED
  BY <1>2, <1>3, <1>4, <1>5 DEF UpstreamRenews, RInv, IInv, TypeOK

\* A handler that redeems a code is the first to.
LEMMA RedeemsFor ==
    ASSUME RInv, NEW r \in Requests, NEW refreshable \in BOOLEAN, At(r, "redeem"), UpstreamRedeems(r, refreshable),
           NEW g, g = request[r].grant
    PROVE  /\ g \in Grants /\ refreshGen[g] = 0
           /\ accessGen'[g] = 1 /\ refreshGen'[g] \in {0, 1}
           /\ \A h \in Grants \ {g} : accessGen'[h] = accessGen[h] /\ refreshGen'[h] = refreshGen[h]
           /\ redeemed' = redeemed \cup {g}
<1>1. g \in Grants
  BY DEF At, RInv, IInv, RequestsSound, CallbackSound, InCallback
<1>2. accessGen \in [Grants -> Gens] /\ refreshGen \in [Grants -> Gens]
  BY DEF RInv, IInv, TypeOK
<1> QED
  BY <1>1, <1>2 DEF UpstreamRedeems, RInv, RefreshTokensOrdered

\* They count up.
GensGrow(g) ==
    /\ refreshGen[g] <= refreshGen'[g]
    /\ refreshGen'[g] <= accessGen'[g]
    /\ refreshGen'[g] # 0 => g \in redeemed'

LEMMA GensStep ==
    ASSUME RInv, [Next]_vars
    PROVE  \A g \in Grants : GensGrow(g)
<1>1. /\ \A g \in Grants : refreshGen[g] <= accessGen[g] /\ (refreshGen[g] # 0 => g \in redeemed)
      /\ redeemed \subseteq redeemed'
  BY StableStep DEF RInv, RefreshTokensOrdered, Stable
<1>2. ASSUME NEW g \in Grants, accessGen'[g] = accessGen[g] /\ refreshGen'[g] = refreshGen[g]
      PROVE  GensGrow(g)
  BY <1>1, <1>2, GensAreNumbers DEF GensGrow
<1>3. ASSUME NEW r \in Requests, NEW refreshable \in BOOLEAN, At(r, "redeem"), UpstreamRedeems(r, refreshable),
             NEW g \in Grants
      PROVE  GensGrow(g)
  <2>1. CASE g = request[r].grant
    BY <1>3, <2>1, RedeemsFor DEF GensGrow
  <2>2. CASE g # request[r].grant
    BY <1>2, <1>3, <2>2, RedeemsFor
  <2> QED
    BY <2>1, <2>2
<1>4. ASSUME NEW r \in Requests, NEW rotates \in BOOLEAN, At(r, "renew"), UpstreamRenews(r, rotates),
             NEW g \in Grants
      PROVE  GensGrow(g)
  <2>1. CASE g = pair[request[r].pair].origin
    <3>1. /\ g \in redeemed' /\ accessGen'[g] = accessGen[g] + 1
          /\ refreshGen'[g] = IF rotates THEN accessGen[g] + 1 ELSE refreshGen[g]
      BY <1>4, <2>1, RenewsFor
    <3> QED
      BY <1>1, <3>1, GensAreNumbers DEF GensGrow
  <2>2. CASE g # pair[request[r].pair].origin
    BY <1>2, <1>4, <2>2, RenewsFor
  <2> QED
    BY <2>1, <2>2
<1> QED
  BY <1>2, <1>3, <1>4, GensFootprint, OthersKeepGens DEF Redeems, Renews, CallbackRedeem,
     CallbackAnswerLost, RefreshUpstream, RefreshAnswerLost

-----------------------------------------------------------------------------
\* Which step brings a handler to where it holds a refresh token, or replaces one.
LEMMA ComesFrom ==
    ASSUME IInv, NEW r \in Requests, Acts(r)
    PROVE  /\ request'[r].step = "store_code" => \E refreshable \in BOOLEAN : CallbackRedeem(r, refreshable)
           /\ request'[r].step = "issue" => ExchangeRead(r)
           /\ request'[r].step = "renew" => RefreshRenew(r)
           /\ request'[r].step = "rotate" =>
                 RefreshKeep(r) \/ \E rotates \in BOOLEAN : RefreshUpstream(r, rotates)
           /\ request'[r].step = "retire_access" => \E p \in Pairs : RefreshIssue(r, p)
           /\ request'[r].step = "retire_refresh" => RetireAccess(r)
<1>1. ASSUME NEW step, NEW s, NEW u, NEW c, NEW g, NEW p, Begin(r, step, s, u, c, g, p)
      PROVE  request'[r].step = step
  BY <1>1 DEF Begin, IInv, TypeOK
<1>2. ASSUME NEW step, NEW t, NEW n, NEW b, Holding(r, step, t, n, b)
      PROVE  request'[r].step = step
  BY <1>2, HoldingFields DEF Advanced
<1>3. ASSUME NEW step, Goto(r, step)
      PROVE  request'[r].step = step
  BY <1>3, GotoFields DEF Advanced
<1>4. ASSUME Return(r)
      PROVE  request'[r].step = "idle"
  BY <1>4 DEF Return, Idle, IInv, TypeOK
<1>5. CASE Callback(r)
  BY <1>1, <1>2, <1>3, <1>4, <1>5 DEF Callback, CallbackBegin, CallbackRedeem, CallbackAnswerLost,
     CallbackRefused, CallbackStoreCode, CallbackStoreToken, CallbackMap, CallbackSpend
<1>6. CASE Exchange(r)
  BY <1>1, <1>2, <1>4, <1>6 DEF Exchange, ExchangeBegin, ExchangeRead, ExchangeRejected,
     ExchangeIssue
<1>7. CASE Refresh(r)
  BY <1>1, <1>2, <1>3, <1>4, <1>7 DEF Refresh, RefreshBegin, RefreshKeep, RefreshRenew,
     RefreshNeedsSignIn, RefreshMappingLost, RefreshUpstream, RefreshAnswerLost,
     RefreshRefused, RefreshIssue, RetireAccess, RetireRefresh
<1>8. CASE Revoke(r)
  BY <1>1, <1>3, <1>4, <1>8 DEF Revoke, RevokeAccessBegin, RevokeRefreshBegin, RevokeBegin,
     RevokePairedRefresh, RevokePairedAccess, RevokeAccess, RevokeRefresh
<1>9. CASE ToolCall(r) \/ Crash(r)
  BY <1>1, <1>2, <1>4, <1>9 DEF ToolCall, CallBegin, CallResolve, CallSend, Crash
<1> QED
  BY <1>5, <1>6, <1>7, <1>8, <1>9 DEF Acts

\* The refresh token an answer brings is the one that is held.
LEMMA HoldingRefresh ==
    ASSUME IInv, NEW r \in Requests, NEW step, NEW t, NEW n, NEW b, Holding(r, step, t, n, b)
    PROVE  request'[r].refresh = n
<1>1. request[r] \in RequestRecord
  BY DEF IInv, TypeOK
<1>2. request'[r] = [request[r] EXCEPT !.step = step, !.token = t, !.refresh = n, !.stored = b]
  BY DEF Holding, IInv, TypeOK
<1> QED
  BY <1>1, <1>2 DEF RequestRecord

-----------------------------------------------------------------------------
\* What a handler holds is no newer than the newest, whoever else moves meanwhile.
LEMMA UndisturbedOrder ==
    ASSUME RInv, [Next]_vars, NEW r \in Requests, request'[r] = request[r]
    PROVE  RefreshOrdered(request[r])'
<1> DEFINE q == request[r]
<1>1. RefreshOrdered(q) /\ q \in RequestRecord
  BY RecordTypes DEF RInv, RefreshTokensOrdered
<1>2. q.step \in {"store_code", "issue"} => q.grant \in Grants
  BY DEF RInv, IInv, RequestsSound, CallbackSound, InCallback, ExchangeSound, InExchange
<1>3. q.step \in {"renew", "rotate"} =>
         /\ q.pair \in Pairs /\ pair[q.pair] # None
         /\ pair[q.pair].origin \in Grants /\ pair[q.pair].refresh \in Nat
         /\ pair'[q.pair] = pair[q.pair]
         /\ q.pair \in mcp_refresh_token' => q.pair \in mcp_refresh_token
  <2> SUFFICES ASSUME OnPair(q)
               PROVE  /\ q.pair \in Pairs /\ pair[q.pair] # None
                      /\ pair[q.pair].origin \in Grants /\ pair[q.pair].refresh \in Nat
                      /\ pair'[q.pair] = pair[q.pair]
                      /\ q.pair \in mcp_refresh_token' => q.pair \in mcp_refresh_token
    BY DEF OnPair, Steps
  <2>1. q.pair \in Pairs /\ pair[q.pair] # None
    BY DEF RInv, IInv, RequestsSound, PairSound
  <2> QED
    BY <2>1, PairTypes, StableStep, GensAreNumbers DEF RInv, Stable
<1>4. /\ \A g \in Grants : /\ refreshGen[g] \in Nat /\ refreshGen'[g] \in Nat
                             /\ refreshGen[g] <= refreshGen'[g]
      /\ q.refresh \in Nat
  BY <1>1, GensStep, GensAreNumbers DEF GensGrow
<1>5. q.step \in {"store_code", "issue"} => q.refresh <= refreshGen'[q.grant]
  BY <1>1, <1>2, <1>4 DEF RefreshOrdered
<1>6. q.step = "rotate" => q.refresh <= refreshGen'[pair'[q.pair].origin]
  BY <1>1, <1>3, <1>4 DEF RefreshOrdered
<1> QED
  BY <1>1, <1>3, <1>5, <1>6 DEF RefreshOrdered

\* A handler's own step: the upstream's answer is the newest there is, a record's
\* refresh token is no newer.
LEMMA ActingOrder ==
    ASSUME RInv, [Next]_vars, NEW r \in Requests, Acts(r)
    PROVE  RefreshOrdered(request[r])'
<1> DEFINE q == request[r]
<1> IInv /\ RefreshTokensOrdered
  BY DEF RInv
<1>1. ASSUME NEW refreshable \in BOOLEAN, CallbackRedeem(r, refreshable)
      PROVE  RefreshOrdered(q)'
  <2>1. Advanced(r, "store_code", <<q.grant, accessGen'[q.grant]>>) /\ q'.refresh = refreshGen'[q.grant]
    BY <1>1, HoldingFields, HoldingRefresh DEF CallbackRedeem
  <2>2. At(r, "redeem") /\ UpstreamRedeems(r, refreshable)
    BY <1>1 DEF CallbackRedeem
  <2>3. q.grant \in Grants
    BY <2>2, RedeemsFor
  <2> QED
    BY <2>1, <2>3, GensAreNumbers DEF Advanced, RefreshOrdered
<1>2. CASE ExchangeRead(r)
  <2>1. /\ q.grant \in Grants /\ code[q.grant] # None
        /\ refreshGen[q.grant] \in Nat /\ code[q.grant].refresh \in Nat
    BY <1>2, RecordTypes, GensAreNumbers DEF ExchangeRead, At, IInv, RequestsSound, ExchangeSound, InExchange
  <2>2. /\ q'.step = "issue" /\ q'.grant = q.grant
        /\ q'.refresh \in {0, code[q.grant].refresh}
    BY <1>2, HoldingFields, HoldingRefresh DEF ExchangeRead, Advanced
  <2>3. refreshGen' = refreshGen
    BY <1>2 DEF ExchangeRead
  <2>4. q'.refresh <= refreshGen[q.grant]
    BY <2>1, <2>2 DEF RefreshTokensOrdered
  <2> QED
    BY <2>2, <2>3, <2>4 DEF RefreshOrdered
<1>3. CASE RefreshRenew(r)
  <2>1. /\ q'.step = "renew" /\ q'.pair = q.pair /\ q'.refresh = pair[q.pair].refresh
        /\ pair[q.pair].refresh # 0 /\ pair' = pair
    BY <1>3, HoldingFields, HoldingRefresh DEF RefreshRenew, Advanced
  <2> QED
    BY <2>1 DEF RefreshOrdered
<1>4. CASE RefreshKeep(r)
  <2>1. OnPair(q)
    BY <1>4 DEF RefreshKeep, At, OnPair, Steps
  <2>2. /\ q.pair \in Pairs /\ pair[q.pair] # None /\ pair[q.pair].origin \in Grants
        /\ pair[q.pair].refresh \in Nat /\ refreshGen[pair[q.pair].origin] \in Nat
    BY <2>1, PairTypes, GensAreNumbers DEF IInv, RequestsSound, PairSound
  <2>3. /\ q'.step = "rotate" /\ q'.pair = q.pair
        /\ \/ q'.refresh = pair[q.pair].refresh
           \/ q'.refresh = 0 /\ q.pair \notin mcp_refresh_token
        /\ pair' = pair /\ refreshGen' = refreshGen /\ mcp_refresh_token' = mcp_refresh_token
    BY <1>4, HoldingFields, HoldingRefresh DEF RefreshKeep, Advanced
  <2>4. pair[q.pair].refresh <= refreshGen[pair[q.pair].origin]
    BY <2>2 DEF RefreshTokensOrdered
  <2> QED
    BY <2>2, <2>3, <2>4 DEF RefreshOrdered
<1>5. ASSUME NEW rotates \in BOOLEAN, RefreshUpstream(r, rotates)
      PROVE  RefreshOrdered(q)'
  <2> DEFINE g == pair[q.pair].origin
             new == IF rotates THEN refreshGen'[g] ELSE 0
  <2>1. At(r, "renew") /\ UpstreamRenews(r, rotates) /\ q.step = "renew"
    BY <1>5 DEF RefreshUpstream, At
  <2>2. /\ g \in Grants /\ q.token[1] = g /\ q.refresh = refreshGen[g]
        /\ refreshGen'[g] = IF rotates THEN accessGen[g] + 1 ELSE refreshGen[g]
    BY <2>1, RenewsFor
  <2>3. /\ q'.step = "rotate" /\ q'.pair = q.pair /\ q'.refresh = NewOrOld(new, q.refresh)
        /\ pair' = pair
    BY <1>5, <2>2, HoldingFields, HoldingRefresh DEF RefreshUpstream, Advanced
  <2>4. q.refresh = pair[q.pair].refresh
    BY <2>1 DEF RefreshTokensOrdered, RefreshOrdered
  <2>5. /\ refreshGen[g] \in Nat /\ accessGen[g] \in Nat /\ refreshGen'[g] \in Nat
        /\ refreshGen[g] <= refreshGen'[g]
    BY <2>2, GensStep, GensAreNumbers DEF GensGrow
  <2>6. q'.refresh = refreshGen'[g]
    BY <2>2, <2>3, <2>5 DEF NewOrOld
  <2>7. q.refresh <= q'.refresh
    BY <2>2, <2>5, <2>6
  <2> HIDE DEF new
  <2> QED
    BY <2>3, <2>4, <2>5, <2>6, <2>7 DEF RefreshOrdered
<1>6. CASE q'.step \notin {"store_code", "issue", "renew", "rotate"}
  BY <1>6 DEF RefreshOrdered
<1> QED
  BY <1>1, <1>2, <1>3, <1>4, <1>5, <1>6, ComesFrom

\* So it is for a code or a pair that is written, which takes over what its
\* handler holds.
LEMMA RecordsOrder ==
    ASSUME RInv, [Next]_vars
    PROVE  /\ \A g \in Grants : code'[g] # None => code'[g].refresh <= refreshGen'[g]
           /\ \A p \in Pairs : pair'[p] # None => pair'[p].refresh <= refreshGen'[pair'[p].origin]
<1> IInv /\ RefreshTokensOrdered
  BY DEF RInv
<1>1. ASSUME NEW g \in Grants, code'[g] = code[g], code'[g] # None
      PROVE  code'[g].refresh <= refreshGen'[g]
  <2>1. code[g].refresh \in Nat /\ code[g].refresh <= refreshGen[g]
    BY <1>1, RecordTypes, GensAreNumbers DEF RefreshTokensOrdered
  <2> QED
    BY <1>1, <2>1, GensStep, GensAreNumbers DEF GensGrow
<1>2. ASSUME NEW p \in Pairs, pair'[p] = pair[p], pair'[p] # None
      PROVE  pair'[p].refresh <= refreshGen'[pair'[p].origin]
  <2>1. pair[p].refresh \in Nat /\ pair[p].refresh <= refreshGen[pair[p].origin] /\ pair[p].origin \in Grants
    BY <1>2, RecordTypes, GensAreNumbers DEF RefreshTokensOrdered, PairRecord
  <2> QED
    BY <1>2, <2>1, GensStep, GensAreNumbers DEF GensGrow
<1>3. ASSUME NEW r \in Requests, CallbackStoreCode(r)
      PROVE  \A g \in Grants : code'[g] # None => code'[g].refresh <= refreshGen'[g]
  <2>1. /\ request[r].grant \in Grants /\ refreshGen' = refreshGen
        /\ request[r].refresh <= refreshGen[request[r].grant]
    BY <1>3 DEF CallbackStoreCode, At, IInv, RequestsSound, CallbackSound, InCallback,
       RefreshTokensOrdered, RefreshOrdered
  <2>2. /\ code'[request[r].grant].refresh = request[r].refresh
        /\ \A g \in Grants : g # request[r].grant => code'[g] = code[g]
    BY <1>3, <2>1 DEF CallbackStoreCode, IInv, TypeOK
  <2> QED
    BY <1>1, <2>1, <2>2
<1>4. ASSUME NEW r \in Requests, NEW p \in Pairs, ExchangeIssue(r, p) \/ RefreshIssue(r, p)
      PROVE  \A o \in Pairs : pair'[o] # None => pair'[o].refresh <= refreshGen'[pair'[o].origin]
  <2>1. PICK g \in Grants : IssueMcpToken(r, p, g) /\ request[r].refresh <= refreshGen[g]
    <3>1. CASE ExchangeIssue(r, p)
      BY <3>1 DEF ExchangeIssue, At, IInv, RequestsSound, ExchangeSound, InExchange,
         RefreshTokensOrdered, RefreshOrdered
    <3>2. CASE RefreshIssue(r, p)
      <4>1. OnPair(request[r])
        BY <3>2 DEF RefreshIssue, At, OnPair, Steps
      <4> QED
        BY <3>2, <4>1, PairTypes DEF RefreshIssue, At, RefreshTokensOrdered, RefreshOrdered
    <3> QED
      BY <1>4, <3>1, <3>2
  <2>2. /\ pair'[p].refresh = request[r].refresh /\ pair'[p].origin = g
        /\ \A o \in Pairs : o # p => pair'[o] = pair[o]
    BY <2>1 DEF IssueMcpToken, IInv, TypeOK
  <2>3. refreshGen' = refreshGen
    BY <1>4 DEF ExchangeIssue, RefreshIssue
  <2> QED
    BY <1>2, <2>1, <2>2, <2>3
<1>5. CASE \E r \in Requests : Acts(r)
  BY <1>1, <1>2, <1>3, <1>4, <1>5, HandlerFootprint DEF Acts
<1>6. CASE ~ \E r \in Requests : Acts(r)
  BY <1>1, <1>2, <1>6, OthersMove DEF Acts
<1> QED
  BY <1>5, <1>6

\* Every step keeps the order,
LEMMA OrderStep == RInv /\ [Next]_vars => RInv'
<1> SUFFICES ASSUME RInv, [Next]_vars PROVE RInv'
  OBVIOUS
<1>1. IInv'
  BY StepInductive DEF RInv
<1>2. \A r \in Requests : RefreshOrdered(request[r])'
  <2>1. ASSUME NEW r \in Requests, Acts(r), NEW o \in Requests
        PROVE  RefreshOrdered(request[o])'
    <3>1. CASE o = r
      BY <2>1, <3>1, ActingOrder
    <3>2. CASE o # r
      <4>1. request'[o] = request[o]
        BY <2>1, <3>2, TypeStep, HandlerMoves DEF RInv, IInv, Acts, OnlyMoves
      <4> QED
        BY <4>1, UndisturbedOrder
    <3> QED
      BY <3>1, <3>2
  <2>2. CASE ~ \E r \in Requests : Acts(r)
    BY <2>2, OthersMove, UndisturbedOrder DEF Acts
  <2> QED
    BY <2>1, <2>2
<1> QED
  BY <1>1, <1>2, RecordsOrder, GensStep DEF RInv, RefreshTokensOrdered, GensGrow

\* and it holds from the start.
THEOREM RefreshTokensStayOrdered == Spec => []RInv
<1>1. Init => RInv
  <2> SUFFICES ASSUME Init PROVE RefreshTokensOrdered
    BY InitInductive DEF RInv
  <2> QED
    BY DEF Init, RefreshTokensOrdered, RefreshOrdered, Idle
<1> QED
  BY <1>1, OrderStep, PTL DEF Spec

-----------------------------------------------------------------------------
\* A renewing handler has the upstream's newest refresh token in its hands.
LEMMA RenewedHolds ==
    ASSUME RInv, [Next]_vars, NEW r \in Requests, NEW rotates \in BOOLEAN, RefreshUpstream(r, rotates),
           NEW g, g = pair[request[r].pair].origin
    PROVE  /\ g \in Grants /\ NewestRefreshTokenHeld(g)'
           /\ \A h \in Grants \ {g} : refreshGen'[h] = refreshGen[h]
<1> DEFINE new == IF rotates THEN refreshGen'[g] ELSE 0
<1>1. At(r, "renew") /\ UpstreamRenews(r, rotates)
  BY DEF RefreshUpstream
<1>2. /\ g \in Grants /\ request[r].token[1] = g /\ request[r].refresh = refreshGen[g]
      /\ refreshGen'[g] = IF rotates THEN accessGen[g] + 1 ELSE refreshGen[g]
      /\ \A h \in Grants \ {g} : refreshGen'[h] = refreshGen[h]
  BY <1>1, RenewsFor
<1>3. /\ request'[r].step = "rotate" /\ request'[r].token = <<g, accessGen'[g]>>
      /\ request'[r].refresh = NewOrOld(new, request[r].refresh)
  <2>1. Holding(r, "rotate", <<g, accessGen'[g]>>, NewOrOld(new, request[r].refresh), FALSE)
    BY <1>2 DEF RefreshUpstream
  <2> HIDE DEF new
  <2> QED
    BY <2>1, HoldingFields, HoldingRefresh DEF Advanced, RInv
<1>4. request'[r].refresh = refreshGen'[g]
  <2>1. accessGen[g] \in Nat
    BY <1>2, GensAreNumbers
  <2> QED
    BY <1>2, <1>3, <2>1 DEF NewOrOld
<1> QED
  BY <1>2, <1>3, <1>4 DEF NewestRefreshTokenHeld

\* A fresh pair hands the newest refresh token on to its client.
LEMMA IssuedHolds ==
    ASSUME RInv, NEW r \in Requests, NEW p \in Pairs, ExchangeIssue(r, p) \/ RefreshIssue(r, p),
           [Next]_vars, NEW g \in Grants, request[r].token[1] = g, request[r].refresh = refreshGen[g]
    PROVE  NewestRefreshTokenHeld(g)'
<1> IInv
  BY DEF RInv
<1>1. PICK h \in Grants : IssueMcpToken(r, p, h)
  BY MintedPair
<1>2. /\ p \in mcp_refresh_token' /\ p \in refresh_mapping'
      /\ pair'[p].token[1] = g /\ pair'[p].refresh = refreshGen'[g]
  <2>1. refreshGen' = refreshGen
    BY DEF ExchangeIssue, RefreshIssue
  <2> QED
    BY <1>1, <2>1 DEF IssueMcpToken, IInv, TypeOK
<1>3. \A o \in Requests : OnPair(request[o]) => request[o].pair # p
  BY <1>1 DEF IssueMcpToken, IInv, RequestsSound, PairSound
<1>4. ASSUME NEW o \in Requests, request'[o].pair = p
      PROVE  request'[o].step \notin {"retire_access", "retire_refresh"}
  <2>1. CASE o # r
    <3>1. request'[o] = request[o]
      BY <2>1, TypeStep, HandlerMoves DEF IInv, OnlyMoves, Exchange, Refresh
    <3> QED
      BY <1>3, <1>4, <3>1 DEF OnPair, Steps
  <2>2. CASE o = r /\ ExchangeIssue(r, p)
    BY <2>2 DEF ExchangeIssue, Return, Idle, IInv, TypeOK
  <2>3. CASE o = r /\ RefreshIssue(r, p)
    <3>1. OnPair(request[r])
      BY <2>3 DEF RefreshIssue, At, OnPair, Steps
    <3>2. request'[r].pair = request[r].pair
      BY <2>3, GotoFields DEF RefreshIssue, Advanced
    <3> QED
      BY <1>3, <1>4, <2>3, <3>1, <3>2
  <2> QED
    BY <2>1, <2>2, <2>3
<1> QED
  BY <1>2, <1>4 DEF NewestRefreshTokenHeld, Retiring

\* What takes a usable pair from its client is its rotation or its revocation.
LEMMA PairKept ==
    ASSUME RInv, NEW r \in Requests, Acts(r), ~Crash(r), ~Revoke(r),
           NEW p \in Pairs, p \in mcp_refresh_token, p \in refresh_mapping
    PROVE  \/ p \in mcp_refresh_token' /\ p \in refresh_mapping'
           \/ RetireRefresh(r) /\ request[r].pair = p
<1>1. CASE Callback(r)
  BY <1>1 DEF Callback, CallbackBegin, CallbackRedeem, CallbackAnswerLost, CallbackRefused,
     CallbackStoreCode, CallbackStoreToken, CallbackMap, CallbackSpend
<1>2. CASE Exchange(r)
  BY <1>2 DEF Exchange, ExchangeBegin, ExchangeRead, ExchangeRejected, ExchangeIssue,
     IssueMcpToken
<1>3. CASE Refresh(r)
  BY <1>3 DEF Refresh, RefreshBegin, RefreshKeep, RefreshRenew, RefreshNeedsSignIn,
     RefreshMappingLost, RefreshUpstream, RefreshAnswerLost, RefreshRefused, RefreshIssue,
     IssueMcpToken, RetireAccess, RetireRefresh
<1>4. CASE ToolCall(r)
  BY <1>4 DEF ToolCall, CallBegin, CallResolve, CallSend
<1> QED
  BY <1>1, <1>2, <1>3, <1>4 DEF Acts

\* No handler takes a code or its mapping away while it lives.
LEMMA CodeKept ==
    ASSUME NEW r \in Requests, Acts(r), NEW g \in Grants, g \in mcp_auth_code, g \in code_mapping
    PROVE  g \in mcp_auth_code' /\ g \in code_mapping'
<1>1. CASE Callback(r)
  BY <1>1 DEF Callback, CallbackBegin, CallbackRedeem, CallbackAnswerLost, CallbackRefused,
     CallbackStoreCode, CallbackStoreToken, CallbackMap, CallbackSpend
<1>2. CASE Exchange(r)
  <2>1. CASE ExchangeRead(r)
    BY <2>1 DEF ExchangeRead
  <2> QED
    BY <1>2, <2>1 DEF Exchange, ExchangeBegin, ExchangeRejected, ExchangeIssue
<1>3. CASE Refresh(r)
  BY <1>3 DEF Refresh, RefreshBegin, RefreshKeep, RefreshRenew, RefreshNeedsSignIn,
     RefreshMappingLost, RefreshUpstream, RefreshAnswerLost, RefreshRefused, RefreshIssue,
     RetireAccess, RetireRefresh
<1>4. CASE Revoke(r)
  BY <1>4 DEF Revoke, RevokeAccessBegin, RevokeRefreshBegin, RevokeBegin, RevokePairedRefresh,
     RevokePairedAccess, RevokeAccess, RevokeRefresh
<1>5. CASE ToolCall(r) \/ Crash(r)
  BY <1>5 DEF ToolCall, CallBegin, CallResolve, CallSend, Crash
<1> QED
  BY <1>1, <1>2, <1>3, <1>4, <1>5 DEF Acts

\* A handler that holds a refresh token lets go of it by writing it down.
LEMMA HolderWrites ==
    ASSUME NEW r \in Requests, Acts(r), ~Crash(r), request[r].step \in {"store_code", "issue", "rotate"}
    PROVE  CallbackStoreCode(r) \/ \E p \in Pairs : ExchangeIssue(r, p) \/ RefreshIssue(r, p)
<1>1. \A s : At(r, s) <=> request[r].step = s
  BY DEF At
<1>2. CASE Callback(r)
  BY <1>1, <1>2 DEF Callback, CallbackBegin, Begin, CallbackRedeem, CallbackAnswerLost, CallbackRefused,
     CallbackStoreToken, CallbackMap, CallbackSpend
<1>3. CASE Exchange(r)
  BY <1>1, <1>3 DEF Exchange, ExchangeBegin, Begin, ExchangeRead, ExchangeRejected
<1>4. CASE Refresh(r)
  BY <1>1, <1>4 DEF Refresh, RefreshBegin, Begin, RefreshKeep, RefreshRenew, RefreshNeedsSignIn,
     RefreshMappingLost, RefreshUpstream, RefreshAnswerLost, RefreshRefused, RetireAccess,
     RetireRefresh
<1>5. CASE Revoke(r)
  BY <1>1, <1>5 DEF Revoke, RevokeAccessBegin, RevokeRefreshBegin, RevokeBegin, Begin,
     RevokePairedRefresh, RevokePairedAccess, RevokeAccess, RevokeRefresh
<1>6. CASE ToolCall(r)
  BY <1>1, <1>6 DEF ToolCall, CallBegin, Begin, CallResolve, CallSend
<1> QED
  BY <1>2, <1>3, <1>4, <1>5, <1>6 DEF Acts

\* One that has stored its code writes the rest.
LEMMA WriterWrites ==
    ASSUME NEW r \in Requests, Acts(r), ~Crash(r), Writing(request[r])
    PROVE  CallbackStoreToken(r) \/ CallbackMap(r) \/ CallbackSpend(r)
<1>1. \A s : At(r, s) <=> request[r].step = s
  BY DEF At
<1>. USE DEF Writing
<1>2. CASE Callback(r)
  BY <1>1, <1>2 DEF Callback, CallbackBegin, Begin, CallbackRedeem, CallbackAnswerLost, CallbackRefused,
     CallbackStoreCode
<1>3. CASE Exchange(r)
  BY <1>1, <1>3 DEF Exchange, ExchangeBegin, Begin, ExchangeRead, ExchangeRejected, ExchangeIssue
<1>4. CASE Refresh(r)
  BY <1>1, <1>4 DEF Refresh, RefreshBegin, Begin, RefreshKeep, RefreshRenew, RefreshNeedsSignIn,
     RefreshMappingLost, RefreshUpstream, RefreshAnswerLost, RefreshRefused, RefreshIssue,
     RetireAccess, RetireRefresh
<1>5. CASE Revoke(r)
  BY <1>1, <1>5 DEF Revoke, RevokeAccessBegin, RevokeRefreshBegin, RevokeBegin, Begin,
     RevokePairedRefresh, RevokePairedAccess, RevokeAccess, RevokeRefresh
<1>6. CASE ToolCall(r)
  BY <1>1, <1>6 DEF ToolCall, CallBegin, Begin, CallResolve, CallSend
<1> QED
  BY <1>2, <1>3, <1>4, <1>5, <1>6 DEF Acts

\* Its own writes keep the refresh token within reach: first in its hands, then
\* through the code that the browser brings to its client.
LEMMA WriterHolds ==
    ASSUME RInv, NEW r \in Requests, NEW g \in Grants,
           CallbackStoreToken(r) \/ CallbackMap(r) \/ CallbackSpend(r),
           request[r].token[1] = g, request[r].refresh = refreshGen[g], g \in mcp_auth_code
    PROVE  NewestRefreshTokenHeld(g)'
<1> IInv
  BY DEF RInv
<1>1. /\ request[r].grant = g /\ code[g].refresh = request[r].refresh
      /\ request[r].step = "spend" => g \in code_mapping
  BY DEF CallbackStoreToken, CallbackMap, CallbackSpend, At, IInv, RequestsSound, CallbackSound,
     InCallback, Writing
<1>2. mcp_auth_code' = mcp_auth_code /\ refreshGen' = refreshGen /\ code' = code
  BY DEF CallbackStoreToken, CallbackMap, CallbackSpend
<1>3. CASE CallbackStoreToken(r) \/ CallbackMap(r)
  <2>1. PICK step \in {"map", "spend"} : Goto(r, step)
    BY <1>3 DEF CallbackStoreToken, CallbackMap
  <2>2. Advanced(r, step, request[r].token) /\ request'[r].refresh = request[r].refresh
    BY <2>1, GotoFields, GotoRefresh
  <2> QED
    BY <1>2, <2>2 DEF Advanced, NewestRefreshTokenHeld
<1>4. CASE CallbackSpend(r)
  <2>1. g \in answered' /\ g \in code_mapping'
    BY <1>1, <1>4 DEF CallbackSpend, At
  <2> QED
    BY <1>1, <1>2, <2>1 DEF NewestRefreshTokenHeld
<1> QED
  BY <1>3, <1>4

-----------------------------------------------------------------------------
\* While the newest refresh token stays the newest, one that somebody holds is
\* held after a handler's step,
LEMMA StaysHeld ==
    ASSUME RInv, [Next]_vars, NEW r \in Requests, Acts(r), ~Crash(r), ~Revoke(r),
           NEW g \in Grants, refreshGen'[g] = refreshGen[g], NewestRefreshTokenHeld(g)
    PROVE  NewestRefreshTokenHeld(g)'
<1> IInv /\ Stable
  BY StableStep DEF RInv
<1>0. \A o \in Requests \ {r} : request'[o] = request[o]
  BY TypeStep, HandlerMoves DEF IInv, Acts, OnlyMoves
<1>1. ASSUME NEW p \in Pairs, p \in mcp_refresh_token, p \in refresh_mapping,
             pair[p].token[1] = g, pair[p].refresh = refreshGen[g], ~Retiring(p)
      PROVE  NewestRefreshTokenHeld(g)'
  <2>1. pair[p] # None /\ pair'[p] = pair[p]
    BY <1>1 DEF IInv, PairsRecorded, Stable
  <2>2. p \in mcp_refresh_token' /\ p \in refresh_mapping'
    <3>1. ~(RetireRefresh(r) /\ request[r].pair = p)
      BY <1>1 DEF RetireRefresh, At, Retiring
    <3> QED
      BY <1>1, <3>1, PairKept
  <2>3. CASE ~Retiring(p)'
    BY <1>1, <2>1, <2>2, <2>3 DEF NewestRefreshTokenHeld
  <2>4. CASE Retiring(p)'
    <3>1. PICK o \in Requests : request'[o].pair = p /\ request'[o].step \in {"retire_access", "retire_refresh"}
      BY <2>4 DEF Retiring
    <3>2. o = r
      BY <1>0, <1>1, <3>1 DEF Retiring
    <3>3. ~RetireAccess(r)
      <4> SUFFICES ASSUME RetireAccess(r) PROVE FALSE
        OBVIOUS
      <4>1. request[r].step = "retire_access" /\ request'[r].pair = request[r].pair
        BY GotoFields DEF RetireAccess, At, Advanced
      <4> QED
        BY <1>1, <3>1, <3>2, <4>1 DEF Retiring
    <3>4. PICK n \in Pairs : RefreshIssue(r, n)
      BY <3>1, <3>2, <3>3, ComesFrom
    <3>5. request'[r].pair = request[r].pair /\ request[r].step = "rotate"
      BY <3>4, GotoFields DEF RefreshIssue, At, Advanced
    <3>6. OnPair(request[r]) /\ request[r].pair = p
      BY <3>1, <3>2, <3>5 DEF OnPair, Steps
    <3>7. /\ request[r].token[1] = pair[p].origin
          /\ pair[p].token[1] = pair[p].origin
      BY <2>1, <3>5, <3>6 DEF IInv, RequestsSound, PairSound, SessionMatchesSignIn
    <3>8. request[r].refresh = refreshGen[g]
      <4>1. /\ request[r].refresh <= refreshGen[g]
            /\ refreshGen[g] <= request[r].refresh
        BY <1>1, <3>5, <3>6, <3>7 DEF RInv, RefreshTokensOrdered, RefreshOrdered
      <4>2. request[r].refresh \in Nat /\ refreshGen[g] \in Nat
        BY RecordTypes, GensAreNumbers
      <4> QED
        BY <4>1, <4>2
    <3> QED
      BY <1>1, <3>4, <3>7, <3>8, IssuedHolds
  <2> QED
    BY <2>3, <2>4
<1>2. CASE g \in answered /\ g \in mcp_auth_code /\ g \in code_mapping /\ code[g].refresh = refreshGen[g]
  <2>1. code'[g] = code[g]
    BY <1>2 DEF IInv, CodesRecorded, Stable
  <2>2. g \in answered'
    BY <1>2, HandlerFootprint DEF Acts, CallbackSpend
  <2> QED
    BY <1>2, <2>1, <2>2, CodeKept DEF NewestRefreshTokenHeld
<1>3. ASSUME NEW o \in Requests, request[o].step \in {"store_code", "issue", "rotate"},
             request[o].token[1] = g, request[o].refresh = refreshGen[g]
      PROVE  NewestRefreshTokenHeld(g)'
  <2>1. CASE o # r
    BY <1>0, <1>3, <2>1 DEF NewestRefreshTokenHeld
  <2>2. CASE o = r /\ CallbackStoreCode(r)
    <3>1. request[r].grant = g
      BY <1>3, <2>2 DEF CallbackStoreCode, At, IInv, RequestsSound, CallbackSound, InCallback
    <3>2. g \in mcp_auth_code'
      BY <2>2, <3>1 DEF CallbackStoreCode
    <3>3. Advanced(r, "store_token", request[r].token) /\ request'[r].refresh = request[r].refresh
      BY <2>2, GotoFields, GotoRefresh DEF CallbackStoreCode
    <3> QED
      BY <1>3, <2>2, <3>2, <3>3 DEF Advanced, NewestRefreshTokenHeld
  <2>3. ASSUME NEW p \in Pairs, o = r, ExchangeIssue(r, p) \/ RefreshIssue(r, p)
        PROVE  NewestRefreshTokenHeld(g)'
    BY <1>3, <2>3, IssuedHolds
  <2> QED
    BY <1>3, <2>1, <2>2, <2>3, HolderWrites
<1>4. mcp_refresh_token \subseteq Pairs
  BY DEF IInv, TypeOK
<1>5. ASSUME NEW o \in Requests, Writing(request[o]), g \in mcp_auth_code,
             request[o].token[1] = g, request[o].refresh = refreshGen[g]
      PROVE  NewestRefreshTokenHeld(g)'
  <2>1. CASE o # r
    <3>1. g \in mcp_auth_code'
      BY <1>5, HandlerFootprint DEF Acts, CallbackStoreCode
    <3> QED
      BY <1>0, <1>5, <2>1, <3>1 DEF NewestRefreshTokenHeld, Writing
  <2>2. CASE o = r
    BY <1>5, <2>2, WriterWrites, WriterHolds
  <2> QED
    BY <2>1, <2>2
<1> QED
  BY <1>1, <1>2, <1>3, <1>4, <1>5 DEF NewestRefreshTokenHeld, Writing

\* and it stops being the newest only when a handler gets a newer one.
LEMMA NewestStep ==
    ASSUME RInv, Next, NEW g \in Grants, refreshGen[g] # 0, NewestRefreshTokenHeld(g),
           ~Lapse, \A r \in Requests : ~Crash(r) /\ ~Revoke(r),
           \A r \in Requests, rotates \in BOOLEAN : ~RefreshAnswerLost(r, rotates)
    PROVE  NewestRefreshTokenHeld(g)'
<1>1. [Next]_vars
  OBVIOUS
<1>2. ASSUME NEW r \in Requests, Acts(r)
      PROVE  NewestRefreshTokenHeld(g)'
  <2>1. CASE refreshGen'[g] = refreshGen[g]
    BY <1>1, <1>2, <2>1, StaysHeld
  <2>2. CASE refreshGen'[g] # refreshGen[g]
    <3>1. ~Redeems(r)
      BY <2>2, RedeemsFor DEF Redeems, CallbackRedeem, CallbackAnswerLost
    <3>2. PICK rotates \in BOOLEAN : RefreshUpstream(r, rotates)
      BY <1>2, <2>2, <3>1, GensFootprint DEF Renews
    <3> QED
      BY <1>1, <2>2, <3>2, RenewedHolds
  <2> QED
    BY <2>1, <2>2
<1>3. CASE Deployment \/ SignIn
  <2>1. UNCHANGED <<mcp_refresh_token, refresh_mapping, pair, mcp_auth_code, code_mapping, code,
                    answered, request, refreshGen>>
    BY <1>3 DEF Deployment, Deploy, Undeploy, SignIn, RegisterClient, Authorize, Consent
  <2> QED
    BY <2>1 DEF NewestRefreshTokenHeld, Retiring
<1> QED
  BY <1>2, <1>3 DEF Next, Acts

\* exchange_refresh_token and exchange_authorization_code, alone or at the same
\* time, never let go of the newest upstream refresh token there is.
THEOREM NewestRefreshTokenAlwaysKept == Spec => NewestRefreshTokenKept
<1>1. RInv /\ [Next]_vars =>
         [\A g \in Grants :
             refreshGen[g] # 0 /\ NewestRefreshTokenHeld(g) /\ ~NewestRefreshTokenHeld(g)' =>
                \/ Lapse
                \/ \E r \in Requests :
                     \/ Crash(r) \/ Revoke(r)
                     \/ \E rotates \in BOOLEAN : RefreshAnswerLost(r, rotates)]_vars
  BY NewestStep
<1> QED
  BY <1>1, RefreshTokensStayOrdered, PTL DEF Spec, NewestRefreshTokenKept
=============================================================================
