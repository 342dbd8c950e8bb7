---------------------------- MODULE GatewayProofs ----------------------------
(***************************************************************************)
(* Proofs about Gateway: the orders of its lifespan, and what a server's   *)
(* authentication and its discovery documents are, for any number of       *)
(* servers and token sources and any entries.                              *)
(***************************************************************************)
EXTENDS Gateway, TLAPS, FiniteSetTheorems, SequenceTheorems

USE GatewayAssumption

\* What a registration makes of an entry.
Resolvers == {"session", "service", "exchange", "passthrough", "static", "null"}
Setups == [flow: Flows \cup {None}, resolver: Resolvers, provider: BOOLEAN, verifier: BOOLEAN,
           source: BOOLEAN]
Headers == {"Authorization"} \cup UNION Passthroughs
Bundles == [name: Names, mount: {MountPath(n) : n \in Names}, type: Types,
            asked: Flows \cup {None}, flow: Flows \cup {None}, headers: SUBSET Headers,
            forwards: SUBSET Headers, resolver: Resolvers,
            provider: BOOLEAN, verifier: BOOLEAN]

Phases == {"setup", "mounted", "serving", "leaving", "closing", "stdio", "stopped", "failed"}

\* Each server is registered once, under its own name and path.
Registered ==
    /\ servers \in Seq(Bundles)
    /\ \A i, j \in DOMAIN servers : servers[i].name = servers[j].name => i = j
    /\ \A i \in DOMAIN servers : servers[i].mount = MountPath(servers[i].name)
    /\ \A i \in DOMAIN servers : ~(servers[i].provider /\ servers[i].verifier)

\* Hooks run once serving has ended without an exception, or over stdio, and
\* managers run only in between.
Ordered ==
    /\ phase \in Phases
    /\ transport \in {None, "stdio", "sse", "streamable-http"}
    /\ error \in BOOLEAN /\ storeClosed \in BOOLEAN
    /\ sources \in 0..MaxSources
    /\ hooks = [i \in 1..sources |-> i]
    /\ running \in Seq(Names) /\ IsPrefix(running, Managers)
    /\ ran \in Seq(Nat) /\ IsPrefix(ran, hooks)
    /\ phase \notin {"closing", "stopped"} => ran = <<>> /\ ~storeClosed
    /\ phase \notin {"mounted", "serving", "leaving"} => running = <<>>
    /\ phase = "stopped" => ran = hooks /\ (transport # "stdio" => storeClosed)

IInv == Registered /\ NothingIsGuessed /\ Ordered

-----------------------------------------------------------------------------
\* A sequence that follows another keeps following it by its next element,
LEMMA PrefixGrows ==
    ASSUME NEW S, NEW s \in Seq(S), NEW t \in Seq(S), IsPrefix(s, t), s # t
    PROVE  /\ Append(s, t[Len(s) + 1]) \in Seq(S)
           /\ IsPrefix(Append(s, t[Len(s) + 1]), t)
<1>1. Len(s) <= Len(t) /\ \A i \in 1..Len(s) : s[i] = t[i]
  BY DEF IsPrefix
<1>2. Len(s) # Len(t)
  BY <1>1
<1> DEFINE u == Append(s, t[Len(s) + 1])
<1>3. /\ u \in Seq(S) /\ Len(u) = Len(s) + 1 /\ Len(u) <= Len(t)
      /\ \A i \in 1..Len(u) : u[i] = t[i]
  BY <1>1, <1>2
<1>4. SubSeq(u, 1, Len(u)) = SubSeq(t, 1, Len(u))
  BY <1>3
<1> QED
  BY <1>3, <1>4 DEF IsPrefix

\* The first elements of a sequence.
LEMMA FirstElements ==
    ASSUME NEW S, NEW s \in Seq(S), NEW n \in Nat, n <= Len(s)
    PROVE  /\ SubSeq(s, 1, n) \in Seq(S) /\ Len(SubSeq(s, 1, n)) = n
           /\ \A i \in 1..n : SubSeq(s, 1, n)[i] = s[i]
<1>1. \A i \in 1..n : s[i] \in S
  <2>1. \A i \in 1..n : i \in 1..Len(s)
    OBVIOUS
  <2> QED
    BY <2>1, ElementOfSeq
<1>2. /\ SubSeq(s, 1, n) \in Seq(S)
      /\ Len(SubSeq(s, 1, n)) = IF 1 <= n THEN n - 1 + 1 ELSE 0
      /\ \A i \in 1..(n - 1 + 1) : SubSeq(s, 1, n)[i] = s[1 + i - 1]
  BY <1>1, SubSeqProperties
<1> DEFINE u == SubSeq(s, 1, n)
<1> HIDE DEF u
<1>3. Len(u) = n /\ \A i \in 1..n : u[i] = s[i]
  BY <1>2 DEF u
<1> QED
  BY <1>2, <1>3 DEF u

\* ... and without its last.
LEMMA PrefixShrinks ==
    ASSUME NEW S, NEW s \in Seq(S), NEW t \in Seq(S), IsPrefix(s, t), s # <<>>
    PROVE  Front(s) \in Seq(S) /\ IsPrefix(Front(s), t)
<1>1. Len(s) <= Len(t) /\ \A i \in 1..Len(s) : s[i] = t[i]
  BY DEF IsPrefix
<1>2. Len(s) \in Nat /\ Len(s) # 0 /\ Len(t) \in Nat
  OBVIOUS
<1> DEFINE u == SubSeq(s, 1, Len(s) - 1)
<1>3. u \in Seq(S) /\ Len(u) = Len(s) - 1 /\ \A i \in 1..Len(u) : u[i] = s[i]
  <2> DEFINE n == Len(s) - 1
  <2>1. n \in Nat /\ n <= Len(s)
    BY <1>2
  <2> HIDE DEF n
  <2>2. SubSeq(s, 1, n) \in Seq(S) /\ Len(SubSeq(s, 1, n)) = n
        /\ \A i \in 1..n : SubSeq(s, 1, n)[i] = s[i]
    BY <2>1, FirstElements
  <2> QED
    BY <2>2 DEF n
<1> HIDE DEF u
<1>4. Len(u) <= Len(t) /\ \A i \in 1..Len(u) : u[i] = t[i]
  BY <1>1, <1>2, <1>3
<1>5. SubSeq(u, 1, Len(u)) = SubSeq(t, 1, Len(u))
  BY <1>3, <1>4
<1>6. Front(s) = u
  BY DEF Front, u
<1> QED
  BY <1>6, <1>3, <1>4, <1>5 DEF IsPrefix

\* The empty sequence comes before any.
LEMMA EmptyPrefix ==
    ASSUME NEW S, NEW t \in Seq(S)
    PROVE  IsPrefix(<<>>, t)
BY DEF IsPrefix

\* Known servers have known names,
LEMMA NamesOf ==
    ASSUME NEW s \in Seq(Bundles)
    PROVE  [i \in DOMAIN s |-> s[i].name] \in Seq(Names)
<1>1. DOMAIN s = 1..Len(s) /\ Len(s) \in Nat
  BY LenProperties
<1>2. \A i \in 1..Len(s) : s[i] \in Bundles
  BY <1>1, ElementOfSeq
<1>3. \A i \in 1..Len(s) : s[i].name \in Names
  BY <1>2 DEF Bundles
<1> QED
  BY <1>1, <1>3

\* which their managers go by.
LEMMA ManagersAreNames ==
    ASSUME servers \in Seq(Bundles)
    PROVE  Managers \in Seq(Names)
BY NamesOf DEF Managers, ServerNames

\* An entry gets a setup of known parts or is refused; the flow it names is kept.
LEMMA SetupIsKnown ==
    ASSUME NEW e \in [type: Types, flow: Flows \cup {None}, wrote: SUBSET Fields, unset: SUBSET Fields],
           e.flow # None => e.type = "oauth2",
           NEW declared \in SUBSET Flows, NEW documents, NEW setup,
           setup = BuildAuth(e, declared, documents), setup # None
    PROVE  /\ setup \in Setups
           /\ e.flow # None => setup.flow = e.flow
           /\ e.type = "oauth2" => setup.resolver \in {"session", "service", "exchange"}
           /\ setup.resolver = "passthrough" <=> e.type = "passthrough"
           /\ setup.resolver \in {"session", "exchange"} <=> setup.provider \/ setup.verifier
           /\ ~(setup.provider /\ setup.verifier)
<1> DEFINE flow == OAuthFlow(e, declared)
<1>1. /\ flow \in Flows \cup {"refused"}
      /\ e.flow # None => flow \in {e.flow, "refused"}
  <2>1. PickFromDeclared(declared, e) \in Flows \cup {"refused"}
    BY DEF PickFromDeclared, Flows
  <2>2. e.flow # None => PickFromDeclared(declared, e) \in {e.flow, "refused"}
    BY DEF PickFromDeclared
  <2>3. SynthesiseFromConfig(e) \in Flows \cup {"refused"}
    BY DEF SynthesiseFromConfig, Flows
  <2>4. e.flow # None => SynthesiseFromConfig(e) \in {e.flow, "refused"}
    BY DEF SynthesiseFromConfig
  <2> QED
    BY <2>1, <2>2, <2>3, <2>4 DEF OAuthFlow, Flows
<1>2. CASE e.type = "oauth2"
  <2>1. setup = FlowSetup(flow, e, documents)
    BY <1>2 DEF BuildAuth
  <2>2. CASE flow = "authorization_code"
    <3>1. setup = Setup("authorization_code", "session", TRUE, FALSE, FALSE)
      BY <2>1, <2>2 DEF FlowSetup, SessionSetup
    <3> QED
      BY <1>1, <1>2, <2>2, <3>1 DEF Setup, Setups, Flows, Resolvers
  <2>3. CASE flow = "client_credentials"
    <3>1. setup = Setup("client_credentials", "service", FALSE, FALSE, TRUE)
      BY <2>1, <2>3 DEF FlowSetup, ServiceSetup
    <3> QED
      BY <1>1, <1>2, <2>3, <3>1 DEF Setup, Setups, Flows, Resolvers
  <2>4. CASE flow = "token_exchange"
    <3>1. setup = Setup("token_exchange", "exchange", FALSE, TRUE, TRUE)
      BY <2>1, <2>4 DEF FlowSetup, ExchangeSetup
    <3> QED
      BY <1>1, <1>2, <2>4, <3>1 DEF Setup, Setups, Flows, Resolvers
  <2>5. CASE flow = "refused"
    BY <2>1, <2>5 DEF FlowSetup
  <2> QED
    BY <1>1, <2>2, <2>3, <2>4, <2>5 DEF Flows
<1>3. CASE e.type = "passthrough"
  <2>1. setup = Setup(None, "passthrough", FALSE, FALSE, FALSE)
    BY <1>3 DEF BuildAuth
  <2> QED
    BY <1>3, <2>1 DEF Setup, Setups, Resolvers
<1>4. CASE e.type \notin {"oauth2", "passthrough"}
  <2>1. \/ setup = Setup(None, "static", FALSE, FALSE, FALSE)
        \/ setup = Setup(None, "null", FALSE, FALSE, FALSE)
    BY <1>4 DEF BuildAuth
  <2>2. e.flow = None
    BY <1>4
  <2>3. setup \in Setups
    <3>1. CASE setup = Setup(None, "static", FALSE, FALSE, FALSE)
      BY <3>1 DEF Setup, Setups, Resolvers
    <3>2. CASE setup = Setup(None, "null", FALSE, FALSE, FALSE)
      BY <3>2 DEF Setup, Setups, Resolvers
    <3> QED
      BY <2>1, <3>1, <3>2
  <2>4. setup.resolver \in {"static", "null"} /\ ~setup.provider /\ ~setup.verifier
    BY <2>1 DEF Setup
  <2> QED
    BY <1>4, <2>2, <2>3, <2>4
<1> QED
  BY <1>2, <1>3, <1>4

-----------------------------------------------------------------------------
\* No server, source or manager at the start.
LEMMA InvInit == Init => IInv
<1> SUFFICES ASSUME Init PROVE IInv
  OBVIOUS
<1> USE DEF Init
<1>1. Registered /\ NothingIsGuessed
  BY DEF Registered, NothingIsGuessed, Range
<1>2. Managers = <<>>
  BY DEF Managers, ServerNames
<1>3. IsPrefix(running, Managers) /\ IsPrefix(ran, hooks)
  BY <1>2 DEF IsPrefix
<1>4. hooks = [i \in 1..sources |-> i] /\ sources \in 0..MaxSources
  OBVIOUS
<1>5. phase \in Phases /\ phase \notin {"closing", "stopped"}
  BY DEF Phases
<1>6. running \in Seq(Names) /\ ran \in Seq(Nat)
  OBVIOUS
<1> QED
  BY <1>1, <1>3, <1>4, <1>5, <1>6 DEF IInv, Ordered

\* A server joins the others: its name is new, and its setup is a known one.
LEMMA RegisterStep ==
    ASSUME IInv,
           NEW n \in Names,
           NEW e \in [type: Types, flow: Flows \cup {None}, wrote: SUBSET Fields, unset: SUBSET Fields],
           e.flow # None => e.type = "oauth2",
           NEW declared \in SUBSET Flows, NEW documents, NEW headers \in SUBSET Headers,
           NEW late \in BOOLEAN, Register(n, e, declared, documents, headers, late)
    PROVE  IInv'
<1> DEFINE setup == BuildAuth(e, declared, documents)
           bundle == Bundle(n, e, setup, headers)
<1>1. /\ setup \in Setups
      /\ e.flow # None => setup.flow = e.flow
      /\ e.type = "oauth2" => setup.resolver \in {"session", "service", "exchange"}
      /\ setup.resolver = "passthrough" <=> e.type = "passthrough"
      /\ setup.resolver \in {"session", "exchange"} <=> setup.provider \/ setup.verifier
      /\ ~(setup.provider /\ setup.verifier)
  BY SetupIsKnown DEF Register
<1> USE DEF IInv
<1>2. /\ phase = "setup" /\ n \notin Range(ServerNames)
      /\ setup.source => sources < MaxSources
      /\ sources' = IF setup.source THEN sources + 1 ELSE sources
      /\ hooks' = RegisterHook(setup, late)
      /\ servers' = IF late THEN servers ELSE Append(servers, bundle)
      /\ UNCHANGED <<phase, transport, running, error, ran, storeClosed>>
  BY DEF Register
<1> HIDE DEF setup
<1>3. /\ bundle \in Bundles /\ bundle.name = n /\ bundle.mount = MountPath(n)
      /\ bundle.asked = e.flow /\ bundle.type = e.type /\ bundle.flow = setup.flow
      /\ bundle.resolver = setup.resolver
      /\ bundle.provider = setup.provider /\ bundle.verifier = setup.verifier
      /\ bundle.headers = headers
      /\ bundle.forwards = headers \cup (IF setup.resolver = "passthrough" THEN {"Authorization"} ELSE {})
  <2>1. Forwards(setup.resolver, headers) \in SUBSET Headers
    BY DEF Forwards, Headers
  <2> QED
    BY <1>1, <2>1 DEF Bundle, Bundles, Setups, Forwards
<1> HIDE DEF bundle
<1>4. servers \in Seq(Bundles)
  BY DEF Registered
<1>5. \A i \in DOMAIN servers : servers[i].name # n
  BY <1>2, <1>4 DEF ServerNames, Range
<1>6. ASSUME late PROVE Registered' /\ NothingIsGuessed'
  <2>1. servers' = servers
    BY <1>2, <1>6
  <2>2. Registered'
    BY <2>1 DEF Registered
  <2>3. NothingIsGuessed'
    BY <2>1 DEF NothingIsGuessed, HasSettings
  <2> QED
    BY <2>2, <2>3
<1>7. ASSUME ~late PROVE Registered' /\ NothingIsGuessed'
  <2>1. servers' = Append(servers, bundle)
    BY <1>2, <1>7
  <2>2. /\ servers' \in Seq(Bundles) /\ Len(servers') = Len(servers) + 1
        /\ servers'[Len(servers) + 1] = bundle
        /\ \A i \in DOMAIN servers : servers'[i] = servers[i]
        /\ DOMAIN servers' = DOMAIN servers \cup {Len(servers) + 1}
        /\ Len(servers) + 1 \notin DOMAIN servers
    BY <1>3, <1>4, <2>1
  <2>3. Registered'
    <3>1. \A i, j \in DOMAIN servers' : servers'[i].name = servers'[j].name => i = j
      BY <1>3, <1>5, <2>2 DEF Registered
    <3>2. \A i \in DOMAIN servers' :
             /\ servers'[i].mount = MountPath(servers'[i].name)
             /\ ~(servers'[i].provider /\ servers'[i].verifier)
      BY <1>1, <1>3, <2>2 DEF Registered
    <3> QED
      BY <2>2, <3>1, <3>2 DEF Registered
  <2>4. \A b \in Range(servers') : b \in Range(servers) \/ b = bundle
    BY <2>2 DEF Range
  <2>5. NothingIsGuessed'
    BY <1>1, <1>3, <2>4 DEF NothingIsGuessed, HasSettings
  <2> QED
    BY <2>3, <2>5
<1>8. Ordered'
  <2>1. running' = <<>> /\ ran' = <<>>
    BY <1>2 DEF Ordered
  <2>2. setup.source \in BOOLEAN /\ sources \in 0..MaxSources /\ hooks = [i \in 1..sources |-> i]
    BY <1>1 DEF Setups, Ordered
  <2>3. sources' \in 0..MaxSources /\ hooks' = [i \in 1..sources' |-> i]
    BY <1>2, <2>2 DEF RegisterHook
  <2>4. Managers' \in Seq(Names)
    <3>1. servers' \in Seq(Bundles)
      BY <1>2, <1>3, <1>4
    <3> QED
      BY <3>1, NamesOf DEF Managers, ServerNames
  <2>5. IsPrefix(running', Managers') /\ IsPrefix(ran', hooks')
    <3>1. hooks' \in Seq(Nat)
      BY <2>3
    <3> QED
      BY <2>1, <2>4, <3>1, EmptyPrefix
  <2> QED
    BY <1>2, <2>1, <2>3, <2>5 DEF Ordered
<1> QED
  BY <1>6, <1>7, <1>8

\* The lifespan's own steps leave the servers alone.
LEMMA LifespanStep ==
    ASSUME IInv, UNCHANGED <<servers, sources, hooks>>, Ordered'
    PROVE  IInv'
BY DEF IInv, Registered, NothingIsGuessed, HasSettings

\* Mounting, serving and leaving, in this order.
LEMMA ServeStep ==
    ASSUME IInv,
           \/ \E t \in {"sse", "streamable-http"} : Mount(t)
           \/ \E raises \in BOOLEAN : StopServing(raises) \/ ExitManager(raises)
           \/ StartManager \/ StartFails \/ Serve \/ Leave
    PROVE  IInv'
<1> USE DEF IInv
<1>1. servers \in Seq(Bundles) /\ Managers \in Seq(Names)
  BY ManagersAreNames DEF Registered
<1>2. ASSUME NEW t \in {"sse", "streamable-http"}, Mount(t) PROVE IInv'
  <2>1. running' = <<>> /\ Managers' \in Seq(Names)
    <3>1. servers' \in Seq(Bundles)
      BY <1>1, <1>2 DEF Mount
    <3> QED
      BY <1>2, <3>1, NamesOf DEF Managers, ServerNames, Mount, Ordered
  <2>2. IsPrefix(running', Managers')
    BY <2>1, EmptyPrefix
  <2>3. Ordered'
    BY <1>2, <2>1, <2>2 DEF Mount, Ordered, Phases
  <2> QED
    BY <1>2, <2>3, LifespanStep DEF Mount
<1>3. ASSUME UNCHANGED <<servers, transport>> PROVE Managers' = Managers
  BY <1>3 DEF Managers, ServerNames
<1>4. ASSUME NEW raises \in BOOLEAN, StopServing(raises) PROVE IInv'
  <2>1. Ordered'
    BY <1>3, <1>4 DEF StopServing, Ordered, Phases
  <2> QED
    BY <1>4, <2>1, LifespanStep DEF StopServing
<1>5. ASSUME NEW raises \in BOOLEAN, ExitManager(raises) PROVE IInv'
  <2>1. running' \in Seq(Names) /\ IsPrefix(running', Managers)
    BY <1>1, <1>5, PrefixShrinks DEF ExitManager, LastOut, Ordered
  <2>2. Ordered'
    BY <1>3, <1>5, <2>1 DEF ExitManager, Ordered, Phases
  <2> QED
    BY <1>5, <2>2, LifespanStep DEF ExitManager
<1>6. CASE StartManager
  <2>1. running' \in Seq(Names) /\ IsPrefix(running', Managers)
    BY <1>1, <1>6, PrefixGrows DEF StartManager, Ordered
  <2>2. Ordered'
    BY <1>3, <1>6, <2>1 DEF StartManager, Ordered, Phases
  <2> QED
    BY <1>6, <2>2, LifespanStep DEF StartManager
<1>7. CASE StartFails
  <2>1. Ordered'
    BY <1>3, <1>7 DEF StartFails, Ordered, Phases
  <2> QED
    BY <1>7, <2>1, LifespanStep DEF StartFails
<1>8. CASE Serve
  <2>1. Ordered'
    BY <1>3, <1>8 DEF Serve, Ordered, Phases
  <2> QED
    BY <1>8, <2>1, LifespanStep DEF Serve
<1>9. CASE Leave
  <2>1. Ordered'
    BY <1>3, <1>9 DEF Leave, Ordered, Phases
  <2> QED
    BY <1>9, <2>1, LifespanStep DEF Leave
<1> QED
  BY <1>2, <1>4, <1>5, <1>6, <1>7, <1>8, <1>9

\* stdio, the hooks and the store's close.
LEMMA CloseStep ==
    ASSUME IInv, \/ RunStdio \/ StdioEnds \/ CloseStore \/ \E raises \in BOOLEAN : RunHook(raises)
    PROVE  IInv'
<1> USE DEF IInv
<1>1. ASSUME UNCHANGED <<servers, transport>> PROVE Managers' = Managers
  BY <1>1 DEF Managers, ServerNames
<1>2. CASE RunStdio
  <2>1. running' = <<>> /\ Managers' = <<>>
    BY <1>2 DEF RunStdio, Managers, Ordered
  <2>2. IsPrefix(running', Managers')
    BY <2>1 DEF IsPrefix
  <2>3. Ordered'
    BY <1>2, <2>1, <2>2 DEF RunStdio, Ordered, Phases
  <2> QED
    BY <1>2, <2>3, LifespanStep DEF RunStdio
<1>3. CASE StdioEnds
  <2>1. Ordered'
    BY <1>1, <1>3 DEF StdioEnds, Ordered, Phases
  <2> QED
    BY <1>3, <2>1, LifespanStep DEF StdioEnds
<1>4. CASE CloseStore
  <2>1. Ordered'
    BY <1>1, <1>4 DEF CloseStore, Ordered, Phases
  <2> QED
    BY <1>4, <2>1, LifespanStep DEF CloseStore
<1>5. ASSUME NEW raises \in BOOLEAN, RunHook(raises) PROVE IInv'
  <2>1. hooks \in Seq(Nat)
    BY DEF Ordered
  <2>2. ran' \in Seq(Nat) /\ IsPrefix(ran', hooks)
    BY <1>5, <2>1, PrefixGrows DEF RunHook, Ordered
  <2>3. Ordered'
    BY <1>1, <1>5, <2>2 DEF RunHook, Ordered, Phases
  <2> QED
    BY <1>5, <2>3, LifespanStep DEF RunHook
<1> QED
  BY <1>2, <1>3, <1>4, <1>5

\* Every step keeps the invariant.
LEMMA InvStep == IInv /\ [Next]_vars => IInv'
<1> SUFFICES ASSUME IInv, [Next]_vars PROVE IInv'
  OBVIOUS
<1>1. ASSUME NEW n \in Names, NEW late \in BOOLEAN,
             NEW declared \in SUBSET {"authorization_code", "client_credentials"},
             NEW auth \in Entries \cup {None}, NEW documents \in Documents,
             NEW headers \in Passthroughs,
             AddFastAPIApp(n, auth, declared, documents, headers, late)
      PROVE  IInv'
  <2> DEFINE e == IF auth # None THEN auth ELSE Inferred(declared)
  <2>1. /\ e \in [type: Types, flow: Flows \cup {None}, wrote: SUBSET Fields, unset: SUBSET Fields]
        /\ e.flow # None => e.type = "oauth2"
    BY <1>1 DEF AddFastAPIApp, Valid, Inferred, Types
  <2>2. declared \in SUBSET Flows /\ headers \in SUBSET Headers
    BY DEF Flows, Headers
  <2>3. Register(n, e, declared, documents, headers, late)
    BY <1>1 DEF AddFastAPIApp
  <2> HIDE DEF e
  <2> QED
    BY <2>1, <2>2, <2>3, RegisterStep
<1>2. ASSUME NEW n \in Names, NEW late \in BOOLEAN,
             NEW declared \in SUBSET {"authorization_code", "client_credentials"},
             NEW e \in Entries, NEW documents \in Documents,
             AddServer(n, e, declared, documents, late)
      PROVE  IInv'
  <2>1. /\ e \in [type: Types, flow: Flows \cup {None}, wrote: SUBSET Fields, unset: SUBSET Fields]
        /\ e.flow # None => e.type = "oauth2"
        /\ Register(n, e, declared, documents, {}, late)
    BY <1>2 DEF AddServer, Valid
  <2>2. declared \in SUBSET Flows
    BY DEF Flows
  <2> QED
    BY <2>1, <2>2, RegisterStep
<1>3. CASE UNCHANGED vars
  <2>1. Ordered'
    BY <1>3 DEF vars, IInv, Ordered, Managers, ServerNames
  <2> QED
    BY <1>3, <2>1, LifespanStep DEF vars
<1> QED
  BY <1>1, <1>2, <1>3, ServeStep, CloseStep DEF Next

-----------------------------------------------------------------------------
\* The strengthened invariant, from which the rest follows.
THEOREM Inductive == Spec => []IInv
<1> QED
  BY InvInit, InvStep, PTL DEF Spec

\* A registration or a shutdown, also a failing one, leaves a typed state.
THEOREM TypeCorrect == Spec => []TypeOK
<1>1. IInv => TypeOK
  <2> SUFFICES ASSUME IInv PROVE TypeOK
    OBVIOUS
  <2>1. \A i \in DOMAIN servers : servers[i] \in Bundles /\ ~(servers[i].provider /\ servers[i].verifier)
    BY ElementOfSeq, LenProperties DEF IInv, Registered
  <2>3. \A i \in DOMAIN servers :
           /\ servers[i].name \in Names /\ servers[i].type \in Types
           /\ servers[i].forwards \subseteq {"Authorization"} \cup UNION Passthroughs
           /\ servers[i].provider => ~servers[i].verifier
    BY <2>1 DEF Bundles, Headers
  <2>2. hooks \in Seq(1..sources)
    BY DEF IInv, Ordered
  <2> QED
    BY <2>2, <2>3 DEF IInv, Ordered, Phases, TypeOK
<1> QED
  BY <1>1, Inductive, PTL

\* build_auth and the flow factory do what an entry says or refuse it.
THEOREM NothingIsEverGuessed == Spec => []NothingIsGuessed
<1>1. IInv => NothingIsGuessed
  BY DEF IInv
<1> QED
  BY <1>1, Inductive, PTL

\* serve_lifespan closes sources and store after its managers.
THEOREM AlwaysClosedAfterServing == Spec => []ClosedAfterServing
<1>1. IInv => ClosedAfterServing
  BY DEF IInv, Ordered, Phases, ClosedAfterServing
<1> QED
  BY <1>1, Inductive, PTL

\* _run_shutdown_hooks closes every source once, and then the store is closed.
THEOREM AlwaysStopsClean == Spec => []StopsClean
<1>1. IInv => StopsClean
  <2> SUFFICES ASSUME IInv, phase = "stopped" PROVE StopsClean
    BY DEF StopsClean
  <2>1. ran = [i \in 1..sources |-> i] /\ (transport # "stdio" => storeClosed)
    BY DEF IInv, Ordered
  <2>2. ASSUME NEW s \in 1..sources PROVE Cardinality({i \in DOMAIN ran : ran[i] = s}) = 1
    <3>1. {i \in DOMAIN ran : ran[i] = s} = {s}
      BY <2>1
    <3> QED
      BY <3>1, FS_Singleton
  <2> QED
    BY <2>1, <2>2 DEF StopsClean
<1> QED
  BY <1>1, Inductive, PTL

\* Without path prefixes, register_auth_routes answers every server's discovery
\* requests with that server's documents.
THEOREM DiscoveryAlwaysLeadsBack ==
    (\A n \in Names : PathPrefix[n] = None) => (Spec => []DiscoveryLeadsBack)
<1> SUFFICES ASSUME \A n \in Names : PathPrefix[n] = None PROVE Spec => []DiscoveryLeadsBack
  OBVIOUS
<1>1. IInv => DiscoveryLeadsBack
  <2> SUFFICES ASSUME IInv, NEW b \in Range(servers), HasSettings(b),
                      NEW documents \in {ResourceDocuments(b.mount), ResourceDocumentsMcp(b.mount)}
               PROVE  \E d \in documents :
                         /\ d.resource = b.mount
                         /\ d.issuer # "external" =>
                               IssuerDocuments(d.issuer) = {d.issuer} /\ Providers(d.issuer) = {b}
    BY DEF DiscoveryLeadsBack
  <2>1. \A c \in Range(servers) :
           c.name \in Names /\ c.mount = c.name /\ ~(c.provider /\ c.verifier)
    <3>1. \A i \in DOMAIN servers : servers[i] \in Bundles
      BY ElementOfSeq, LenProperties DEF IInv, Registered
    <3> QED
      BY <3>1 DEF IInv, Registered, Bundles, Range, MountPath
  <2>2. \A c \in Range(servers) : c.name = b.name => c = b
    BY DEF IInv, Registered, Range
  <2>3. ByName(b.mount) = {b}
    BY <2>1, <2>2 DEF ByName
  <2>4. b.provider => Providers(b.mount) = {b} /\ IssuerDocuments(b.mount) = {b.mount}
    BY <2>1, <2>2, <2>3 DEF Providers, IssuerDocuments
  <2>5. Providers(b.mount) \subseteq {b}
    BY <2>1, <2>2 DEF Providers
  <2>6. documents = {ProtectedResource(b)}
    BY <2>3, <2>5 DEF ResourceDocuments, ResourceDocumentsMcp
  <2>7. ProtectedResource(b).resource = b.mount
        /\ ProtectedResource(b).issuer = IF b.verifier THEN "external" ELSE b.mount
    BY DEF ProtectedResource
  <2> QED
    BY <2>1, <2>4, <2>6, <2>7 DEF HasSettings
<1> QED
  BY <1>1, Inductive, PTL
=============================================================================
