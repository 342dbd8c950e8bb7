------------------------------- MODULE Gateway -------------------------------
(***************************************************************************)
(* The gateway's life: servers are registered, mounted with their discovery *)
(* routes, run for as long as the application serves, and shut down        *)
(* (gateway.py, app.py; the registration of an app's routes of fastapi.py).  *)
(*                                                                         *)
(* A registration that raises before it built the server's authentication  *)
(* changes nothing, and is no step; `late` is one that raises after.       *)
(***************************************************************************)
EXTENDS AuthSetup, SequencesExt

CONSTANTS Names,        \* of the servers configured, each registered once
          PathPrefix,   \* a server's path_prefix, or None
          Entries,      \* what their auth may be
          Documents,    \* what an issuer may publish at the two places asked
          Passthroughs, \* the passthrough_headers an app may be registered with
          MaxSources    \* a bound: token sources built

ASSUME GatewayAssumption ==
    /\ Entries \subseteq [type: Types, flow: Flows \cup {None}, wrote: SUBSET Fields, unset: SUBSET Fields]
    /\ None \notin Types \cup Flows \cup {"refused", "sse", "streamable-http", "stdio"}
    /\ MaxSources \in Nat

VARIABLES
    servers,      \* the registered bundles, in order
    sources,      \* how many token sources were built
    hooks,        \* the shutdown hooks: the sources they close
    phase,
    transport,
    running,      \* the session managers entered, by server
    error,        \* an exception is on its way out of the lifespan
    ran,          \* the hooks that were run
    storeClosed

vars == <<servers, sources, hooks, phase, transport, running, error, ran, storeClosed>>

MountPath(n) == IF PathPrefix[n] # None THEN PathPrefix[n] ELSE n
ServerNames == [i \in DOMAIN servers |-> servers[i].name]
Managers == IF transport = "streamable-http" THEN ServerNames ELSE <<>>

\* Managers run in the order of the servers, hooks in the order they came.
TypeOK ==
    /\ \A i \in DOMAIN servers :
          /\ servers[i].name \in Names
          /\ servers[i].type \in Types
          /\ servers[i].forwards \subseteq {"Authorization"} \cup UNION Passthroughs
          /\ servers[i].provider => ~servers[i].verifier
    /\ sources \in 0..MaxSources
    /\ hooks \in Seq(1..sources)
    /\ phase \in {"setup", "mounted", "serving", "leaving", "closing", "stdio", "stopped", "failed"}
    /\ transport \in {None, "stdio", "sse", "streamable-http"}
    /\ IsPrefix(running, Managers)
    /\ IsPrefix(ran, hooks)
    /\ {error, storeClosed} \subseteq BOOLEAN

Init ==
    /\ servers = <<>> /\ sources = 0 /\ hooks = <<>>
    /\ phase = "setup" /\ transport = None
    /\ running = <<>> /\ error = FALSE /\ ran = <<>> /\ storeClosed = FALSE

-----------------------------------------------------------------------------
\* _compose_with_passthrough: what reaches the upstream of a caller's own headers,
\* beside what the resolver has: those the registration names, and Authorization
\* if the resolver is PassthroughAuthResolver.
Forwards(resolver, headers) ==
    headers \cup (IF resolver = "passthrough" THEN {"Authorization"} ELSE {})

\* _register_server_bundle: _resolve_auth appends the hook before the tools are
\* built, so a source has its hook even if the registration fails then.  A
\* bundle remembers what its entry asked for, for the properties.  (A definition
\* marked "variant" is a slip of the one after it, kept to show which property
\* notices.)
RegisterHookWithBundle(setup, late) ==                              \* variant
    IF setup.source /\ ~late THEN Append(hooks, sources + 1) ELSE hooks
RegisterHook(setup, late) ==
    IF setup.source THEN Append(hooks, sources + 1) ELSE hooks

Bundle(n, e, setup, headers) ==
    [name |-> n, mount |-> MountPath(n), type |-> e.type, asked |-> e.flow,
     flow |-> setup.flow, headers |-> headers, forwards |-> Forwards(setup.resolver, headers),
     resolver |-> setup.resolver, provider |-> setup.provider, verifier |-> setup.verifier]

Register(n, e, declared, documents, headers, late) ==
    LET setup == BuildAuth(e, declared, documents)
    IN  /\ phase = "setup"
        /\ n \notin Range(ServerNames)
        /\ setup # None
        /\ setup.source => sources < MaxSources
        /\ sources' = IF setup.source THEN sources + 1 ELSE sources
        /\ hooks' = RegisterHook(setup, late)
        /\ servers' = IF late THEN servers ELSE Append(servers, Bundle(n, e, setup, headers))
        /\ UNCHANGED <<phase, transport, running, error, ran, storeClosed>>

AddServer(n, e, declared, documents, late) ==
    /\ Valid(e)
    /\ Register(n, e, declared, documents, {}, late)

\* infer_auth_from_declared_flows: for an app registered without an auth argument.
Inferred(declared) ==
    [type |-> IF declared # {} THEN "passthrough" ELSE "none", flow |-> None, wrote |-> {}, unset |-> {}]

\* _add_fastapi_app, whose passthrough_headers are Authorization and X-API-Key
\* unless the author names others or none.
AddFastAPIApp(n, auth, declared, documents, passthrough_headers, late) ==
    /\ auth # None => Valid(auth)
    /\ Register(n, IF auth # None THEN auth ELSE Inferred(declared), declared, documents,
                passthrough_headers, late)

\* build_app or mount: routes and sub-apps of the servers there are.
Mount(t) ==
    /\ phase = "setup"
    /\ phase' = "mounted" /\ transport' = t
    /\ UNCHANGED <<servers, sources, hooks, running, error, ran, storeClosed>>

\* serve_lifespan enters the managers one by one.
StartManager ==
    /\ phase = "mounted" /\ running # Managers
    /\ running' = Append(running, Managers[Len(running) + 1])
    /\ UNCHANGED <<servers, sources, hooks, phase, transport, error, ran, storeClosed>>

StartFails ==
    /\ phase = "mounted" /\ running # Managers
    /\ phase' = "leaving" /\ error' = TRUE
    /\ UNCHANGED <<servers, sources, hooks, transport, running, ran, storeClosed>>

Serve ==
    /\ phase = "mounted" /\ running = Managers
    /\ phase' = "serving"
    /\ UNCHANGED <<servers, sources, hooks, transport, running, error, ran, storeClosed>>

\* The host app's body ends, or raises.
StopServing(raises) ==
    /\ phase = "serving"
    /\ phase' = "leaving" /\ error' = raises
    /\ UNCHANGED <<servers, sources, hooks, transport, running, ran, storeClosed>>

\* The exit stack unwinds in reverse, past a manager that raises.
FirstOut == Tail(running)                                           \* variant
LastOut == Front(running)
ExitManager(raises) ==
    /\ phase = "leaving" /\ running # <<>>
    /\ running' = LastOut
    /\ error' = (error \/ raises)
    /\ UNCHANGED <<servers, sources, hooks, phase, transport, ran, storeClosed>>

LeaveAtOnce ==                                                      \* variant
    /\ phase = "leaving"
    /\ phase' = IF error THEN "failed" ELSE "closing"
    /\ UNCHANGED <<servers, sources, hooks, transport, running, error, ran, storeClosed>>
Leave ==
    /\ phase = "leaving" /\ running = <<>>
    /\ phase' = IF error THEN "failed" ELSE "closing"
    /\ UNCHANGED <<servers, sources, hooks, transport, running, error, ran, storeClosed>>

\* run over stdio takes one server; its hooks run in a finally.
RunStdio ==
    /\ phase = "setup" /\ Len(servers) = 1
    /\ phase' = "stdio" /\ transport' = "stdio"
    /\ UNCHANGED <<servers, sources, hooks, running, error, ran, storeClosed>>

StdioEnds ==
    /\ phase = "stdio"
    /\ phase' = "closing"
    /\ UNCHANGED <<servers, sources, hooks, transport, running, error, ran, storeClosed>>

\* _run_shutdown_hooks logs a hook that raises and goes on.
RunHook(raises) ==
    /\ phase = "closing" /\ ran # hooks
    /\ ran' = Append(ran, hooks[Len(ran) + 1])
    /\ UNCHANGED <<servers, sources, hooks, phase, transport, running, error, storeClosed>>

\* The lifespan closes the store; stdio has none to close it.
CloseStore ==
    /\ phase = "closing" /\ ran = hooks
    /\ phase' = "stopped"
    /\ storeClosed' = (transport # "stdio")
    /\ UNCHANGED <<servers, sources, hooks, transport, running, error, ran>>

Next ==
    \/ /\ phase = "setup"
       /\ \E n \in Names \ Range(ServerNames), late \in BOOLEAN,
             declared \in SUBSET {"authorization_code", "client_credentials"} :
             \E documents \in Documents :
                \/ \E e \in Entries : AddServer(n, e, declared, documents, late)
                \/ \E auth \in Entries \cup {None}, passthrough_headers \in Passthroughs :
                      AddFastAPIApp(n, auth, declared, documents, passthrough_headers, late)
    \/ \E t \in {"sse", "streamable-http"} : Mount(t)
    \/ \E raises \in BOOLEAN : StopServing(raises) \/ ExitManager(raises) \/ RunHook(raises)
    \/ StartManager \/ StartFails \/ Serve \/ Leave
    \/ RunStdio \/ StdioEnds \/ CloseStore

Spec == Init /\ [][Next]_vars

-----------------------------------------------------------------------------
\* Discovery (register_auth_routes).  A path stands for a server's mount path.
Mounted == phase # "setup" /\ transport # "stdio"

\* An own issuer is a mount path.
ProtectedResourceOfGateway(b) == [resource |-> b.mount, issuer |-> b.mount]   \* variant
ProtectedResource(b) ==
    [resource |-> b.mount, issuer |-> IF b.verifier THEN "external" ELSE b.mount]

HasSettings(b) == b.provider \/ b.verifier
ByName(segment) == {b \in Range(servers) : b.name = segment /\ HasSettings(b)}
Providers(path) == {b \in Range(servers) : b.mount = path /\ b.provider}

\* /.well-known/oauth-protected-resource/{server_name}, alone and with /mcp,
\* where a provider has a route of its own.
ResourceDocuments(path) == {ProtectedResource(b) : b \in ByName(path)}
ResourceDocumentsMcp(path) ==
    IF Providers(path) # {} THEN {ProtectedResource(b) : b \in Providers(path)}
    ELSE ResourceDocuments(path)

\* /.well-known/oauth-authorization-server/{server_name}: the issuer it states.
IssuerDocuments(path) == {b.mount : b \in {c \in ByName(path) : c.provider}}

-----------------------------------------------------------------------------
\* A client that asks for the documents of a server it was pointed to finds
\* that server's, and an authorization server named there, if it is the gateway,
\* has its metadata and its endpoints where that name says ("so an OAuth flow
\* works end to end", README.md:586).
DiscoveryLeadsBack ==
    Mounted =>
        \A b \in Range(servers) : HasSettings(b) =>
            \A documents \in {ResourceDocuments(b.mount), ResourceDocumentsMcp(b.mount)} :
                \E d \in documents :
                    /\ d.resource = b.mount
                    /\ d.issuer # "external" =>
                           /\ IssuerDocuments(d.issuer) = {d.issuer}
                           /\ Providers(d.issuer) = {b}

\* What an entry says is done or refused, never guessed: a flow it names is the
\* flow it gets, OAuth has a credential to send, and no header of a caller goes
\* upstream but those the registration let through: none of a spec's server,
\* Authorization under passthrough, and of an app's server also its
\* passthrough_headers, whatever its auth (by default both the caller's
\* Authorization and its X-API-Key: gateway.py:45, README.md:580).
NothingIsGuessed ==
    \A b \in Range(servers) :
        /\ b.asked # None => b.flow = b.asked
        /\ b.type = "oauth2" => b.resolver \in {"session", "service", "exchange"}
        /\ \A h \in b.forwards \ b.headers : h = "Authorization" /\ b.type = "passthrough"
        /\ b.type = "passthrough" => "Authorization" \in b.forwards
        /\ b.resolver \in {"session", "exchange"} <=> HasSettings(b)

\* No token source or store is closed under a session that is still running:
\* what TokenSource's Close and the stores take for granted.
ClosedAfterServing ==
    ran # <<>> \/ storeClosed => running = <<>> /\ phase \in {"closing", "stopped"}

\* A gateway that stops in order has closed every token source it ever built
\* once, whatever other hooks raised, those of failed registrations included,
\* and then its store.
StopsClean ==
    phase = "stopped" =>
        /\ \A s \in 1..sources : Cardinality({i \in DOMAIN ran : ran[i] = s}) = 1
        /\ transport # "stdio" => storeClosed
=============================================================================
