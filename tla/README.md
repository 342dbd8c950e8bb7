# openapi-mcp-gateway in TLA+

The gateway turns OpenAPI services into MCP servers. One process hosts any
number of *servers*; each exposes the operations of one OpenAPI spec as MCP
tools, authenticates its MCP clients, and calls the upstream API with a
credential of its own choosing. This directory holds a model of the parts whose
behaviour depends on order and concurrency, the TLC runs that check it on small
instances, and TLAPS proofs of the results that matter most for instances of any
size.

Paths below are relative to `src/openapi_mcp_gateway/`.

## Inventory

| Component | State it keeps | Operations | Interacts with | What makes it correct |
|---|---|---|---|---|
| Token store (`stores/`) | keyed JSON values with deadlines, in two dicts or in Redis | get, set (with or without ttl), delete, the same for mappings, close | provider (every await of a handler) | one contract for both backends: ttls hold, a rewrite lifts them, what was reported gone stays gone |
| Authorization code provider (`auth/flows/authorization_code.py`) | none of its own: six namespaces of the store and the mappings between them | register, authorize, upstream callback, code exchange, refresh, revoke, load, credential of a call | store, upstream authorization server, browser, MCP client, other servers and replicas over the shared store | a session unlocks exactly what its owner consented to; no credential crosses servers, upstreams or users; ended sessions stay dead; the upstream session is not lost |
| Token sources (`auth/token_source.py`) | cached tokens, a lock, an HTTP client | get_token / exchange, aclose | upstream token endpoint, resolvers, shutdown hooks | no stale or foreign token, shared fetches, nobody left on the lock |
| Auth resolvers (`auth/resolver.py`) | none | resolve headers for a call | provider, token sources, request context | the right credential on every call |
| OAuth flow resolution (`auth/detector.py`, `auth/types.py`, `auth/flows/factory.py`, `base.py`, `client_credentials.py`, `token_exchange.py`) | none | pick a flow from the spec and the settings, build its provider or source | settings, spec, gateway | precedence of explicit settings; an ambiguous spec is an error, not a guess |
| OIDC verification (`auth/oidc.py`) | issuer metadata and key set | fetch metadata, verify a token | identity provider | nothing is accepted before issuer, audience, expiry and signature were checked |
| Gateway and lifespan (`gateway.py`, `app.py`, `fastapi.py`) | bundles of servers, shutdown hooks, routes | add servers, mount, run, discovery routes, shut down | everything | every server is reachable under its own path and issuer; hooks and store are closed once |
| Spec parsing (`openapi.py`) | none | resolve `$ref`, expand schemas, list operations and security schemes | tool exposure | terminates on cycles, loses nothing |
| Tool exposure (`exposure/`) | registered tools and resources | register tools, meta tools, resources; route arguments; shape responses | client, resolvers, policy | names are unambiguous; every argument reaches its place; shaping keeps what it must |
| Upstream client (`client.py`) | an HTTP client | send a request | tool exposure | headers and errors of a call |
| Policy (`policy.py`) | none | which operations become tools | tool exposure | deny wins, nothing unlisted slips in |
| Settings (`settings.py`, `env.py`, `field_path.py`) | the merged configuration | merge layers, substitute the environment, validate | everything | a later layer overrides and erases nothing else |
| Command line (`cli.py`), logging (`logger.py`) | none | parse arguments, print | settings, gateway | (wiring and formatting only) |

Everything runs in one asyncio event loop per process. A handler runs
undisturbed up to its next `await`: a store command, a request to an upstream, or
a lock. Several replicas of the process may share one Redis. What is hard about
this code is therefore what happens *between* the awaits of one handler: another
handler on the same record, a ttl that ends, a crash, a redeployment with other
settings, an upstream that did its part but whose answer is lost.

## How the model is put together

| Module | Models | Builds on |
|---|---|---|
| `TokenStore` | the contract of a store | |
| `MemoryTokenStore`, `RedisTokenStore` | its two implementations | implement `TokenStore` |
| `AuthorizationCode` | the provider, all servers and replicas over one store | takes the contract for granted |
| `TokenSource` | the token sources | |
| `AuthSetup` | what authentication a server gets from its entry and its spec | operators only |
| `Gateway` | registration, discovery, start-up and shutdown | extends `AuthSetup` |
| `ToolShape` | parameters, shaping, input schema, request of a tool | operators only |
| `ToolCalls` | which operations are exposed, and a call | extends `ToolShape` |
| `SchemaExpansion` | `$ref`, `allOf` and cycles: the recursion as a machine of calls over shared dicts | |
| `SchemaMeaning` | what an expanded schema has to say, as recursive operators for TLC | extends `SchemaExpansion` |
| `SharedDefs` | counting references, naming entries, inlining | |

`MC*` modules hold the instances, `*Proofs` the theorems, `AuthorizationCodeInv`
the provider's inductive invariant. The components meet as follows. The provider
relies on the store's contract (ttls end, what is gone stays gone), which both
stores are shown to keep. `Gateway` shows what `TokenSource` assumes of its
`Close`: that no session runs any more (`ClosedAfterServing`). `AuthSetup` decides
which provider or source a bundle has. `SchemaExpansion` delivers the entries whose
references `SharedDefs` counts.

## Modules and the code

### Token store

`TokenStore` is the contract of `stores/base.py` as its callers rely on it: a key
holds a value and perhaps a deadline; a read before the deadline sees the value,
a read after it does not, and at the instant itself either answer is allowed,
since the memory store compares with `>` and Redis with `>=`. An entry may
disappear once its deadline is reached (`Lapse`, `GetLapsed`), never sooner, and
an entry reported gone stays gone, whatever the wall clock does.

`MemoryTokenStore` has `_data` and `_expiry` as the variables `data` and `expiry`
and an action per method (`get` is split in its two branches). No method
suspends, so each is one step. The clock is `time.time()`, a wall clock:
`ClockMoves` may set it back. `RedisTokenStore` sees the server's keyspace as
`entries`; each method is one Redis command. The server itself, its expiry and
its clock are external. `SETEX` rejects a ttl below one, so `set` raises and
nothing is stored.

Both have the contract as `KeepsContract`, through a refinement mapping in which
an expired entry nobody has read yet is still *held*, with its deadline.
`get_mapping` and `set_mapping` are `get` and `set` on a namespace of their own
and need no action.

### Authorization code provider

`AuthorizationCode` models all handlers of `AuthorizationCodeProvider`, of all
servers and replicas, over one store:

| Code | Actions |
|---|---|
| `register_client`, `authorize`, the user's consent | `RegisterClient`, `Authorize`, `Consent` |
| `handle_upstream_callback` | `CallbackBegin`, `CallbackRedeem` / `CallbackRefused` / `CallbackAnswerLost`, then one write after another: `CallbackStoreCode`, `CallbackStoreToken`, `CallbackMap`, `CallbackSpend` |
| `load_` and `exchange_authorization_code` | `ExchangeBegin`, `ExchangeRead` / `ExchangeRejected`, `ExchangeIssue` |
| `load_refresh_token`, `exchange_refresh_token` | `RefreshBegin`, `RefreshKeep` / `RefreshRenew` / `RefreshNeedsSignIn` / `RefreshMappingLost`, `RefreshUpstream` / `RefreshRefused` / `RefreshAnswerLost`, `RefreshIssue`, `RetireAccess`, `RetireRefresh` |
| `revoke_token` | `RevokeAccessBegin`, `RevokePairedRefresh`, `RevokeAccess`; `RevokeRefreshBegin`, `RevokePairedAccess`, `RevokeRefresh` |
| `load_access_token`, `get_api_access_token`, the call | `CallBegin`, `CallResolve`, `CallSend` |
| ttls | `LapseState` ... `LapseApiToken` |
| redeployment, failure | `Deploy`, `Undeploy`, `Crash` |

State: `mcp_auth_state`, `mcp_auth_code`, `mcp_access_token`, `mcp_refresh_token`,
`mcp_client` and `api_access_token` are the store's namespaces, as sets of the
keys present; `code_mapping`, `access_mapping` and `refresh_mapping` are the
mappings of a code or token, which share a ttl and are written together; `flow`,
`code` and `pair` are what the records say, kept when the record is gone, because
handlers go on working with what they read. `request` holds the locals of the
handlers in flight, `grant`, `redeemed`, `accessGen`, `refreshGen` the upstream's
own books. Three variables are history: `asked[f]` is the server a sign-in began at
(only the browser and the upstream know it, by the redirect_uri; no record has it),
`answered` the consents whose callback sent its browser back, and `ended` the tokens
whose revocation or rotation was answered.

Choices worth knowing:

- *Secrets are names.* A token is named by what it was made for, so that nobody
  guesses one, and a client that presents one was given it. A state is fresh for
  each sign-in. (The code takes the MCP client's own `state` when there is one;
  a client that repeats it is not modelled.)
- *What is one step.* The records and mappings of a new pair are written in one
  step, since nobody can name them before the response. Deletions and reads that
  others can observe are separate steps, and so are the callback's writes: the state
  whose deletion is the last of them is there for other callbacks in between, and a
  crash, or a Redis that rejects a ttl of zero, may stop it after any of them.
- *Any server's callback.* All servers look a state up under one key of the one
  store, and its record names no server. `CallbackBegin` therefore takes any server:
  the code is bound to the one whose route was hit. What keeps a sign-in with its
  server is the upstream, which compares the redirect_uri (RFC 6749 4.1.3);
  `Lenient` are upstreams that do not, and there the properties promise less
  (`OfServer`).
- *Torn reads.* The two mappings of a code or refresh token are read by two
  commands; the model lets the ttl end in between, which silently drops the
  upstream refresh token.
- *Lapsing order.* A mapping is written after its record with the same ttl, so it
  lapses after it. This assumes a clock that is not set back across a deadline.
- *The upstream* redeems a code once, renews for its newest refresh token only,
  rotates it or not, names itself in its response or not (`ResponseIss`), refuses at
  will, and may do its part although the answer is lost. Its tokens are generations of a consent: `<<g, n>>`.
- *Redeployment.* `running[s]` is the set of settings the replicas of `s` run with;
  a rolling deployment has two or more at once.

Not in the module: scopes, PKCE and redirect URIs (checked by the MCP SDK),
expiry fields inside the records (the SDK compares them; the store's ttl is the
same), `exchange_identity_assertion` (always refuses), logging.

### Token sources

`TokenSource` models `ClientCredentialsTokenSource` (one subject, the gateway) and
`TokenExchangeTokenSource` (a subject per caller's token; `ClearsOnClose` because
only this one empties its cache in `aclose`). `lock` and `queue` are the
`asyncio.Lock`; `AskHit`, `AskFetch` and `AskWait` are a call up to its first await,
`Wake` the second look at the cache under the lock, `Issue` the issuer, `Arrive` and
`Fail` the end of the request, `CancelWait` a cancelled task. A cancelled fetch is a
`Fail`. `Close` is the shutdown hook; it runs when no call is left. Time is one
monotonic clock; `MaxDelay` is how long an answer may be under way.

### Authentication of a server, and the gateway's life

`AuthSetup` follows an entry from `settings.py`'s check of its fields (`Valid`) over
the choice of a flow (`OAuthFlow`: `resolve_oauth_flow`) and the issuer's metadata
(`IssuerMetadata`: the first of two documents that is there and has keys decides)
to the parts that are built (`BuildAuth`, with one operator per flow). An entry is
its type, its flow and the *set of fields* its author wrote, less those that name an
unset environment variable; a spec is the set of flows it declares.

`Gateway` registers servers one by one (`AddServer`, `AddFastAPIApp`). An app's
server lets the caller's `passthrough_headers` through under any authentication,
by default both `Authorization` and `X-API-Key` (`gateway.py:45`, `:269`; `Forwards`),
and without an `auth` argument it is passthrough or nothing (`Inferred`). (`late` is a
registration that fails after its authentication was built, which leaves a shutdown
hook behind.) It mounts them (`Mount`) and runs them: `StartManager`, `StartFails`,
`Serve`, `StopServing`, `ExitManager`, `Leave` are the exit stack of
`serve_lifespan`, each of which may raise; `RunHook` and `CloseStore` come after it.
Hooks and the store's close stand *after* the stack and in no `finally`: if a
manager raises, they do not run (phase `failed`). That is what the code does, so
`StopsClean` speaks of a stop in order only; the process ends then, anyway.
`RunStdio` and `StdioEnds` are the other transport, which has no store to close. The
discovery routes are operators of the state: what a client finds at a path.

Assumed: servers have distinct names and paths. Nothing in the code refuses two
servers of one name or mount path; `build_app` and `server_lookup` then serve the
one or the other.

### Tools

`ToolShape` has an operation's parameters (`Parameters`), their shaping by
`tool.params` (`Shaped`, with the refusals), the input schema (`Advertised`,
`Required`, `Defaulted`) and the request (`Passed` without a request expression,
`Routed` with one). Names are model values; `Clean` is `_sanitize_name` and `Plain`
the names that `\w+` matches, for that is where names collide or escape a check.
Lists of parameters are functions over the positions in the spec: a parameter that
is dropped leaves its position out, and "the first of an identifier" and "the last
of a place" are comparisons of positions, for any number of parameters.

`ToolCalls` exposes a spec's operations in one step (`Expose`: filter, override,
partition, register) and then serves calls: `CallTool` or `ReadResource` up to the
resolver, `Send` or `NotSent`, `Answer` with its outcomes, `Return`. A resource has the
URI its author gave it or one made of its path; MCPServer refuses one that does not
fit its function's parameters (`Fits`) and of several resources with one URI serves
one (`Resources`). Headers other than a tool's own parameters are left out. One call at a time suffices: a call's closure shares no
state with another's. `ServersAssumption` says what `parse_spec` and the settings
models make of their input: a spec's own parameters are visible and have no
author's default, and an entry of `tool.params` has the four flags that count.

### Schemas

`SchemaExpansion` takes the recursion of `_expand_schema`, `_expand_inline` and
`_deep_merge` apart into steps. Its `program` is Python's stack: the calls still to
make and what is to be done with what they return, the next one first. `heap` has the
dicts made so far, by identity, because they are shared (an entry by all operations,
a branch's property by every merge that keeps it) and written to while they are made;
`result` is what the last call returned.

| Code | Actions |
|---|---|
| `_expand_schema` | `ExpandReference` (which reserves an entry or finds it), `StoreEntry`, `ReferToEntry`; `ExpandElsewhere`; `ExpandAllOf`, `NextBranch`; `ExpandNested` |
| `map_subschemas`, and the loop of `_deep_merge` | `NextField`, `PutField`, `LastField`: any order of the keys |
| `_expand_inline` | `InlinePlain`, `InlineReference`, `ThenCombine`, `ReturnDict` |
| `_deep_merge`, `_open_reference` | `MergeOpens`, `MergeAsTheyAre`, `JoinDicts`, `MergeTooDeep` |
| `parse_spec` | `ExpandPlace`, `PlaceDone`: one parameter or body after another, in any order |

A keyword that nests one schema or a dict of them is a property here, merged key by
key. Those whose value is a list of schemas (`oneOf`, `anyOf`, `prefixItems`) are in
`Lists`: `_deep_merge` finds a dict on neither side and replaces the whole list
(`openapi.py:299`), so a merged schema shows one of the lists its parts have
(`SaysWhatTheSpecSays` asks for no more). A list is taken as one.

`_EXPANDING` is the first dict of the heap, told from others by its identity, as in
the code. A dict that was cut is marked `cut`, for the properties. Python's recursion
limit is `RecursionLimit`, on the depth of a merge: nothing else recurses without end,
since a component is expanded once and `path` grows with each pointer.

`SharedDefs` has `count_defs_references`, `_defs_keys` and `_inline_single_use` as
three phases of one state machine over the reference graph. Its worklists are
sets: the result does not depend on the order, so any order is allowed. What stands
beside an inlined reference and is merged into its entry is left out: a sibling's
`oneOf` replaces the entry's there, too (`_shared.py:334`).

### Definitions marked "variant"

These are plausible slips of the definition after them: a dropped check, a missing
reset, a lookup by the wrong key. None is used by a specification; each is there to
show that a property would notice (`PROJECT.json`, "mutants").

## Runs

| Run | Instance | Question |
|---|---|---|
| `memory_store`, `redis_store` | 2 keys, 2 values, a few instants, ttls from below zero up | Does the backend keep the contract? |
| `lifecycle` | 1 session, 2 pairs, 2 handlers, 2 upstream generations | Do ended pairs stay dead, do calls carry a credential, is the newest upstream refresh token kept, under every interleaving of two handlers? (3.1 million states) |
| `isolation` | 2 servers, 1 client id, 2 sign-ins, 2 users, 2 upstreams of which one does not compare redirect_uri, callbacks at either server | Does anything cross servers or users? (5.6 million states) |
| `redeploy` | 1 server, 3 upstream settings over 2 authorization servers, 2 of them at a time, 2 clients, 1 sign-in, 2 pairs | Does anything cross upstreams or clients; does a code reach another issuer than its own? (4.8 million states) |
| `token_sources` | 2 subjects, 3 callers, 2 tokens, lifetimes below and above the skew, time to 2 | Nobody's token, no dead token, shared fetches, everybody is answered (608 thousand states) |
| `gateway` | 2 servers, every entry the settings accept, every set of declared flows, 3 pairs of issuer documents, callers' headers let through or not, a failure at every step | Is authentication what was asked for; does discovery lead back; is everything closed, once, and after its users? (59 thousand states) |
| `tool_calls` | 38 534 servers: 1 operation shaped in every way, also with two names of one identifier in either order, 2 operations under every policy and style, 1 or 2 resources with every URI, also one that does not fit and one of another; every set of arguments | Exposure, arguments, placeholders, hidden parameters (490 thousand states) |
| `schema_expansion` | 14 592 documents: 2 components of every small shape that refer to themselves and each other, with and without lists, a body and a parameter in either order | Is what is shown whole and what the spec says; is a shared dict ever written to? (4.6 million states) |
| `shared_defs` | every graph of 5 references among 3 components and the root, up to renaming places; 2 long names shorten to the third one's | Counting, naming, inlining (76 thousand states) |
| `expansion_ends`, `discovery` | the instances of `schema_expansion`, and of `gateway` with a `path_prefix` | Disagreements of code and documentation, below |

Why the bounds are enough. Interference between handlers of the provider is on one
record at a time, so two handlers, two pairs (an old and a new one) and two upstream
generations contain every race. Crossing needs two servers, two users, two clients
or two upstreams, which the other runs have each at least once; a single handler
suffices there, because what crosses is carried by records. (`isolation` has one pair:
two users' tokens meet in the codes and sign-ins, and rotation is in `redeploy`.) Three callers put two in
the lock's queue; a token of lifetime 2 with a skew and a delay of 1 goes stale
within the clock's bound, one of lifetime 0 is stale on arrival. Servers interfere
in the gateway by name and path only, so two are enough; the two sources are there
to tell an order of hooks. A tool's parameters interfere in pairs (one identifier or
one name in two places): the colliding names stand in every two places. Two
components make every kind of cycle (through itself, through the other, in place,
by reference); the reference definition compares schemas three levels deep, and a cycle
closes after two. Five references can make a component shared, single-use, recursive
and unreachable at once. A merge that ends goes no deeper than three
there: with a limit of three, five or eight the same 594 documents exceed it. Every safety property of a passing
run but `SaysWhatTheSpecSays` is proved without bounds, too (below).

Sets of clients, users, pairs, handlers and places are symmetric; no run with a liveness
property uses symmetry. Deadlock is not checked where a system stops by design: all
tokens of the bounded instance are used up, a gateway has stopped, a spec is parsed.
`MaxGen`, `MaxSettings`, `MaxTokens`, `MaxTime`, `MaxSources` and `RecursionLimit` are the bounds on
what the code leaves unbounded.

Fairness is assumed for the token sources only (`FairSpec`): the event loop runs
every task that is ready (`Wake`), and httpx's default timeouts end every request
(`Answer`). Callers may stop calling, tokens need not be issued, and nobody has to
cancel. Nothing the other components promise depends on fairness.

## Where code and documentation disagree

Shown by a run:

- `expansion_ends`: `openapi.py:500` says that a component that refers to itself
  needs no truncation, and `:391` that only what can be described by inlining
  itself is cut. Two branches of an `allOf` that give one property to two
  *different* recursive components are merged by opening the references
  (`openapi.py:324`); each entry's property is again such a pair, so `_deep_merge`
  never ends and `parse_spec` raises `RecursionError`.
- `discovery`: README.md:586 says that mounting registers the discovery routes
  "so an OAuth flow works end to end", and README.md:319 offers `path_prefix`. The
  two `.well-known` routes look a server up by its *name* (`app.py:261`), whereas its
  issuer and resource are made of its *mount path*. With a prefix of its own a
  server's metadata is not found where its issuer says.

Met while modelling; the models follow the code in each case:

- README.md:275 says a client that refreshes within the refresh TTL never signs in
  again. If the upstream issues no refresh token, it does, as soon as the upstream
  access token lapses (`authorization_code.py:255`, `RefreshNeedsSignIn`).
- The docstring of `revoke_token` (`authorization_code.py:287`) says that the paired
  mappings are deleted. Only the two records are; the mappings stay until their
  ttl, and nothing is admitted through them. If the mapping of the token that is
  revoked has lapsed before the handler reads it, the other half is not found and
  lives on until its own ttl (`authorization_code.py:289`): the exception of
  `EndedPairsStayDead`.
- The class's docstring (`authorization_code.py:96`) says that every record the
  provider persists is bound to the gateway's issuer. The record of a sign-in
  (`:152-159`) is bound to the upstream only, and its key is the bare state: one of
  server `s1` is taken at `s2`'s callback, and the code is `s2`'s. If the upstream
  compares the redirect_uri, the redemption then fails and nothing comes of it;
  that this suffices is what `isolation` and the theorem `SessionsMatchSignIns` show.
- The docstring of `from_fastapi` (`gateway.py:274`) and README.md:580 say that a
  declared `client_credentials` flow makes the gateway mint its own tokens, the
  docstring also that `authorization_code` uses the provider. Without an `auth`
  argument every declared flow gives passthrough (`fastapi.py:142`), as the
  docstring there says.
- `gateway.py:81` says that the gateway's credentials win over a caller's forwarded
  headers. Names are compared with their case in a dict: a forwarded `X-API-Key` and a
  minted `x-api-key` both go out; and a header parameter the spec declares replaces a
  credential of its name (`_upstream.py:328-333`). The merging is not modelled.
- Merging is said to be recursive (`openapi.py:283`, `:504`). A list of schemas is
  not merged but replaced (`openapi.py:299`): of two branches of an `allOf` with a
  `oneOf` each, the first one's alternatives are lost.
- Two resources whose author gave them one `uri_template` are both announced in the
  log and one is served (`resource.py:170-178`); `ExposesWhatPolicyAdmits` excuses
  this pair, too.
- `token_source.py:27` and `:44` say that concurrent refreshes are de-duplicated.
  Tokens that last no longer than the refresh skew are stale on arrival, and every
  waiter fetches its own, one after the other.
- README.md:340 lets a per-operation `resource` apply either way; with the promotion
  switched off, or under the dynamic style, it does not (`gateway.py:166-174`).
- Where references to two entries that are both still being expanded meet in an
  `allOf`, the later one replaces the other (`openapi.py:322`): mark `lost`,
  from which `SaysWhatTheSpecSays` expects no more.
- What stands beside an `allOf` in one schema is dropped (`openapi.py:527-531`), save
  what it requires where a cycle is cut (`openapi.py:398`), although
  `openapi.py:504` speaks of flattening and JSON Schema lets all of it count.
- Of two tools with one name the first one's callable stays under the second one's
  schema (`tool.py:237-249`); `ExposesWhatPolicyAdmits` excuses this pair.
- Cookie parameters are advertised and never sent (`_shared.py:242`); placeholders
  that `\w+` does not match escape the check of `_shaping.py:135`; through
  `call_operation` a caller may name a hidden parameter. The properties of `ToolCalls` say so where they stop.
- Two parameters whose names make one identifier (`x-v` and `x_v`) are one property
  of the tool (`_shared.py:254`). In different places both get the argument; in
  one place only the last is sent (`_upstream.py:146`), and a path keeps the first one's
  placeholder. If one of them is hidden, the caller's argument of the other goes to
  both, and a visible one after a hidden one is never advertised (`_shared.py:369`),
  although README.md:441 has `hidden` remove one parameter (`Shadowed`,
  `HiddenStaysTheAuthors`).
- A path parameter behind an optional parameter of its identifier (a query `x-v`
  before a path `x_v`) is not required of the caller, for only the first bearer is
  shown (`_shared.py:254`, `_shared.py:369`): a call without it goes out with the
  placeholder in its path. The last exception of `NoPlaceholderLeft`.
- Beside a `$ref`, `nullable` is dropped (`openapi.py:345`), and
  `_schema_to_python_type` (`_shared.py:164`) recurses for ever where a schema
  refers to itself beside a keyword of its own; both are outside the model.
- `app.py:232-238` serves discovery documents under the mount path, too, where
  clients that follow RFC 8414 do not ask.

## Proofs

For all values of the constants, under the named assumptions of each module:

| Module | Theorem | Statement |
|---|---|---|
| `MemoryTokenStoreProofs` | `TypeCorrect`, `DeadlinesAlwaysHaveData`, `MemoryKeepsContract` | the two dicts are typed and agree; the store implements `TokenStore` |
| `RedisTokenStoreProofs` | `TypeCorrect`, `RedisKeepsContract` | the shared store is typed and implements `TokenStore` |
| `AuthorizationCodeProofs` | `Inductive` | `Spec => []IInv` |
| | `TypeCorrect`, `SessionsMatchSignIns`, `CredentialsStayInCustody`, `CodesReachTheirIssuer`, `AnsweredStatesAreSpent`, `EndedPairsStayDeadAlways`, `CallsAlwaysCarryCredential` | the invariants of the provider's runs |
| | `RefreshTokensStayOrdered` | `Spec => []RInv`: `IInv`, and no record or handler is ahead of the upstream |
| | `NewestRefreshTokenAlwaysKept` | the action property of `lifecycle`: no handler strands the newest upstream refresh token |
| `TokenSourceProofs` | `TypeCorrect`, `TokensAlwaysStayWithTheirSubject`, `FetchesAreSerial`, `ReturnedTokensAreAlwaysLive`, `CallersAlwaysShareFetches` | the safety properties of the sources |
| `GatewayProofs` | `Inductive`, `TypeCorrect`, `NothingIsEverGuessed`, `AlwaysClosedAfterServing`, `AlwaysStopsClean` | the invariants of the gateway's run, for any number of servers and sources |
| | `DiscoveryAlwaysLeadsBack` | discovery works if no server has a path prefix |
| `ToolCallsProofs` | `Inductive` | `Spec => []IInv`, for any spec, settings and names |
| | `TypeCorrect`, `PolicyAlwaysDecides`, `ResourcesCanAlwaysBeRead`, `ArgumentsAlwaysArrive`, `HiddenAlwaysStaysTheAuthors`, `NoPlaceholderIsEverLeft` | the invariants of the run `tool_calls` |
| `SchemaExpansionProofs` | `Inductive` | `Spec => []IInv`, for any spec, places and recursion limit |
| | `NothingEverDangles`, `EntriesAlwaysStay`, `CutsAlwaysInPlace` | the properties of `schema_expansion` but its comparison with the spec |
| | `NothingInsideItself` | what is made can be written out as JSON: no dict is inside itself |
| `SharedDefsProofs` | `Inductive`, `TypeCorrect`, `CountsAreAlwaysExact`, `NothingIsWrittenTwice`, `NothingIsEverMissing`, `KeysAlwaysIdentify` | the invariants of the run `shared_defs`, for any reference graph |

The provider's argument (`AuthorizationCodeInv`). None of its properties is
inductive: a handler acts on what it read several steps ago, when the record may
since have lapsed, been deleted, or been replaced by another deployment. `IInv` says
for each step a handler may be at what its locals still guarantee (`CallbackSound`,
`ExchangeSound`, `PairSound`), what each record guarantees (`SignInsRecorded`,
`CodesRecorded`, `PairsRecorded`), that a mapping outlives its record
(`MappingsOutliveRecords`: this is why an admitted call finds its credential, and why
a rotation or revocation misses the other half of a pair only once the token's own
record has lapsed), and that one
handler only holds the upstream's answer for a code (`CodeRedeemedOnce`: the reason
why a code's record is never overwritten). The proof rests on one observation,
`Stable`: records are never rewritten, so what a handler knows of one is not
disturbed by any other handler. Each handler's own steps are then treated alone
(`CallbackKeepsSound` ... `ToolCallKeepsSound`) and all others by one lemma. TLC checked
`IInv` as an invariant before it was proved.

`CredentialCustody` then follows from three facts at the moment of sending: the
record was bound to this server and to this upstream's identifier, the pair's
credential is of the consent it descends from, and that consent was given at the
upstream the pair names. The server is the one of the sign-in because the upstream
compared the redirect_uri when it redeemed the code (`OfServer`), and that of the
pair because every record made from the code copies it.

The store proofs have the two equalities that relate a dict with one key changed to
the contract's functions as lemmas; each method is then one step of the contract, or
a stutter. The token source's proof has a cached or delivered token's record at the
issuer in its invariant; that a returned token is alive needs `MaxDelay <= Skew`: the
lifetime is counted from arrival, and the skew has to make up for the delay.

The gateway's invariant adds to each phase what it leaves alone: no hook has run
before `closing`, no manager runs outside `mounted`, `serving` and `leaving`, and
the i-th hook closes the i-th source (`Ordered`). That servers have distinct names
and that a server's path is its name's (`Registered`) gives discovery; that
authentication is what was asked for is a case distinction over entries
(`SetupIsKnown`).

`SharedDefs` counts while it walks, so exactness needs both directions at every
moment: whatever is counted was walked at some place, whatever was walked is counted,
twice if twice (`Counting`), and nothing is met that some closed set does without
(`MetIsReached`). Inlining writes nothing twice because a text written in place was
named by one place only, and that place is done (`Rewriting`). Keys identify because
names that clients accept come first and a long name takes the first number that is
free.

Expansion of schemas (`IInv` of `SchemaExpansionProofs`). That an operation never
sees an unfinished dict is not inductive, for while parsing there are many: an entry
is referred to before it is stored, and a dict has some of its properties before the
others. The invariant says who is responsible. A dict is *ready* when no instruction in the
program will write to it, an unfinished one has exactly one builder (`OneEach`), and only
ready ones are ever handed around: stored, returned, merged or put into another
(`HeapSound`, `HandlesSound`, `ProgramSound`). The entries that hold `_EXPANDING` are
exactly those some call in the program will store (`ReservedAreStored`), and nothing
uses a result before there is one (`ResultBeforeUse`), so the sentinel never gets
into a dict. When the program is empty nobody is building or storing:
`NothingDangles`. `EntriesStay` follows because ready dicts are not written to,
`StoreEntry` replaces a sentinel only, and a merge builds a new dict. What
becomes ready holds only what was ready before it, so no ready dicts are inside each
other in a circle, though the *references* among entries may well be
(`NothingInsideItself`).

`CutOnlyInPlace` has an invariant of its own: from each pointer on a call's `path`
one comes, in place, to another one of the path or to what the call is for
(`PathsFollowed`). When a pointer is met that is on the path, all of the path is such
a loop. What stands in place in a schema (`InPlaceIn`) is a recursive function on
schemas; that there is one (`InPlaceInDefined`) is proved from the assumption that
schemas are finite texts: in any set of them some schema has no other of them inside
it. TLC evaluates that assumption on the instance.

`RefreshTokensOrdered` is what `NewestRefreshTokenKept` needs beyond `IInv`. A step
strands the newest refresh token only if it deletes or overwrites the one record
that holds it. Two facts exclude that: nothing in the gateway is newer than the
upstream's own last token, and a handler about to retire a pair that still works
holds a token no older than the pair's. So the pair it is about to
delete is not newer than what it has just written. Both are invariants over
all handlers at once, because another handler may have renewed in between; that the
upstream renews for its newest token only is what keeps them. The proof goes by who
may move the upstream's counters (`GensFootprint`), then by the handler whose step it
is, and `Stable` covers the rest again.

The invariant of `ToolCalls` (`IInv`) has a conjunct per thing a call depends on.
`Exposed`: the tools and resources are those the settings determine, once and for
all. `IsCall`, `Asked`: a call in flight is one of an exposed operation, with the
parameters shaping left it and with what its caller could name. `Requested`: what
went out is what `Sent` makes of those. The properties then are about
operators, and their lemmas follow the argument through the code: what filtering and
overriding keep (`KeptSound`), which tool has a name (`ToolsSound`), what shaping
guarantees of every parameter it leaves (`MergedSound`, `ShapedSound`), that whatever
is sent is made of a value the call has (`SentIsGiven`), and that a value there is
reaches its parameter's place (`ValueReaches`). "The first parameter of an
identifier" exists because `<` on the naturals is well-founded (`Least`, `Greatest`),
which is all the induction these proofs need. `NoPlaceholderLeft` joins
the two ends: shaping refuses a tool with an unfilled placeholder, an invisible
parameter has a default, and of a visible one either its own identifier is required
or the caller sees another one of that identifier.

Model-checked only:

- `SaysWhatTheSpecSays` of `schema_expansion`: what a schema says is a recursive
  definition over schemas and over the made dicts, which refer to each other in
  circles; that the two agree takes induction over both, which the prover does not
  do. It is compared to a depth of three.
- `EveryCallerAnswered`, a liveness property under fairness, which the prover does not do.
- The two disagreements, which are counterexamples.

## Not modelled

- *Command line and logging*: wiring and wording, no state and no decision that
  another component depends on.
- *OIDC verification*: which issuer document is trusted is in `AuthSetup`; the
  verification of a token is one function of checks around a signature, in an order
  that does not matter, over a library's cryptography.
- *Settings*: validation of auth entries, unset variables and mount paths are in
  `AuthSetup` and `Gateway`; the layered merge (`settings.py:22`) is one
  recursive function of two dicts, in which the later one wins, and field paths are
  text. Nothing modelled here depends on which layer a setting came from.
- *Spec parsing*: loading of files and URLs, the dialect differences of keywords,
  server URLs and media types are conversions of data no property here tells apart.
- *Exposure*: Python types of a signature, the promotion of media in an answer,
  descriptions, `describe` and the health route only read or format.
- *A sign-in repeated with the client's own `state`*: the code takes the client's
  `state` as its key, so a client that repeats one replaces its own record. The model
  has a fresh state per sign-in, which RFC 6749 asks of clients.
- *Growth*: neither the memory store nor the exchange cache evicts what nobody reads
  again. How large they get depends on the clients, not on the code.
