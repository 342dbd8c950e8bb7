------------------------------ MODULE AuthSetup ------------------------------
(***************************************************************************)
(* Which authentication a server gets from its entry and its spec:         *)
(* settings.py's check of an entry, the dispatch of auth/types.py, the     *)
(* choice of an OAuth flow in auth/flows/factory.py, and what each flow's  *)
(* handler asks for and builds.                                            *)
(*                                                                         *)
(* An entry has a type, a flow or None, and `wrote`, the fields its author *)
(* filled in; `unset` are those that name an unset environment variable.   *)
(* A spec is the set of supported OAuth flows it declares, with their      *)
(* URLs.                                                                   *)
(***************************************************************************)
EXTENDS Naturals, FiniteSetsExt

CONSTANT None

Types == {"none", "bearer", "api_key", "passthrough", "oauth2"}
Flows == {"authorization_code", "client_credentials", "token_exchange"}
UpstreamFields == {"client", "authorization_url", "token_url", "audience", "upstream_issuer"}
Fields == {"token", "api_key_header", "issuer", "required_scopes", "mcp_token_ttl"}
              \cup UpstreamFields

Has(e, field) == field \in e.wrote \ e.unset

\* _reject_settings_that_cannot_take_effect: the fields a combination may set.
FlowOpen(e) == e.type = "oauth2" /\ e.flow = None
Applicable(e) ==
    {f \in Fields :
        CASE f = "token"           -> e.type \in {"bearer", "api_key"}
          [] f = "api_key_header"  -> e.type = "api_key"
          [] f = "issuer"          -> e.flow = "token_exchange"
          [] f = "required_scopes" -> e.flow \in {"authorization_code", "token_exchange"} \/ FlowOpen(e)
          [] f \in {"mcp_token_ttl", "upstream_issuer"}
                                   -> e.flow = "authorization_code" \/ FlowOpen(e)
          [] OTHER                 -> e.type = "oauth2"}
Valid(e) ==
    /\ e.wrote \subseteq Applicable(e)
    /\ e.flow # None => e.type = "oauth2"

-----------------------------------------------------------------------------
\* resolve_oauth_flow.  A ValueError is "refused" here, and None below.
PickFirst(declared, e) ==                                           \* variant
    IF "authorization_code" \in declared THEN "authorization_code" ELSE "client_credentials"
PickFromDeclared(declared, e) ==
    CASE e.flow \in declared -> e.flow
      [] e.flow \notin declared \cup {None} -> "refused"
      [] e.flow = None /\ "authorization_code" \in declared -> "authorization_code"
      [] OTHER -> "client_credentials"

SynthesiseFromConfig(e) ==
    LET flow == IF e.flow # None THEN e.flow
                ELSE IF "authorization_url" \in e.wrote THEN "authorization_code"
                ELSE "client_credentials"
    IN  IF \/ "token_url" \notin e.wrote
           \/ flow = "authorization_code" /\ "authorization_url" \notin e.wrote
        THEN "refused" ELSE flow

OAuthFlow(e, declared) ==
    IF e.flow = "token_exchange" THEN "token_exchange"
    ELSE IF declared # {} THEN PickFromDeclared(declared, e)
    ELSE SynthesiseFromConfig(e)

\* fetch_issuer_metadata: the first of two documents that is there and has
\* signing keys decides, and one that is another issuer's ends the search.
Decisive(documents) == {i \in DOMAIN documents : documents[i] \notin {"missing", "no_keys"}}
IssuerMetadata(documents) ==
    IF Decisive(documents) = {} THEN "refused"
    ELSE LET document == documents[Min(Decisive(documents))]
         IN  IF document = "foreign" THEN "refused" ELSE document

\* build(): what the parts of a server's authentication are.  `source` is a
\* token source, which a shutdown hook closes.
Setup(flow, resolver, provider, verifier, source) ==
    [flow |-> flow, resolver |-> resolver, provider |-> provider, verifier |-> verifier, source |-> source]

SessionSetup(e) ==
    IF Has(e, "client") THEN Setup("authorization_code", "session", TRUE, FALSE, FALSE) ELSE None
ServiceSetup(e) ==
    IF Has(e, "client") THEN Setup("client_credentials", "service", FALSE, FALSE, TRUE) ELSE None
ExchangeSetup(e, documents) ==
    IF /\ Has(e, "issuer") /\ Has(e, "audience") /\ Has(e, "client")
       /\ IssuerMetadata(documents) = "with_token_endpoint"
      THEN Setup("token_exchange", "exchange", FALSE, TRUE, TRUE) ELSE None

FlowSetup(flow, e, documents) ==
    CASE flow = "authorization_code" -> SessionSetup(e)
      [] flow = "client_credentials" -> ServiceSetup(e)
      [] flow = "token_exchange"     -> ExchangeSetup(e, documents)
      [] flow = "refused"            -> None

\* build_auth
BuildAuth(e, declared, documents) ==
    CASE e.type = "oauth2" -> FlowSetup(OAuthFlow(e, declared), e, documents)
      [] e.type = "passthrough" -> Setup(None, "passthrough", FALSE, FALSE, FALSE)
      [] e.type \in {"bearer", "api_key"} /\ Has(e, "token") -> Setup(None, "static", FALSE, FALSE, FALSE)
      [] OTHER -> Setup(None, "null", FALSE, FALSE, FALSE)
=============================================================================
