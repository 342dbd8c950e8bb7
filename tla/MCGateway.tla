----------------------------- MODULE MCGateway -----------------------------
EXTENDS Gateway

CONSTANTS s1, s2

NoPrefix == [n \in Names |-> None]
OnePrefix == [n \in Names |-> IF n = s1 THEN "prefix" ELSE None]

\* Every entry the settings accept, but for four fields nothing here depends on,
\* with all variables set or no credential's.
Decorative == {"mcp_token_ttl", "upstream_issuer", "api_key_header", "required_scopes"}
AllEntries ==
    {e \in [type: Types, flow: Flows \cup {None}, wrote: SUBSET (Fields \ Decorative),
           unset: {{}, {"client", "token"}}] :
        Valid(e)}

\* passthrough_headers: none, or the default.
AppHeaders == {{}, {"Authorization", "X-API-Key"}}

Found == <<"missing", "with_token_endpoint">>
Published == {Found, <<"no_keys", "bare">>, <<"foreign", "with_token_endpoint">>}
=============================================================================
