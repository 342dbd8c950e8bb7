------------------------------ MODULE ToolShape ------------------------------
(***************************************************************************)
(* What a tool asks of the model and what it makes of the answer, as       *)
(* operators: the parameters of an operation (parse_spec of openapi.py),   *)
(* their shaping (exposure/_shaping.py), the input schema                  *)
(* (exposure/_shared.py), and the request (exposure/_upstream.py).         *)
(*                                                                         *)
(* Of a parameter's schema only an author's default counts, of a value     *)
(* whether the caller gave it or it is that default.                       *)
(***************************************************************************)
EXTENDS SequencesExt

CONSTANTS None,
          Clean,     \* _sanitize_name: the identifier made of a name
          Plain      \* the names that \w+ matches

Names(s) == {s[i].name : i \in DOMAIN s}
HasBody(method) == method \in {"post", "put", "patch"}

-----------------------------------------------------------------------------
\* parse_spec: the operation's own parameters, those of its path it does not
\* repeat, and the fields of its body.  A list of which some are dropped keeps
\* the positions of the others.
Declared(name, in, required) ==
    [name |-> name, in |-> in, required |-> required, default |-> FALSE, visible |-> TRUE]

SameParameter(p, q) == p.name = q.name /\ p.in = q.in

Parameters(method, own, inherited, fields) ==
    LET declared == own \o inherited
        all == declared \o (IF HasBody(method) THEN fields ELSE <<>>)
        Repeated(i) == \E j \in 1..(i - 1) : SameParameter(all[j], all[i])
    IN  Restrict(all, {i \in DOMAIN all : i <= Len(declared) => ~Repeated(i)})

-----------------------------------------------------------------------------
\* shape_operation.  An entry of tool.params is typed or not, hidden or not,
\* required or not, and has a default or none.  (A definition marked "variant" is
\* a slip of the one after it, kept to show which property notices.)
Tweak(p, entry) ==
    IF entry.typed THEN [p EXCEPT !.required = entry.required, !.default = entry.default]
    ELSE IF entry.default THEN [p EXCEPT !.required = FALSE, !.default = TRUE]
    ELSE p

\* A hidden parameter stays only for its default.
Dropped(p, entry) == entry.hidden /\ ~Tweak(p, entry).default
Adjusted(p, entry) == [Tweak(p, entry) EXCEPT !.visible = ~entry.hidden]

EntriesFor(p, entries) == {e \in Range(entries) : e.name = p.name}

Merged(params, entries) ==
    [i \in {j \in DOMAIN params : \A e \in EntriesFor(params[j], entries) : ~Dropped(params[j], e)} |->
        IF EntriesFor(params[i], entries) = {} THEN params[i]
        ELSE Adjusted(params[i], CHOOSE e \in EntriesFor(params[i], entries) : TRUE)]

\* Under "replace" a new parameter has no location of its own, a spec header keeps its.
Introduced(e) ==
    [name |-> e.name, in |-> "query", required |-> e.required, default |-> e.default, visible |-> TRUE]

Replaced(params, entries) ==
    LET Headers(e) == {p \in Range(params) : p.in = "header" /\ p.name = e.name}
    IN  [i \in {j \in DOMAIN entries : \A p \in Headers(entries[j]) : ~Dropped(p, entries[j])} |->
            IF Headers(entries[i]) = {} THEN Introduced(entries[i])
            ELSE Adjusted(CHOOSE p \in Headers(entries[i]) : TRUE, entries[i])]

Filled(params) == {p.name : p \in {q \in Range(params) : q.in = "path"}}
UnfilledNever(o, params) == {}                                      \* variant
Unfilled(o, params) == {n \in o.placeholders \cap Plain : n \notin Filled(params)}

\* The parameters of a tool, or None: the operation is refused.
Shaped(o) ==
    LET t == o.tool
        kept == Merged(o.params, t.entries)
    IN  IF t = None THEN o.params
        ELSE IF t.entries = <<>> THEN o.params
        ELSE IF t.strategy = "replace" THEN
                 (IF t.request = None THEN None ELSE Replaced(o.params, t.entries))
        ELSE IF t.strategy = "merge" THEN
                 (IF /\ Names(t.entries) \subseteq Names(o.params)
                     /\ t.request = None => Unfilled(o, kept) = {}
                    THEN kept ELSE None)
        ELSE None

-----------------------------------------------------------------------------
\* build_input_schema and _build_tool_signature: one property per identifier, of
\* the first parameter that has it, if that one is visible.
SameIdentifier(p, q) == Clean[p.name] = Clean[q.name]
FirstBearers(params) ==
    {i \in DOMAIN params :
        \A j \in DOMAIN params : SameIdentifier(params[j], params[i]) => i <= j}
AdvertisedAll(params) == {params[i] : i \in FirstBearers(params)}    \* variant
Advertised(params) == {params[i] : i \in {j \in FirstBearers(params) : params[j].visible}}
Properties(params) == {Clean[p.name] : p \in Advertised(params)}
Required(params) == {Clean[p.name] : p \in {q \in Advertised(params) : q.required}}

\* The identifiers an author's default is put in for (injected_defaults).
Defaulted(params) == {Clean[p.name] : p \in {q \in Range(params) : q.default}}

-----------------------------------------------------------------------------
\* _build_upstream_closure.  `values` are the arguments there are, by identifier.
\* A cookie has no place in the four lists of _split_by_location.
Places == {"path", "query", "header", "body"}

\* Of the parameters of a place that share an identifier the last one counts.
Keyed(params, place) ==
    {params[i] : i \in {j \in DOMAIN params :
        /\ params[j].in = place
        /\ \A k \in DOMAIN params : k > j /\ params[k].in = place => ~SameIdentifier(params[j], params[k])}}

Item(place, name, from) == [in |-> place, name |-> name, from |-> from]

\* Without a request expression every argument goes where the spec declares it.
Present(o, params, values) ==
    {p \in UNION {Keyed(params, place) : place \in Places} :
        Clean[p.name] \in values /\ (p.in = "path" => p.name \in o.placeholders)}

PassedByIdentifier(o, params, values) ==                            \* variant
    {Item(p.in, Clean[p.name], Clean[p.name]) : p \in Present(o, params, values)}
Passed(o, params, values) ==
    {Item(p.in, p.name, Clean[p.name]) : p \in Present(o, params, values)}

\* With one (_route_upstream_object) each key of its result is sent where its name
\* belongs; a key made of an argument that is not there is none.
HeaderOf(params, key) == {p \in Keyed(params, "header") : key \in {p.name, Clean[p.name]}}

Routed(o, params, values) ==
    LET Route(key, from) ==
            IF key \in o.placeholders THEN Item("path", key, from)
            ELSE IF HeaderOf(params, key) # {}
                   THEN Item("header", (CHOOSE p \in HeaderOf(params, key) : TRUE).name, from)
            ELSE Item(IF HasBody(o.method) THEN "body" ELSE "query", key, from)
        request == o.tool.request
    IN  {Route(key, request[key]) : key \in {k \in DOMAIN request : request[k] \in values}}

HasExpression(o) == IF o.tool = None THEN FALSE ELSE o.tool.request # None
Sent(o, params, values) ==
    IF HasExpression(o) THEN Routed(o, params, values) ELSE Passed(o, params, values)
=============================================================================
