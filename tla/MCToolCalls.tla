---------------------------- MODULE MCToolCalls ----------------------------
EXTENDS ToolCalls

MCClean == ("id" :> "id") @@ ("x-v" :> "x_v") @@ ("x_v" :> "x_v") @@ ("q" :> "q")

Path(n) == Declared(n, "path", TRUE)
Optional(n, in) == Declared(n, in, FALSE)
Needed(n, in) == Declared(n, in, TRUE)

\* A path's own, its path item's and its body's parameters.
Shapes(method) ==
    {[params |-> Parameters(method, <<Path("id"), Optional("q", "query")>>, <<>>, <<Needed("id", "body"), Optional("x-v", "body")>>),
      placeholders |-> {"id"}],
     [params |-> Parameters(method, <<Path("id"), Needed("x-v", "header")>>,
                            <<Optional("x-v", "header"), Optional("id", "query")>>, <<>>),
      placeholders |-> {"id"}],
     [params |-> Parameters(method, <<Path("x-v"), Optional("q", "cookie")>>, <<Path("id")>>, <<>>),
      placeholders |-> {"x-v", "id"}],
     [params |-> Parameters(method, <<Optional("q", "header")>>, <<>>, <<Optional("q", "body")>>), placeholders |-> {}]}

\* Two names that make one identifier, in every two places and either order.
Colliding(method) ==
    LET Of(name, place) == Declared(name, place, place = "path")
        In(s, body) == SelectSeq(s, LAMBDA p : (p.in = "body") = body)
    IN  {LET s == <<Of(names[1], there), Of(names[2], elsewhere)>>
         IN  [params |-> Parameters(method, In(s, FALSE), <<>>, In(s, TRUE)),
              placeholders |-> {p.name : p \in {q \in Range(s) : q.in = "path"}}] :
         names \in {<<"x_v", "x-v">>, <<"x-v", "x_v">>}, there \in Places, elsewhere \in Places}

\* The path does not have the placeholder its parameter is for.
Stray == [params |-> Parameters("get", <<Path("id")>>, <<>>, <<>>), placeholders |-> {}]

Operation(id, method, shape, tool, resource) ==
    [id |-> id, name |-> id, method |-> method, placeholders |-> shape.placeholders,
     params |-> shape.params, tool |-> tool, resource |-> resource]

Tool(name, strategy, entries, request) ==
    [name |-> name, strategy |-> strategy, entries |-> entries, request |-> request]
Plainly == Tool(None, None, <<>>, None)

EntriesOn(names) ==
    [name: names, typed: BOOLEAN, required: BOOLEAN, default: BOOLEAN, hidden: BOOLEAN]
Lists == {<<>>} \cup {<<e>> : e \in EntriesOn({"id", "x-v", "q"})}
                \cup {<<e, f>> : e \in {d \in EntriesOn({"q"}) : ~d.required},
                                 f \in {d \in EntriesOn({"id"}) : ~d.required /\ d.typed = d.default}}
Expressions == {None, [n \in {"id", "x-v", "q"} |-> MCClean[n]], ("id" :> "q") @@ ("x_v" :> "id")}

Server(operations, style, promote) ==
    [operations |-> operations, style |-> style, promote |-> promote,
     annotated |-> FALSE, allow |-> {}, deny |-> {}, yaml |-> [n \in {} |-> None]]

\* One operation, its parameters shaped in every way.
Shaping ==
    {Server(<<Operation("op1", shape[1], shape[2], Tool(None, strategy, entries, request), None)>>, style, FALSE) :
        shape \in UNION {{m} \X Shapes(m) : m \in {"get", "post"}},
        strategy \in {"merge", "replace", None}, entries \in Lists, request \in Expressions,
        style \in {"static", "dynamic"}}

Crossing ==
    {Server(<<Operation("op1", shape[1], shape[2], Tool(None, "merge", entries, request), None)>>, style, FALSE) :
        shape \in UNION {{m} \X Colliding(m) : m \in {"get", "post"}},
        entries \in {<<>>} \cup {<<e>> : e \in {d \in EntriesOn({"x_v", "x-v"}) : ~d.required}},
        request \in {None, ("id" :> "q") @@ ("x_v" :> "id")}, style \in {"static", "dynamic"}}

\* Two operations, under every policy, exposed in every way; the first may have
\* the URI of the second.
Overrides == {[n \in {} |-> None]} \cup {(i :> [tool |-> t, resource |-> r]) :
                 i \in {"op1", "op2"}, t \in {None, Plainly}, r \in {None, "derived", "op2"}}
Policies == {<<FALSE, {}, {}>>, <<TRUE, {}, {}>>, <<FALSE, {"op1"}, {}>>, <<FALSE, {}, {"op1"}>>,
             <<TRUE, {"op1", "op2"}, {"op2"}>>}
Exposing ==
    {[Server(<<Operation("op1", "get", shape, t, r), Operation("op2", method, shape, u, None)>>, style[1], style[2])
        EXCEPT !.annotated = policy[1], !.allow = policy[2], !.deny = policy[3], !.yaml = yaml] :
        shape \in {s \in Shapes("get") : s.placeholders = {"id"}}, method \in {"get", "delete"},
        t \in {None, Plainly, Tool("n", None, <<>>, None)}, r \in {None, "derived", "op2", "foreign", "misfit"},
        u \in {None, Tool("n", None, <<>>, None)},
        style \in {<<"static", FALSE>>, <<"static", TRUE>>, <<"dynamic", TRUE>>},
        policy \in Policies, yaml \in Overrides}

\* A path that does not have its parameter's placeholder.
Straying == {Server(<<Operation("op1", "get", Stray, None, None)>>, "static", promote) : promote \in BOOLEAN}

MCServers == Shaping \cup Crossing \cup Exposing \cup Straying
=============================================================================
