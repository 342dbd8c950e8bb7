------------------------------ MODULE ToolCalls ------------------------------
(***************************************************************************)
(* Which operations of a spec a server exposes, as tools or resources      *)
(* (policy.py, gateway.py, exposure/tool.py, exposure/resource.py), and    *)
(* what of its arguments a call of one sends upstream                      *)
(* (exposure/_upstream.py, client.py).                                     *)
(***************************************************************************)
EXTENDS ToolShape

CONSTANT Servers       \* a spec's operations and a server's settings

\* What parse_spec makes of a spec, and the settings' types: a parameter of a
\* spec is shown and has no default of an author's.
SpecParameter ==
    [name : DOMAIN Clean, in : Places \cup {"cookie"}, required : BOOLEAN,
     default : {FALSE}, visible : {TRUE}]
Entry ==
    [name : DOMAIN Clean, typed : BOOLEAN, required : BOOLEAN, default : BOOLEAN, hidden : BOOLEAN]
IsTool(t) == t = None \/ Range(t.entries) \subseteq Entry
IsOperation(o) ==
    /\ o = [id |-> o.id, name |-> o.name, method |-> o.method, placeholders |-> o.placeholders,
            params |-> o.params, tool |-> o.tool, resource |-> o.resource]
    /\ DOMAIN o.params \subseteq Nat
    /\ Range(o.params) \subseteq SpecParameter
    /\ IsTool(o.tool)

ASSUME ServersAssumption ==
    \A s \in Servers :
        /\ s.operations \in Seq(Range(s.operations))
        /\ \A o \in Range(s.operations) : IsOperation(o)
        /\ \A i \in DOMAIN s.yaml : IsTool(s.yaml[i].tool)

VARIABLES
    server,
    phase,
    tools,        \* by name: whose schema is shown, which operation is called
    resources,    \* the operations exposed as resources, one behind a URI
    call

vars == <<server, phase, tools, resources, call>>

Operations == Range(server.operations)

TypeOK ==
    /\ phase \in {"configured", "serving", "refused"}
    /\ \A n \in DOMAIN tools : Shaped(tools[n].schema) # None /\ Shaped(tools[n].does) # None
    /\ \A o \in resources : o.method = "get"
    /\ call # None =>
          /\ call.kind \in {"tool", "resource"}
          /\ call.step \in {"resolving", "sent", "answered"}
          /\ call.given \subseteq Range(Clean)
          /\ call.defaults \subseteq Defaulted(call.params) \ call.given
          /\ \A i \in call.items : i.in \in Places /\ i.from \in call.given \cup call.defaults
          /\ call.error \in BOOLEAN

NoTools == [n \in {} |-> None]

Init ==
    /\ server \in Servers
    /\ phase = "configured" /\ tools = NoTools /\ resources = {} /\ call = None

-----------------------------------------------------------------------------
\* filter_operations.  A pattern stands for the operations it matches.
Admitted(o) ==
    /\ server.annotated => o.tool # None
    /\ server.allow # {} => o.id \in server.allow
    /\ o.id \notin server.deny

\* _apply_yaml_overrides: an override replaces all the spec says of an operation
\* and must name one that passed the filter.
Override(o) ==
    IF o.id \in DOMAIN server.yaml
      THEN [o EXCEPT !.tool = server.yaml[o.id].tool, !.resource = server.yaml[o.id].resource]
      ELSE o

AdmittedAsOverridden ==                                             \* variant
    LET overridden == [i \in DOMAIN server.operations |-> Override(server.operations[i])]
    IN  Restrict(overridden, {i \in DOMAIN overridden : Admitted(overridden[i])})
Kept ==
    [i \in {j \in DOMAIN server.operations : Admitted(server.operations[j])} |->
        Override(server.operations[i])]

\* _resource_eligibility_problem, _partition_operations
EligibleIfRead(o) == o.method = "get"                               \* variant
EligibleByPath(o) == \A p \in Range(o.params) : p.required => p.in = "path"   \* variant
Eligible(o) ==
    /\ o.method = "get"
    /\ \A p \in Range(o.params) : p.required => p.in = "path"

AsResource(o) ==
    /\ server.style = "static" /\ server.promote
    /\ o.resource # None \/ (o.tool = None /\ Eligible(o))
AsTool(o) == AsResource(o) => o.tool # None

\* derive_resource_uri: the author's, or one made of the path.  MCPServer takes a
\* URI only if the placeholders it sees there are the function's parameters
\* (resource.py:41): the author's "misfit" is one that it does not take.
URI(o) == IF o.resource \in {None, "derived"} THEN o.id ELSE o.resource
FitsItsPath(o) ==
    {Clean[n] : n \in Filled(o.params)} =
        {Clean[n] : n \in o.placeholders \cap Filled(o.params)}
            \cup ((o.placeholders \ Filled(o.params)) \cap Plain)
Fits(o) == IF URI(o) = o.id THEN FitsItsPath(o) ELSE o.resource # "misfit"

\* The ValueErrors between the filter, which must leave something (gateway.py:440),
\* and the last registration.
Refused ==
    \/ Range(Kept) = {}
    \/ ~(DOMAIN server.yaml \subseteq {o.id : o \in Range(Kept)})
    \/ \E o \in Range(Kept) :
          \/ AsResource(o) /\ o.resource # None /\ (~Eligible(o) \/ o.resource = "foreign")
          \/ AsResource(o) /\ ~Fits(o)
          \/ AsTool(o) /\ Shaped(o) = None

\* derive_name.  ToolManager.add_tool keeps a tool that has the name already,
\* ToolGenerator.register shows the later schema on it; the registry of the meta
\* tools is overwritten.
Name(o) == IF o.tool = None THEN o.name ELSE IF o.tool.name # None THEN o.tool.name ELSE o.name

Named(n) == {i \in DOMAIN Kept : AsTool(Kept[i]) /\ Name(Kept[i]) = n}

Tools ==
    [n \in {Name(o) : o \in {p \in Range(Kept) : AsTool(p)}} |->
        [schema |-> Kept[Max(Named(n))],
         does |-> Kept[IF server.style = "static" THEN Min(Named(n)) ELSE Max(Named(n))]]]

\* Of the operations of one URI, which only an author can give to several, MCPServer
\* serves one.
AsResources == {o \in Range(Kept) : AsResource(o)}
Resources(exposed) ==
    /\ exposed \subseteq AsResources
    /\ {URI(o) : o \in exposed} = {URI(o) : o \in AsResources}
    /\ \A o, p \in exposed : URI(o) = URI(p) => o = p

\* _register_server_bundle, from the filter on: all in one go.
Expose ==
    /\ phase = "configured"
    /\ IF Refused
         THEN phase' = "refused" /\ UNCHANGED <<tools, resources>>
         ELSE /\ phase' = "serving"
              /\ tools' = Tools
              /\ \E exposed \in SUBSET AsResources : Resources(exposed) /\ resources' = exposed
    /\ UNCHANGED <<server, call>>

-----------------------------------------------------------------------------
\* A call ends up in the closure of its operation.  MCPServer drops arguments
\* outside the signature of a static tool; call_operation passes all of them on.
Started(kind, o, params, given, defaults, refused) ==
    [kind |-> kind, op |-> o, params |-> params, given |-> given, defaults |-> defaults,
     step |-> IF refused THEN "answered" ELSE "resolving", error |-> refused,
     items |-> {}]

Refuses(params, given) == ~(Required(params) \subseteq given)

CallTool(n, arguments) ==
    LET o == tools[n].does
        params == Shaped(o)
        given == IF server.style = "static" THEN arguments \cap Properties(params) ELSE arguments
    IN  /\ phase = "serving" /\ call = None
        /\ call' = Started("tool", o, params, given, Defaulted(params) \ given, Refuses(params, given))
        /\ UNCHANGED <<server, phase, tools, resources>>

\* The URI of a resource carries its path parameters; tool.params does not apply.
ReadResource(o) ==
    /\ phase = "serving" /\ call = None
    /\ call' = Started("resource", o, o.params, {Clean[n] : n \in Filled(o.params)}, {}, FALSE)
    /\ UNCHANGED <<server, phase, tools, resources>>

\* The resolver has answered: the request goes out.
Send ==
    /\ call # None
    /\ call.step = "resolving"
    /\ call' = [call EXCEPT !.step = "sent",
                    !.items = Sent(call.op, call.params, call.given \cup call.defaults)]
    /\ UNCHANGED <<server, phase, tools, resources>>

\* The resolver raises, or the request expression fails.
NotSent ==
    /\ call # None
    /\ call.step = "resolving"
    /\ call' = [call EXCEPT !.step = "answered", !.error = TRUE]
    /\ UNCHANGED <<server, phase, tools, resources>>

\* A response expression reshapes what is not binary, and may fail.
Answer(outcome, fails) ==
    /\ call # None
    /\ call.step = "sent"
    /\ fails => outcome = "decoded" /\ call.op.tool # None
    /\ call' = [call EXCEPT !.step = "answered", !.error = (fails \/ outcome \in {"status", "network"})]
    /\ UNCHANGED <<server, phase, tools, resources>>

Return ==
    /\ call # None
    /\ call.step = "answered"
    /\ call' = None
    /\ UNCHANGED <<server, phase, tools, resources>>

Next ==
    \/ Expose
    \/ /\ phase = "serving" /\ call = None
       /\ \/ \E n \in DOMAIN tools, arguments \in SUBSET Range(Clean) : CallTool(n, arguments)
          \/ \E o \in resources : ReadResource(o)
    \/ Send
    \/ NotSent
    \/ \E outcome \in {"status", "network", "binary", "decoded"}, fails \in BOOLEAN : Answer(outcome, fails)
    \/ Return

Spec == Init /\ [][Next]_vars

-----------------------------------------------------------------------------
\* An override cannot bring back what the policy left out: annotated_only asks
\* for the spec's own annotation; and nothing admitted gets lost between tools
\* and resources, save one tool behind another's name and one resource behind
\* another's URI (policy.py, gateway.py:133-188, resource.py:170-178).
ExposesWhatPolicyAdmits ==
    phase = "serving" =>
        LET exposed == {tools[n].does.id : n \in DOMAIN tools} \cup {o.id : o \in resources}
        IN  /\ exposed \subseteq {o.id : o \in {p \in Operations : Admitted(p)}}
            /\ \A o \in Operations : Admitted(o) =>
                   \/ o.id \in exposed
                   \/ \E n \in DOMAIN tools : tools[n].does.id # o.id /\ n = Name(Override(o))
                   \/ \E r \in resources : r.id # o.id /\ URI(r) = URI(Override(o))

Going == call # None /\ call.step = "sent"
Passes == Going /\ ~HasExpression(call.op)
Carries(place, name) == \E i \in call.items : i.in = place /\ i.name = name

\* Of two parameters of one place that share an identifier the earlier one is
\* lost, and one of a placeholder that is not there has nowhere to go: the
\* properties below allow it.
Shadowed(i) ==
    \E j \in DOMAIN call.params :
        /\ j > i
        /\ call.params[j].in = call.params[i].in
        /\ SameIdentifier(call.params[i], call.params[j])
Reaches(i) ==
    LET p == call.params[i]
    IN  Carries(p.in, p.name) \/ Shadowed(i) \/ (p.in = "path" /\ p.name \notin call.op.placeholders)

\* What a resource's URI cannot carry is not needed to read it.
ResourcesCanBeRead ==
    Passes /\ call.kind = "resource" =>
        \A i \in DOMAIN call.params : call.params[i].required => Reaches(i)

\* Every argument reaches its parameter's location under the name the spec gives
\* it, wherever else that name or identifier occurs.  (Cookies have no location:
\* they are advertised and never sent, _shared.py:242.)
ArgumentsArrive ==
    Passes =>
        \A i \in DOMAIN call.params :
            LET p == call.params[i]
            IN  p.visible /\ p.in \in Places /\ Clean[p.name] \in call.given => Reaches(i)

\* What the author hid goes out with the author's value or not at all, through
\* static tools, unless what the caller sees has its identifier.  (Through
\* call_operation a caller may name it: no schema forbids an argument it does not
\* list.)
HiddenStaysTheAuthors ==
    Going /\ server.style = "static" /\ call.kind = "tool" =>
        \A i \in call.items :
            LET bearers == {p \in Range(call.params) : Clean[p.name] = i.from}
            IN  bearers # {} /\ (\A p \in bearers : ~p.visible) => i.from \in call.defaults

\* No request is sent with a placeholder in its path that the spec declares a
\* parameter for, unless the author made optional what a caller sees under that
\* parameter's identifier, be it the parameter or another one.  (Of names that
\* \w+ matches: others the check of _shaping.py:135 does not see.)
NoPlaceholderLeft ==
    Passes =>
        \A n \in call.op.placeholders \cap Plain \cap Filled(call.op.params) :
            \/ Carries("path", n)
            \/ \E i \in DOMAIN call.params :
                   /\ call.params[i].name = n /\ call.params[i].in = "path"
                   /\ \/ Shadowed(i)
                      \/ \E p \in Advertised(call.params) :
                             SameIdentifier(p, call.params[i]) /\ ~p.required
=============================================================================
