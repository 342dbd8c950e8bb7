--------------------------- MODULE ToolCallsProofs ---------------------------
(***************************************************************************)
(* Proofs about ToolCalls: what a server exposes and whose value a request *)
(* carries, for any spec, settings and names.                              *)
(***************************************************************************)
EXTENDS ToolCalls, TLAPS, SequenceTheorems, WellFoundedInduction

-----------------------------------------------------------------------------
\* Among the positions of a list there is a first,
LEMMA Least ==
    ASSUME NEW T \in SUBSET Nat, T # {}
    PROVE  \E m \in T : \A k \in T : m <= k
<1> DEFINE Smaller == {ss \in Nat \X Nat : ss[1] < ss[2]}
<1>1. IsWellFoundedOn(Smaller, Nat)
  BY NatLessThanWellFounded DEF OpToRel
<1>2. PICK m \in T : \A k \in T : ~(<<k, m>> \in Smaller)
  <2> HIDE DEF Smaller
  <2> QED
    BY <1>1, WFMin
<1>3. \A k \in T : m <= k
  <2> SUFFICES ASSUME NEW k \in T PROVE m <= k
    OBVIOUS
  <2>1. m \in Nat /\ k \in Nat /\ <<k, m>> \in Nat \X Nat
    OBVIOUS
  <2> QED
    BY <1>2, <2>1
<1> QED
  BY <1>3

\* and, if it ends, a last one.
LEMMA Greatest ==
    ASSUME NEW n \in Nat, NEW T \in SUBSET (1..n), T # {}
    PROVE  \E m \in T : \A k \in T : k <= m
<1> DEFINE Rest == {n - k : k \in T}
<1>1. Rest \in SUBSET Nat /\ Rest # {}
  <2>1. \A k \in T : n - k \in Nat
    OBVIOUS
  <2> QED
    BY <2>1
<1>2. PICK r \in Rest : \A q \in Rest : r <= q
  BY <1>1, Least
<1>3. PICK m \in T : r = n - m
  BY <1>2
<1>4. \A k \in T : k <= m
  BY <1>2, <1>3
<1> QED
  BY <1>4

-----------------------------------------------------------------------------
\* The filter and the overrides of _register_server_bundle keep operations what
\* they are and in their order, and an override touches neither parameters nor
\* path.
LEMMA KeptSound ==
    ASSUME server \in Servers
    PROVE  /\ Len(server.operations) \in Nat
           /\ DOMAIN Kept \subseteq 1..Len(server.operations)
           /\ \A i \in DOMAIN Kept :
                 /\ server.operations[i] \in Operations
                 /\ Admitted(server.operations[i])
                 /\ Kept[i] = Override(server.operations[i])
                 /\ Kept[i].id = server.operations[i].id
                 /\ IsOperation(Kept[i])
<1>1. /\ Len(server.operations) \in Nat
      /\ DOMAIN server.operations = 1..Len(server.operations)
      /\ \A o \in Operations : IsOperation(o)
      /\ \A d \in DOMAIN server.yaml : IsTool(server.yaml[d].tool)
  BY ServersAssumption, LenProperties DEF Operations
<1>2. \A i \in DOMAIN server.operations : server.operations[i] \in Operations
  BY DEF Operations, Range
<1>3. ASSUME NEW o \in Operations PROVE Override(o).id = o.id /\ IsOperation(Override(o))
  <2>1. IsOperation(o)
    BY <1>1
  <2>2. CASE o.id \in DOMAIN server.yaml
    <3> DEFINE t == server.yaml[o.id].tool
               r == server.yaml[o.id].resource
    <3>1. Override(o) = [o EXCEPT !.tool = t, !.resource = r]
      BY <2>2 DEF Override
    <3>2. Override(o) = [id |-> o.id, name |-> o.name, method |-> o.method,
                         placeholders |-> o.placeholders, params |-> o.params,
                         tool |-> t, resource |-> r]
      <4> HIDE DEF t, r
      <4> QED
        BY <2>1, <3>1 DEF IsOperation
    <3>3. IsTool(t)
      BY <1>1, <2>2
    <3> HIDE DEF t, r
    <3> QED
      BY <2>1, <3>2, <3>3 DEF IsOperation
  <2>3. CASE o.id \notin DOMAIN server.yaml
    BY <2>1, <2>3 DEF Override
  <2> QED
    BY <2>2, <2>3
<1> QED
  BY <1>1, <1>2, <1>3 DEF Kept

\* Every name of Tools has a schema and an operation behind it, each of an
\* operation that was kept to be a tool of that name (ToolGenerator.register).
LEMMA ToolsSound ==
    ASSUME server \in Servers
    PROVE  /\ \A n \in DOMAIN Tools :
                 /\ \E i \in DOMAIN Kept : Tools[n].schema = Kept[i] /\ AsTool(Kept[i]) /\ Name(Kept[i]) = n
                 /\ \E i \in DOMAIN Kept : Tools[n].does = Kept[i] /\ AsTool(Kept[i]) /\ Name(Kept[i]) = n
           /\ \A i \in DOMAIN Kept : AsTool(Kept[i]) => Name(Kept[i]) \in DOMAIN Tools
<1>1. ASSUME NEW n \in DOMAIN Tools PROVE Max(Named(n)) \in Named(n) /\ Min(Named(n)) \in Named(n)
  <2>1. Named(n) # {}
    BY <1>1 DEF Tools, Named, Range
  <2>2. Len(server.operations) \in Nat /\ Named(n) \subseteq 1..Len(server.operations)
    BY KeptSound DEF Named
  <2>3. \E m \in Named(n) : \A k \in Named(n) : k <= m
    BY <2>1, <2>2, Greatest
  <2>4. \E m \in Named(n) : \A k \in Named(n) : m <= k
    BY <2>1, <2>2, Least
  <2>5. Max(Named(n)) \in Named(n)
    <3>1. \E m \in Named(n) : \A k \in Named(n) : m >= k
      BY <2>2, <2>3
    <3> QED
      BY <3>1 DEF Max
  <2> QED
    BY <2>4, <2>5 DEF Min
<1>2. ASSUME NEW n \in DOMAIN Tools
      PROVE  /\ \E i \in Named(n) : Tools[n].schema = Kept[i]
             /\ \E i \in Named(n) : Tools[n].does = Kept[i]
  BY <1>1 DEF Tools
<1>3. \A i \in DOMAIN Kept : AsTool(Kept[i]) => Name(Kept[i]) \in DOMAIN Tools
  BY DEF Tools, Range
<1> QED
  BY <1>2, <1>3 DEF Named

-----------------------------------------------------------------------------
\* What was exposed is what the settings say, once nothing was refused.
Exposed ==
    /\ server \in Servers
    /\ phase \in {"configured", "serving", "refused"}
    /\ phase = "serving" => ~Refused /\ tools = Tools /\ Resources(resources)
    /\ phase # "serving" => tools = NoTools /\ resources = {}

\* A call is the record Started makes, of an operation that is exposed.
IsCall ==
    /\ call = [kind |-> call.kind, op |-> call.op, params |-> call.params, given |-> call.given,
               defaults |-> call.defaults, step |-> call.step, error |-> call.error,
               items |-> call.items]
    /\ call.op \in Range(Kept)
    /\ call.kind \in {"tool", "resource"}
    /\ call.step \in {"resolving", "sent", "answered"}
    /\ call.given \subseteq Range(Clean)
    /\ call.error \in BOOLEAN

\* What a caller of a static tool has given is advertised, what was to be given
\* is there, and the author's values fill in for the rest.
Asked ==
    /\ call.kind = "tool" =>
          /\ call.params = Shaped(call.op) /\ Shaped(call.op) # None
          /\ server.style = "static" => call.given \subseteq Properties(call.params)
          /\ call.step # "answered" => Required(call.params) \subseteq call.given
          /\ call.defaults = Defaulted(call.params) \ call.given
    /\ call.kind = "resource" =>
          /\ call.params = call.op.params /\ Eligible(call.op)
          /\ call.given = {Clean[n] : n \in Filled(call.params)}
          /\ call.defaults = {}

\* The request is made of the call's values, and of nothing before it is made.
Requested ==
    /\ call.step = "resolving" => call.items = {}
    /\ call.step = "sent" => call.items = Sent(call.op, call.params, call.given \cup call.defaults)
    /\ \A i \in call.items : i.in \in Places /\ i.from \in call.given \cup call.defaults

IInv == Exposed /\ (call # None => IsCall /\ Asked /\ Requested)

-----------------------------------------------------------------------------
\* Each place's items are made of values the call has, whichever way they went
\* (_build_upstream_closure, _route_upstream_object).
LEMMA SentIsGiven ==
    ASSUME NEW o, NEW params, NEW values
    PROVE  \A i \in Sent(o, params, values) : i.in \in Places /\ i.from \in values
<1>1. \A i \in Passed(o, params, values) : i.in \in Places /\ i.from \in values
  BY DEF Passed, Present, Item, Keyed
<1>2. \A i \in Routed(o, params, values) : i.in \in Places /\ i.from \in values
  <2> SUFFICES ASSUME NEW i \in Routed(o, params, values) PROVE i.in \in Places /\ i.from \in values
    OBVIOUS
  <2>1. PICK k \in DOMAIN o.tool.request :
           /\ o.tool.request[k] \in values
           /\ i.from = o.tool.request[k]
           /\ i.in \in {"path", "header", "body", "query"}
    BY DEF Routed, Item
  <2> QED
    BY <2>1 DEF Places
<1> QED
  BY <1>1, <1>2 DEF Sent

\* What is exposed depends on nothing but the settings and the spec.
LEMMA SettingsDecide ==
    ASSUME server' = server
    PROVE  Kept' = Kept /\ Tools' = Tools /\ AsResources' = AsResources /\ (Refused' <=> Refused)
BY DEF Tools, AsResources, Refused, Kept, Named, AsTool, AsResource, Name, Admitted, Override

\* _register_server_bundle either refuses or exposes all at once.
LEMMA ExposeStep ==
    ASSUME IInv, Expose
    PROVE  IInv'
<1>1. server' = server /\ call' = call
  BY DEF Expose
<1>2. Kept' = Kept /\ Tools' = Tools /\ AsResources' = AsResources /\ (Refused' <=> Refused)
  BY <1>1, SettingsDecide
<1>3. Exposed'
  BY <1>1, <1>2 DEF Expose, Exposed, Resources, IInv
<1>4. call # None => (IsCall /\ Asked /\ Requested)'
  BY <1>1, <1>2 DEF IInv, IsCall, Asked, Requested
<1> QED
  BY <1>1, <1>3, <1>4 DEF IInv

\* A call changes nothing of what is exposed.
LEMMA CallKeepsExposed ==
    ASSUME IInv, UNCHANGED <<server, phase, tools, resources>>
    PROVE  Exposed' /\ Kept' = Kept
<1>1. Kept' = Kept /\ Tools' = Tools /\ AsResources' = AsResources /\ (Refused' <=> Refused)
  BY SettingsDecide
<1> QED
  BY <1>1 DEF IInv, Exposed, Resources

\* A tool's caller may leave out what is not required (_build_tool_signature).
LEMMA CallToolStep ==
    ASSUME IInv, NEW n \in DOMAIN tools, NEW arguments \in SUBSET Range(Clean), CallTool(n, arguments)
    PROVE  IInv'
<1> DEFINE o == tools[n].does
           params == Shaped(o)
           given == IF server.style = "static" THEN arguments \cap Properties(params) ELSE arguments
<1>1. /\ call' = Started("tool", o, params, given, Defaulted(params) \ given, Refuses(params, given))
      /\ UNCHANGED <<server, phase, tools, resources>> /\ phase = "serving"
  BY DEF CallTool
<1>2. o \in Range(Kept) /\ params # None
  <2>1. server \in Servers /\ tools = Tools /\ ~Refused
    BY <1>1 DEF IInv, Exposed
  <2>2. PICK i \in DOMAIN Kept : o = Kept[i] /\ AsTool(Kept[i])
    BY <2>1, ToolsSound
  <2> QED
    BY <2>1, <2>2 DEF Refused, Range
<1>3. given \subseteq arguments /\ (server.style = "static" => given \subseteq Properties(params))
  OBVIOUS
<1> HIDE DEF o, params, given
<1>4. Exposed' /\ Kept' = Kept
  BY <1>1, CallKeepsExposed
<1>5. call' = [kind |-> "tool", op |-> o, params |-> params, given |-> given,
               defaults |-> Defaulted(params) \ given,
               step |-> IF Refuses(params, given) THEN "answered" ELSE "resolving",
               error |-> Refuses(params, given), items |-> {}]
  BY <1>1 DEF Started
<1>6. IsCall'
  BY <1>2, <1>3, <1>4, <1>5 DEF IsCall, Refuses
<1>7. Asked'
  <2>1. params = Shaped(o)
    BY DEF params
  <2>2. call'.step # "answered" => Required(params) \subseteq given
    BY <1>5 DEF Refuses
  <2>3. /\ call'.kind = "tool" /\ call'.op = o /\ call'.params = params /\ call'.given = given
        /\ call'.defaults = Defaulted(params) \ given
    BY <1>5
  <2> QED
    BY <1>1, <1>2, <1>3, <2>1, <2>2, <2>3 DEF Asked
<1>8. Requested'
  BY <1>5 DEF Requested, Range
<1> QED
  BY <1>4, <1>6, <1>7, <1>8 DEF IInv

\* A resource's URI gives all its path parameters (derive_resource_uri).
LEMMA ReadResourceStep ==
    ASSUME IInv, NEW o \in resources, ReadResource(o)
    PROVE  IInv'
<1> DEFINE given == {Clean[n] : n \in Filled(o.params)}
<1>1. /\ call' = Started("resource", o, o.params, given, {}, FALSE)
      /\ UNCHANGED <<server, phase, tools, resources>> /\ phase = "serving"
  BY DEF ReadResource
<1>2. o \in Range(Kept) /\ Eligible(o)
  BY <1>1 DEF IInv, Exposed, Resources, AsResources, Refused, AsResource
<1>3. given \subseteq Range(Clean)
  <2>1. IsOperation(o)
    BY <1>2, KeptSound DEF IInv, Exposed, Range
  <2>2. \A p \in Range(o.params) : p.name \in DOMAIN Clean
    BY <2>1 DEF IsOperation, SpecParameter
  <2> QED
    BY <2>2 DEF Filled, Range
<1> HIDE DEF given
<1>4. Exposed' /\ Kept' = Kept
  BY <1>1, CallKeepsExposed
<1>5. call' = [kind |-> "resource", op |-> o, params |-> o.params, given |-> given,
               defaults |-> {}, step |-> "resolving", error |-> FALSE, items |-> {}]
  BY <1>1 DEF Started
<1>6. IsCall'
  BY <1>2, <1>3, <1>4, <1>5 DEF IsCall
<1>7. Asked'
  BY <1>2, <1>5 DEF Asked, given
<1>8. Requested'
  BY <1>5 DEF Requested, Range
<1> QED
  BY <1>4, <1>6, <1>7, <1>8 DEF IInv

\* What is sent is made of the values the call has (_build_upstream_closure).
LEMMA SendStep ==
    ASSUME IInv, Send
    PROVE  IInv'
<1> DEFINE values == call.given \cup call.defaults
           items == Sent(call.op, call.params, values)
<1>1. /\ call' = [call EXCEPT !.step = "sent", !.items = items]
      /\ UNCHANGED <<server, phase, tools, resources>>
      /\ call # None /\ call.step = "resolving"
  BY DEF Send
<1>2. IsCall /\ Asked /\ Requested
  BY <1>1 DEF IInv
<1>3. Exposed' /\ Kept' = Kept
  BY <1>1, CallKeepsExposed
<1>4. \A i \in items : i.in \in Places /\ i.from \in values
  BY SentIsGiven
<1>5. call' = [kind |-> call.kind, op |-> call.op, params |-> call.params, given |-> call.given,
               defaults |-> call.defaults, step |-> "sent", error |-> call.error, items |-> items]
  <2> HIDE DEF items
  <2> QED
    BY <1>1, <1>2 DEF IsCall
<1>6. Requested'
  <2>1. items = Sent(call.op, call.params, call.given \cup call.defaults)
    OBVIOUS
  <2>2. call'.items = Sent(call'.op, call'.params, call'.given \cup call'.defaults)
    <3> HIDE DEF items
    <3> QED
      BY <1>5, <2>1
  <2> HIDE DEF items
  <2>3. /\ call'.step = "sent" /\ call'.items = items
        /\ call'.given = call.given /\ call'.defaults = call.defaults
    BY <1>5
  <2> QED
    BY <1>4, <2>2, <2>3 DEF Requested
<1> HIDE DEF items
<1>7. IsCall'
  BY <1>2, <1>3, <1>5 DEF IsCall
<1>8. Asked'
  BY <1>1, <1>2, <1>5 DEF Asked
<1> QED
  BY <1>3, <1>6, <1>7, <1>8 DEF IInv

\* An answer or a failure ends a call and leaves what was sent as it was.
LEMMA EndStep ==
    ASSUME IInv, call # None, NEW error \in BOOLEAN,
           call' = [call EXCEPT !.step = "answered", !.error = error],
           UNCHANGED <<server, phase, tools, resources>>
    PROVE  IInv'
<1>1. IsCall /\ Asked /\ Requested
  BY DEF IInv
<1>2. Exposed' /\ Kept' = Kept
  BY CallKeepsExposed
<1>3. call' = [kind |-> call.kind, op |-> call.op, params |-> call.params, given |-> call.given,
               defaults |-> call.defaults, step |-> "answered", error |-> error,
               items |-> call.items]
  BY <1>1 DEF IsCall
<1>4. IsCall'
  BY <1>1, <1>2, <1>3 DEF IsCall
<1>5. Asked' /\ Requested'
  BY <1>1, <1>3 DEF Asked, Requested
<1> QED
  BY <1>2, <1>4, <1>5 DEF IInv

\* What a server exposes is what its settings say, and every value a call sends
\* is accounted for, from its start to its end.
THEOREM Inductive == Spec => []IInv
<1>1. Init => IInv
  BY DEF Init, IInv, Exposed
<1>2. IInv /\ [Next]_vars => IInv'
  <2> SUFFICES ASSUME IInv, [Next]_vars PROVE IInv'
    OBVIOUS
  <2>1. CASE UNCHANGED vars
    <3>1. UNCHANGED <<server, phase, tools, resources, call>>
      BY <2>1 DEF vars
    <3>2. Exposed' /\ Kept' = Kept
      BY <3>1, CallKeepsExposed
    <3> QED
      BY <3>1, <3>2 DEF IInv, IsCall, Asked, Requested
  <2>2. CASE NotSent
    <3>1. /\ call # None /\ call' = [call EXCEPT !.step = "answered", !.error = TRUE]
          /\ UNCHANGED <<server, phase, tools, resources>>
      BY <2>2 DEF NotSent
    <3> QED
      BY <3>1, EndStep, Zenon
  <2>3. ASSUME NEW outcome \in {"status", "network", "binary", "decoded"}, NEW fails \in BOOLEAN,
               Answer(outcome, fails)
        PROVE  IInv'
    <3> DEFINE error == fails \/ outcome \in {"status", "network"}
    <3>1. /\ call # None /\ call' = [call EXCEPT !.step = "answered", !.error = error]
          /\ UNCHANGED <<server, phase, tools, resources>>
      BY <2>3 DEF Answer
    <3>2. error \in BOOLEAN
      OBVIOUS
    <3> HIDE DEF error
    <3> QED
      BY <3>1, <3>2, EndStep, Zenon
  <2>4. CASE Return
    <3>1. UNCHANGED <<server, phase, tools, resources>> /\ call' = None
      BY <2>4 DEF Return
    <3> QED
      BY <3>1, CallKeepsExposed DEF IInv
  <2> QED
    BY <2>1, <2>2, <2>3, <2>4, ExposeStep, CallToolStep, ReadResourceStep, SendStep DEF Next
<1> QED
  BY <1>1, <1>2, PTL DEF Spec

\* What build_input_schema and _build_tool_signature leave out, a caller of a
\* static tool cannot set.
THEOREM HiddenAlwaysStaysTheAuthors == Spec => []HiddenStaysTheAuthors
<1>1. IInv => HiddenStaysTheAuthors
  <2> SUFFICES ASSUME IInv, Going, server.style = "static", call.kind = "tool",
                      NEW i \in call.items,
                      \A p \in {q \in Range(call.params) : Clean[q.name] = i.from} : ~p.visible
               PROVE  i.from \in call.defaults
    BY DEF HiddenStaysTheAuthors
  <2>1. i.from \notin Properties(call.params)
    BY DEF Properties, Advertised, FirstBearers, Range
  <2>2. call.given \subseteq Properties(call.params) /\ i.from \in call.given \cup call.defaults
    BY DEF IInv, Asked, Requested, Going
  <2> QED
    BY <2>1, <2>2
<1> QED
  BY <1>1, Inductive, PTL

-----------------------------------------------------------------------------
\* No tool is registered without parameters, no resource for anything but a get,
\* and what a call carries is of the kinds the code makes (TypeOK).
THEOREM TypeCorrect == Spec => []TypeOK
<1>1. IInv => TypeOK
  <2> SUFFICES ASSUME IInv PROVE TypeOK
    OBVIOUS
  <2>1. ASSUME NEW n \in DOMAIN tools
        PROVE  Shaped(tools[n].schema) # None /\ Shaped(tools[n].does) # None
    <3>1. server \in Servers /\ ~Refused /\ tools = Tools
      BY <2>1 DEF IInv, Exposed, NoTools
    <3>2. /\ \E i \in DOMAIN Kept : tools[n].schema = Kept[i] /\ AsTool(Kept[i])
          /\ \E i \in DOMAIN Kept : tools[n].does = Kept[i] /\ AsTool(Kept[i])
      BY <2>1, <3>1, ToolsSound
    <3>3. \A i \in DOMAIN Kept : AsTool(Kept[i]) => Shaped(Kept[i]) # None
      BY <3>1 DEF Refused, Range
    <3> QED
      BY <3>2, <3>3
  <2>2. \A o \in resources : o.method = "get"
    BY DEF IInv, Exposed, Resources, AsResources, Refused, AsResource, Eligible
  <2>3. call # None => call.defaults \subseteq Defaulted(call.params) \ call.given
    BY DEF IInv, IsCall, Asked
  <2> QED
    BY <2>1, <2>2, <2>3 DEF TypeOK, IInv, Exposed, IsCall, Requested
<1> QED
  BY <1>1, Inductive, PTL

\* filter_operations decides what there is to call, before and not after the
\* overrides, and what it admits is exposed under some name.
THEOREM PolicyAlwaysDecides == Spec => []ExposesWhatPolicyAdmits
<1>1. IInv => ExposesWhatPolicyAdmits
  <2> DEFINE exposed == {tools[n].does.id : n \in DOMAIN tools} \cup {o.id : o \in resources}
  <2> SUFFICES ASSUME IInv, phase = "serving"
               PROVE  /\ exposed \subseteq {o.id : o \in {p \in Operations : Admitted(p)}}
                      /\ \A o \in Operations : Admitted(o) =>
                             \/ o.id \in exposed
                             \/ \E n \in DOMAIN tools :
                                   tools[n].does.id # o.id /\ n = Name(Override(o))
                             \/ \E r \in resources : r.id # o.id /\ URI(r) = URI(Override(o))
    BY Zenon DEF ExposesWhatPolicyAdmits
  <2>1. server \in Servers /\ tools = Tools /\ Resources(resources)
    BY DEF IInv, Exposed
  <2>2. \A i \in DOMAIN Kept : Kept[i].id \in {o.id : o \in {p \in Operations : Admitted(p)}}
    BY <2>1, KeptSound
  <2>3. \A n \in DOMAIN tools : \E i \in DOMAIN Kept : tools[n].does = Kept[i]
    BY <2>1, ToolsSound
  <2>4. \A o \in resources : \E i \in DOMAIN Kept : o = Kept[i]
    BY <2>1 DEF Resources, AsResources, Range
  <2>5. ASSUME NEW o \in Operations, Admitted(o), o.id \notin exposed
        PROVE  \/ \E n \in DOMAIN tools : tools[n].does.id # o.id /\ n = Name(Override(o))
               \/ \E r \in resources : r.id # o.id /\ URI(r) = URI(Override(o))
    <3>1. PICK i \in DOMAIN server.operations : o = server.operations[i]
      BY DEF Operations, Range
    <3>2. i \in DOMAIN Kept /\ Kept[i] = Override(o) /\ Kept[i].id = o.id
      BY <2>1, <2>5, <3>1, KeptSound DEF Kept
    <3>3. CASE AsTool(Kept[i])
      <4>1. Name(Kept[i]) \in DOMAIN tools
        BY <2>1, <3>2, <3>3, ToolsSound
      <4> QED
        BY <2>5, <3>2, <4>1
    <3>4. CASE ~AsTool(Kept[i])
      <4>1. Kept[i] \in AsResources
        BY <3>2, <3>4 DEF AsTool, AsResources, Range
      <4>2. PICK r \in resources : URI(r) = URI(Kept[i])
        BY <2>1, <4>1 DEF Resources
      <4> QED
        BY <2>5, <3>2, <4>2
    <3> QED
      BY <3>3, <3>4
  <2> QED
    BY <2>2, <2>3, <2>4, <2>5
<1> QED
  BY <1>1, Inductive, PTL

-----------------------------------------------------------------------------
\* Without a request expression a value goes where its parameter is declared,
\* unless a later parameter of that place takes its identifier or the path has no
\* placeholder for it (_split_by_location, _build_upstream_closure).
LEMMA ValueReaches ==
    ASSUME IInv, Passes, NEW i \in DOMAIN call.params, call.params[i].in \in Places,
           Clean[call.params[i].name] \in call.given \cup call.defaults
    PROVE  Reaches(i)
<1> DEFINE p == call.params[i]
           values == call.given \cup call.defaults
<1> SUFFICES ASSUME ~Shadowed(i), p.in = "path" => p.name \in call.op.placeholders
             PROVE  Carries(p.in, p.name)
  BY DEF Reaches
<1>1. call.items = Passed(call.op, call.params, values)
  BY DEF IInv, Requested, Passes, Going, Sent
<1>2. p \in Keyed(call.params, p.in)
  BY DEF Keyed, Shadowed
<1>3. p \in Present(call.op, call.params, values)
  BY <1>2 DEF Present
<1>4. Item(p.in, p.name, Clean[p.name]) \in call.items
  BY <1>1, <1>3 DEF Passed
<1> QED
  BY <1>4 DEF Carries, Item

\* What _build_upstream_closure was given for a parameter, it sends as that
\* parameter.
THEOREM ArgumentsAlwaysArrive == Spec => []ArgumentsArrive
<1>1. IInv => ArgumentsArrive
  BY ValueReaches DEF ArgumentsArrive
<1> QED
  BY <1>1, Inductive, PTL

\* _resource_eligibility_problem: an operation is a resource only if its URI carries
\* all it takes to read it.
THEOREM ResourcesCanAlwaysBeRead == Spec => []ResourcesCanBeRead
<1>1. IInv => ResourcesCanBeRead
  <2> SUFFICES ASSUME IInv, Passes, call.kind = "resource",
                      NEW i \in DOMAIN call.params, call.params[i].required
               PROVE  Reaches(i)
    BY DEF ResourcesCanBeRead
  <2>1. /\ call.params = call.op.params /\ Eligible(call.op)
        /\ call.given = {Clean[n] : n \in Filled(call.params)}
    BY DEF IInv, Asked, Passes, Going
  <2>2. call.params[i] \in Range(call.params) /\ call.params[i].in = "path"
    BY <2>1 DEF Eligible, Range
  <2>3. Clean[call.params[i].name] \in call.given
    BY <2>1, <2>2 DEF Filled
  <2> QED
    BY <2>2, <2>3, ValueReaches DEF Places
<1> QED
  BY <1>1, Inductive, PTL

-----------------------------------------------------------------------------
\* shape_operation: what stays without being shown stays for its default, and,
\* without a request expression, what fills a placeholder stays.
LEMMA MergedSound ==
    ASSUME NEW params, NEW entries, DOMAIN params \subseteq Nat,
           Range(params) \subseteq SpecParameter, Range(entries) \subseteq Entry
    PROVE  /\ DOMAIN Merged(params, entries) \subseteq Nat
           /\ \A i \in DOMAIN Merged(params, entries) :
                 Merged(params, entries)[i].visible \/ Merged(params, entries)[i].default
<1> DEFINE merged == Merged(params, entries)
<1>1. DOMAIN merged \subseteq DOMAIN params
  BY DEF Merged
<1>2. ASSUME NEW i \in DOMAIN merged PROVE merged[i].visible \/ merged[i].default
  <2>1. params[i] \in SpecParameter
    BY <1>1 DEF Range
  <2>2. CASE EntriesFor(params[i], entries) = {}
    BY <2>1, <2>2 DEF Merged, SpecParameter
  <2>3. CASE EntriesFor(params[i], entries) # {}
    <3>1. PICK e \in EntriesFor(params[i], entries) : merged[i] = Adjusted(params[i], e)
      BY <2>3 DEF Merged
    <3>2. ~Dropped(params[i], e)
      BY DEF Merged
    <3>3. e \in Entry
      BY DEF EntriesFor
    <3>4. Tweak(params[i], e) \in [name : DOMAIN Clean, in : Places \cup {"cookie"},
                                   required : BOOLEAN, default : BOOLEAN, visible : BOOLEAN]
      BY <2>1, <3>3 DEF Tweak, SpecParameter, Entry
    <3>5. merged[i].visible = ~e.hidden /\ merged[i].default = Tweak(params[i], e).default
      BY <3>1, <3>4 DEF Adjusted
    <3> QED
      BY <3>2, <3>5 DEF Dropped
  <2> QED
    BY <2>2, <2>3
<1> QED
  BY <1>1, <1>2

\* The same of what a tool gets of its operation's parameters.
LEMMA ShapedSound ==
    ASSUME NEW o, IsOperation(o), Shaped(o) # None, ~HasExpression(o)
    PROVE  /\ DOMAIN Shaped(o) \subseteq Nat
           /\ \A i \in DOMAIN Shaped(o) : Shaped(o)[i].visible \/ Shaped(o)[i].default
           /\ o.placeholders \cap Plain \cap Filled(o.params) \subseteq Filled(Shaped(o))
<1>1. CASE Shaped(o) = o.params
  <2>1. \A i \in DOMAIN o.params : o.params[i] \in SpecParameter
    BY DEF IsOperation, Range
  <2> QED
    BY <1>1, <2>1 DEF IsOperation, SpecParameter
<1>2. CASE Shaped(o) # o.params
  <2>1. o.tool # None
    BY <1>2 DEF Shaped
  <2>2. o.tool.request = None
    BY <2>1 DEF HasExpression
  <2>3. Shaped(o) = Merged(o.params, o.tool.entries) /\ Unfilled(o, Shaped(o)) = {}
    BY <1>2, <2>1, <2>2 DEF Shaped
  <2>4. Range(o.tool.entries) \subseteq Entry
    BY <2>1 DEF IsOperation, IsTool
  <2> QED
    BY <2>3, <2>4, MergedSound DEF IsOperation, Unfilled
<1> QED
  BY <1>1, <1>2

\* Every identifier of a list of parameters is that of its first bearer, which is
\* all the schema can show of it (_build_tool_signature).
LEMMA HasFirstBearer ==
    ASSUME NEW params, DOMAIN params \subseteq Nat, NEW i \in DOMAIN params
    PROVE  \E b \in FirstBearers(params) : SameIdentifier(params[b], params[i])
<1> DEFINE T == {j \in DOMAIN params : SameIdentifier(params[j], params[i])}
<1>1. T # {} /\ T \in SUBSET Nat
  BY DEF SameIdentifier
<1>2. PICK b \in T : \A k \in T : b <= k
  BY <1>1, Least
<1> QED
  BY <1>2 DEF FirstBearers, SameIdentifier

\* A parameter whose identifier is asked of the caller or is the author's to fill
\* in has a value (Refuses, Defaulted).
LEMMA IsValued ==
    ASSUME IInv, Passes, call.kind = "tool", NEW i \in DOMAIN call.params,
           ~ \E p \in Advertised(call.params) : SameIdentifier(p, call.params[i]) /\ ~p.required
    PROVE  Clean[call.params[i].name] \in call.given \cup call.defaults
<1>1. /\ call.params = Shaped(call.op) /\ Shaped(call.op) # None
      /\ Required(call.params) \subseteq call.given
      /\ call.defaults = Defaulted(call.params) \ call.given
  BY DEF IInv, Asked, Passes, Going
<1>2. IsOperation(call.op) /\ ~HasExpression(call.op)
  BY KeptSound DEF IInv, Exposed, IsCall, Passes, Going, Range
<1>3. /\ DOMAIN call.params \subseteq Nat
      /\ \A j \in DOMAIN call.params : call.params[j].visible \/ call.params[j].default
  BY <1>1, <1>2, ShapedSound
<1>4. PICK b \in FirstBearers(call.params) : SameIdentifier(call.params[b], call.params[i])
  BY <1>3, HasFirstBearer
<1>5. b \in DOMAIN call.params /\ Clean[call.params[b].name] = Clean[call.params[i].name]
  BY <1>4 DEF FirstBearers, SameIdentifier
<1>6. CASE call.params[b].visible
  <2>1. call.params[b] \in Advertised(call.params)
    BY <1>4, <1>6 DEF Advertised
  <2>2. Clean[call.params[b].name] \in Required(call.params)
    BY <1>4, <2>1 DEF Required
  <2> QED
    BY <1>1, <1>5, <2>2
<1>7. CASE call.params[b].default
  <2>1. Clean[call.params[b].name] \in Defaulted(call.params)
    BY <1>5, <1>7 DEF Defaulted, Range
  <2> QED
    BY <1>1, <1>5, <2>1
<1> QED
  BY <1>3, <1>5, <1>6, <1>7

\* _shaping.py:135 and the schema's required list keep placeholders out of the
\* path that is sent.
THEOREM NoPlaceholderIsEverLeft == Spec => []NoPlaceholderLeft
<1>1. IInv => NoPlaceholderLeft
  <2> SUFFICES ASSUME IInv, Passes, NEW n \in call.op.placeholders \cap Plain \cap Filled(call.op.params)
               PROVE  \/ Carries("path", n)
                      \/ \E i \in DOMAIN call.params :
                             /\ call.params[i].name = n /\ call.params[i].in = "path"
                             /\ \/ Shadowed(i)
                                \/ \E p \in Advertised(call.params) :
                                       SameIdentifier(p, call.params[i]) /\ ~p.required
    BY DEF NoPlaceholderLeft
  <2>1. IsOperation(call.op) /\ ~HasExpression(call.op)
    BY KeptSound DEF IInv, Exposed, IsCall, Passes, Going, Range
  <2>2. n \in Filled(call.params)
    <3>1. CASE call.kind = "tool"
      <4>1. call.params = Shaped(call.op) /\ Shaped(call.op) # None
        BY <3>1 DEF IInv, Asked, Passes, Going
      <4> QED
        BY <2>1, <4>1, ShapedSound
    <3>2. CASE call.kind = "resource"
      BY <3>2 DEF IInv, Asked, Passes, Going
    <3> QED
      BY <3>1, <3>2 DEF IInv, IsCall, Passes, Going
  <2>3. PICK i \in DOMAIN call.params : call.params[i].name = n /\ call.params[i].in = "path"
    BY <2>2 DEF Filled, Range
  <2>4. ASSUME ~ \E p \in Advertised(call.params) : SameIdentifier(p, call.params[i]) /\ ~p.required
        PROVE  Clean[n] \in call.given \cup call.defaults
    <3>1. CASE call.kind = "tool"
      BY <2>3, <2>4, <3>1, IsValued
    <3>2. CASE call.kind = "resource"
      BY <2>2, <3>2 DEF IInv, Asked, Passes, Going
    <3> QED
      BY <3>1, <3>2 DEF IInv, IsCall, Passes, Going
  <2>5. Clean[n] \in call.given \cup call.defaults => Reaches(i)
    BY <2>3, ValueReaches DEF Places
  <2> QED
    BY <2>3, <2>4, <2>5 DEF Reaches
<1> QED
  BY <1>1, Inductive, PTL
=============================================================================
