-------------------------- MODULE SchemaExpansion --------------------------
(***************************************************************************)
(* How parse_spec makes the schemas of a spec self-contained (openapi.py): *)
(* a $ref to a component becomes a reference to its entry in `defs`, which *)
(* all operations share; what a reference cannot stand for (an allOf       *)
(* branch, a request body, the middle of a component) is expanded in       *)
(* place.                                                                  *)
(*                                                                         *)
(* The recursion of _expand_schema, _expand_inline and _deep_merge is a    *)
(* `program`: the calls still to make and what is to be done with what     *)
(* they return, the next one first.  The dicts they make are in `heap`,    *)
(* for they are shared and, while they are being made, written to.         *)
(*                                                                         *)
(* Of a schema its $ref, allOf, required and what is inside it are kept: a *)
(* field is a property, a keyword whose value is a schema, or one whose    *)
(* value is a list of them (oneOf, anyOf, prefixItems), taken as one.      *)
(***************************************************************************)
EXTENDS Naturals, Sequences, Functions

CONSTANTS None, Components, Fields,
          Lists,            \* the fields that are lists of schemas
          Schemas,          \* the schemas that occur inside others
          Documents,        \* the components' schemas, and those of the places
          Places,           \* where operations hold a schema
          RecursionLimit    \* how deep a merge may go

VARIABLES
    document,     \* components and places
    heap,         \* the dicts made so far
    defs,         \* the entries there are, by component
    expanded,     \* the places done
    place,        \* the one being expanded, or None
    program,
    result,       \* the dict the last call returned
    raised        \* a RecursionError ended it

vars == <<document, heap, defs, expanded, place, program, result, raised>>

\* A pointer is to a component, to the middle of one, or, afterwards, to an entry.
ToComponent(c) == [kind |-> "component", name |-> c, field |-> None]
ToField(c, f) == [kind |-> "field", name |-> c, field |-> f]
ToEntry(c) == [kind |-> "entry", name |-> c, field |-> None]
Pointers == {ToComponent(c) : c \in Components} \cup {ToField(c, f) : c \in Components, f \in Fields}

NoProps == [f \in {} |-> None]
Empty == [ref |-> None, all |-> None, props |-> NoProps, req |-> {}, mark |-> None]

\* The properties of a schema of the spec are schemas, those of a dict made are
\* dicts made.
SomeOf(D, R) == UNION {[E -> R] : E \in SUBSET D}
IsSource(s) ==
    /\ s = [ref |-> s.ref, all |-> s.all, props |-> s.props, req |-> s.req, mark |-> None]
    /\ s.ref \in Pointers \cup {None}
    /\ s.all = None \/ s.all \in Seq(Schemas)
    /\ s.props \in SomeOf(Fields, Schemas)
    /\ s.req \in SUBSET Fields

\* The branches of a schema, and all that is directly inside it.
BranchesOf(s) == IF s.all = None THEN {} ELSE Range(s.all)
PartsOf(s) == BranchesOf(s) \cup Range(s.props)

\* (A schema is a finite text: of any there are, one has none of them in it.)
ASSUME DocumentsAssumption ==
    /\ None \notin Components \cup Fields \cup Places \cup {"cut", "lost"}
    /\ RecursionLimit \in Nat /\ Lists \subseteq Fields
    /\ \A s \in Schemas : IsSource(s)
    /\ \A some \in SUBSET Schemas : some # {} => \E s \in some : PartsOf(s) \cap some = {}
    /\ \A d \in Documents :
          /\ DOMAIN d.components \subseteq Components
          /\ \A c \in DOMAIN d.components : IsSource(d.components[c])
          /\ \A p \in Places : IsSource(d.places[p].schema)

\* _EXPANDING is a dict of its own, told from others by its identity.
Expanding == 1
Sentinel == [Empty EXCEPT !.mark = "expanding"]

\* _resolve_ref, which does not look into lists.
Resolve(pointer) ==
    IF pointer.name \notin DOMAIN document.components THEN Empty
    ELSE LET s == document.components[pointer.name]
         IN  IF pointer.kind = "component" THEN s
             ELSE IF pointer.field \in DOMAIN s.props \ Lists THEN s.props[pointer.field] ELSE Empty

Siblings(s) == [s EXCEPT !.ref = None]
Blank(s) == [s EXCEPT !.mark = None] = Empty

\* _truncate_at_cycle.  A mark remembers it for the properties.
Cut(s) == [Empty EXCEPT !.req = s.req, !.mark = "cut"]

WithKey(f, k, v) == [j \in DOMAIN f \cup {k} |-> IF j = k THEN v ELSE f[j]]

-----------------------------------------------------------------------------
\* What a program is made of.  A call returns a dict; what comes after it in the
\* program works on that.
Expand(s, path) == [do |-> "expand", schema |-> s, path |-> path]
Inline(s, path) == [do |-> "inline", schema |-> s, path |-> path]
Return(a) == [do |-> "return", node |-> a]
Merge(base, depth) == [do |-> "merge", base |-> base, depth |-> depth]      \* with the result
Join(base, depth) == [do |-> "join", base |-> base, depth |-> depth]        \* likewise, both opened
And(calls, how, depth) == [do |-> "and", calls |-> calls, how |-> how, depth |-> depth]
Store(c) == [do |-> "store", entry |-> c]
Refer(c) == [do |-> "refer", entry |-> c]
Branches(left, path) == [do |-> "branches", left |-> left, path |-> path]

\* The dict a, of which `todo` is still to be put in; the result is for its `field`.
Build(a, field, todo) == [do |-> "build", node |-> a, field |-> field, todo |-> todo]

Now == Head(program)
Doing(what) == place # None /\ ~raised /\ program # <<>> /\ Now.do = what
Then(calls) == program' = calls \o Tail(program)

New == Len(heap) + 1
Make(s) == heap' = Append(heap, s)

Init ==
    /\ document \in Documents
    /\ heap = <<Sentinel>> /\ result = Expanding
    /\ defs = NoProps /\ expanded = NoProps
    /\ place = None /\ program = <<>> /\ raised = FALSE

-----------------------------------------------------------------------------
\* _expand_schema.  A component is expanded once, into an entry reserved first.
\* (A definition marked "variant" is a slip of the one after it, kept to show
\* which property notices.)
PathCarriedOver(path) == path                                       \* variant
PathOfEntry(path) == {}

ExpandReference ==
    LET s == Now.schema
        c == s.ref.name
        beside == <<Expand(Siblings(s), Now.path), Refer(c)>>
    IN  /\ Doing("expand")
        /\ s.ref # None /\ s.ref.kind = "component"
        /\ IF c \in DOMAIN defs
             THEN Then(beside) /\ UNCHANGED defs
             ELSE /\ defs' = WithKey(defs, c, Expanding)
                  /\ Then(<<Inline([Empty EXCEPT !.ref = s.ref], PathOfEntry(Now.path)), Store(c)>> \o beside)
        /\ UNCHANGED <<document, heap, expanded, place, result, raised>>

StoreEntry ==
    /\ Doing("store")
    /\ defs' = WithKey(defs, Now.entry, result)
    /\ Then(<<>>)
    /\ UNCHANGED <<document, heap, expanded, place, result, raised>>

\* What stands beside a reference stays beside it.
Beside(s, c) == [s EXCEPT !.ref = IF @ = None THEN ToEntry(c) ELSE @]

ReferToEntry ==
    /\ Doing("refer")
    /\ Make(Beside(heap[result], Now.entry))
    /\ result' = New
    /\ Then(<<>>)
    /\ UNCHANGED <<document, defs, expanded, place, raised>>

ExpandElsewhere ==
    /\ Doing("expand")
    /\ Now.schema.ref # None /\ Now.schema.ref.kind = "field"
    /\ Then(<<Inline(Now.schema, Now.path)>>)
    /\ UNCHANGED <<document, heap, defs, expanded, place, result, raised>>

\* What stands beside an allOf is dropped.
ExpandAllOf ==
    /\ Doing("expand")
    /\ Now.schema.ref = None /\ Now.schema.all # None
    /\ Make(Empty)
    /\ result' = New
    /\ Then(<<Branches(Now.schema.all, Now.path)>>)
    /\ UNCHANGED <<document, defs, expanded, place, raised>>

NextBranch ==
    /\ Doing("branches")
    /\ IF Now.left = <<>>
         THEN Then(<<>>)
         ELSE Then(<<Inline(Head(Now.left), Now.path), Merge(result, 0), Branches(Tail(Now.left), Now.path)>>)
    /\ UNCHANGED <<document, heap, defs, expanded, place, result, raised>>

\* map_subschemas: a copy, in which each property gives way to its expansion.
ExpandNested ==
    LET s == Now.schema
    IN  /\ Doing("expand")
        /\ s.ref = None /\ s.all = None
        /\ Make([s EXCEPT !.props = NoProps])
        /\ Then(<<Build(New, None, [f \in DOMAIN s.props |-> <<Expand(s.props[f], Now.path)>>])>>)
        /\ UNCHANGED <<document, defs, expanded, place, result, raised>>

NextField ==
    /\ Doing("build")
    /\ Now.field = None
    /\ \E f \in DOMAIN Now.todo :
          Then(Now.todo[f] \o <<Build(Now.node, f, Restrict(Now.todo, DOMAIN Now.todo \ {f}))>>)
    /\ UNCHANGED <<document, heap, defs, expanded, place, result, raised>>

PutField ==
    /\ Doing("build")
    /\ Now.field # None
    /\ heap' = [heap EXCEPT ![Now.node].props = WithKey(@, Now.field, result)]
    /\ Then(<<Build(Now.node, None, Now.todo)>>)
    /\ UNCHANGED <<document, defs, expanded, place, result, raised>>

LastField ==
    /\ Doing("build")
    /\ Now.field = None /\ DOMAIN Now.todo = {}
    /\ result' = Now.node
    /\ Then(<<>>)
    /\ UNCHANGED <<document, heap, defs, expanded, place, raised>>

-----------------------------------------------------------------------------
\* _expand_inline: `path` has the pointers being resolved in place on the way here.
InlinePlain ==
    /\ Doing("inline")
    /\ Now.schema.ref = None
    /\ Then(<<Expand(Now.schema, Now.path)>>)
    /\ UNCHANGED <<document, heap, defs, expanded, place, result, raised>>

InlineReference ==
    LET s == Now.schema
        beside == IF Blank(Siblings(s)) THEN <<>> ELSE <<And(<<Expand(Siblings(s), Now.path)>>, "merge", 0)>>
    IN  /\ Doing("inline")
        /\ s.ref # None
        /\ IF s.ref \in Now.path
             THEN /\ Make(Cut(Resolve(s.ref)))
                  /\ result' = New
                  /\ Then(beside)
             ELSE /\ Then(<<Inline(Resolve(s.ref), Now.path \cup {s.ref})>> \o beside)
                  /\ UNCHANGED <<heap, result>>
        /\ UNCHANGED <<document, defs, expanded, place, raised>>

\* Keep what was returned, and combine it with what the calls return.
ThenCombine ==
    /\ Doing("and")
    /\ Then(Now.calls \o <<[do |-> Now.how, base |-> result, depth |-> Now.depth]>>)
    /\ UNCHANGED <<document, heap, defs, expanded, place, result, raised>>

ReturnDict ==
    /\ Doing("return")
    /\ result' = Now.node
    /\ Then(<<>>)
    /\ UNCHANGED <<document, heap, defs, expanded, place, raised>>

-----------------------------------------------------------------------------
\* _deep_merge with its _open_reference.
OpensUnfinished(s, other) ==                                        \* variant
    /\ s.ref # None /\ ~Blank(other) /\ other.ref # s.ref
    /\ s.ref.name \in DOMAIN defs
Opens(s, other) ==
    /\ s.ref # None /\ ~Blank(other) /\ other.ref # s.ref
    /\ s.ref.name \in DOMAIN defs
    /\ defs[s.ref.name] # Expanding

\* An opened dict is its entry merged with what stands beside the reference.
MergeOpens ==
    LET base == heap[Now.base]
        over == heap[result]
        Opened(a, opens, siblings) ==
            IF opens THEN <<Return(siblings), Merge(defs[heap[a].ref.name], Now.depth + 1)>>
            ELSE <<Return(a)>>
    IN  /\ Doing("merge")
        /\ Now.depth <= RecursionLimit
        /\ Opens(base, over) \/ Opens(over, base)
        /\ heap' = heap \o <<Siblings(base), Siblings(over)>>
        /\ Then(Opened(Now.base, Opens(base, over), New)
                \o <<And(Opened(result, Opens(over, base), New + 1), "join", Now.depth)>>)
        /\ UNCHANGED <<document, defs, expanded, place, result, raised>>

MergeAsTheyAre ==
    /\ Doing("merge")
    /\ Now.depth <= RecursionLimit
    /\ ~Opens(heap[Now.base], heap[result]) /\ ~Opens(heap[result], heap[Now.base])
    /\ Then(<<Join(Now.base, Now.depth)>>)
    /\ UNCHANGED <<document, heap, defs, expanded, place, result, raised>>

MergeTooDeep ==
    /\ Doing("merge")
    /\ Now.depth > RecursionLimit
    /\ raised' = TRUE
    /\ UNCHANGED <<document, heap, defs, expanded, place, program, result>>

OverridingRequired(base, over) == IF over.req = {} THEN base.req ELSE over.req   \* variant
RequiredOf(base, over) == base.req \cup over.req

\* Key by key; a list replaces the other one, two dicts of one name are merged in
\* turn.
Merges(base, over) == (DOMAIN base.props \cap DOMAIN over.props) \ Lists
Joined(base, over) ==
    [ref |-> IF over.ref # None THEN over.ref ELSE base.ref,
     all |-> IF over.all # None THEN over.all ELSE base.all,
     props |-> [f \in DOMAIN base.props \cup DOMAIN over.props |->
                   IF f \in DOMAIN over.props \ Merges(base, over) THEN over.props[f] ELSE base.props[f]],
     req |-> RequiredOf(base, over),
     mark |-> IF base.ref # None /\ over.ref # None /\ base.ref # over.ref THEN "lost"
              ELSE IF over.mark # None THEN over.mark ELSE base.mark]

\* It is a copy of the base that is written to.
NoCopy(a) == a                                                      \* variant
CopyOf(a) == New

JoinDicts ==
    LET base == heap[Now.base]
        over == heap[result]
        copy == CopyOf(Now.base)
    IN  /\ Doing("join")
        /\ heap' = WithKey(heap, copy, Joined(base, over))
        /\ Then(<<Build(copy, None, [f \in Merges(base, over) |->
                                       <<Return(over.props[f]), Merge(base.props[f], Now.depth + 1)>>])>>)
        /\ UNCHANGED <<document, defs, expanded, place, result, raised>>

-----------------------------------------------------------------------------
\* parse_spec comes to a place: a parameter's schema, or a body's, which is
\* resolved in place.
ExpandPlace(p) ==
    LET s == document.places[p].schema
    IN  /\ place = None
        /\ p \notin DOMAIN expanded
        /\ place' = p
        /\ program' = <<IF document.places[p].body THEN Inline(s, {}) ELSE Expand(s, {})>>
        /\ UNCHANGED <<document, heap, defs, expanded, result, raised>>

PlaceDone ==
    /\ place # None /\ ~raised
    /\ program = <<>>
    /\ expanded' = WithKey(expanded, place, result)
    /\ place' = None
    /\ UNCHANGED <<document, heap, defs, program, result, raised>>

ExpandSchema == ExpandReference \/ StoreEntry \/ ReferToEntry \/ ExpandElsewhere \/ ExpandAllOf \/ NextBranch
Fill == ExpandNested \/ NextField \/ PutField \/ LastField
InPlace == InlinePlain \/ InlineReference \/ ThenCombine \/ ReturnDict
DeepMerge == MergeOpens \/ MergeAsTheyAre \/ MergeTooDeep \/ JoinDicts

Next == (\E p \in Places : ExpandPlace(p)) \/ PlaceDone \/ ExpandSchema \/ Fill \/ InPlace \/ DeepMerge

Spec == Init /\ [][Next]_vars

-----------------------------------------------------------------------------
\* What is shown is whole: every reference is to an entry there is, none of which
\* is still being expanded, and nothing of the spec's own pointers and allOf is
\* left, in any dict ever made.
Made == DOMAIN heap \ {Expanding}

NothingDangles ==
    place = None =>
        /\ \A a \in Made :
              LET s == heap[a]
              IN  /\ s.all = None /\ s.mark \in {None, "cut", "lost"}
                  /\ s.ref # None => s.ref.kind = "entry" /\ s.ref.name \in DOMAIN defs
                  /\ Range(s.props) \subseteq Made
        /\ Range(defs) \cup Range(expanded) \subseteq Made

\* "each component is expanded once however many operations reach it"
\* (openapi.py:510): operations hold on to the entries they were parsed with.
\* Nor is a dict anybody holds written to any more: merging copies what it merges
\* (openapi.py:293).
Held == Range(defs) \cup Range(expanded) \cup {result} \cup UNION {Range(heap[a].props) : a \in DOMAIN heap}

EntriesStay ==
    [][/\ \A c \in DOMAIN defs : c \in DOMAIN defs' /\ (defs[c] # Expanding => defs'[c] = defs[c])
       /\ \A a \in Held : heap'[a] = heap[a]]_vars

\* The pointers that stand in place in a schema: those to the middle of a
\* component, and those of an allOf's branches.
RefOf(s) == IF s.ref = None THEN {} ELSE {s.ref}
Within(inside, s) ==
    {r \in RefOf(s) : r.kind = "field"}
    \cup (UNION {RefOf(t) : t \in BranchesOf(s)})
    \cup (UNION {inside[t] : t \in PartsOf(s)})
InPlaceIn[s \in Schemas] == Within(InPlaceIn, s)

\* Those in what a pointer resolves to.
After(pointer) == RefOf(Resolve(pointer)) \cup Within(InPlaceIn, Resolve(pointer))

\* A schema is cut where it "can only be described by inlining itself"
\* (openapi.py:391) and nowhere else: recursion through references is kept whole.
\* (Some pointers lead in place from each of them to another.)
CutOnlyInPlace ==
    (\E a \in Made : heap[a].mark = "cut") =>
        \E loop \in (SUBSET Pointers) \ {{}} : \A p \in loop : After(p) \cap loop # {}

\* "a component that refers to itself needs no truncation, since the reference
\* stops at its own entry" (openapi.py:500): parsing ends.
ExpansionEnds == ~raised
=============================================================================
