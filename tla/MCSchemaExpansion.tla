------------------------- MODULE MCSchemaExpansion -------------------------
EXTENDS SchemaMeaning

CONSTANTS A, B

Ref(c) == [Empty EXCEPT !.ref = ToComponent(c)]
Object(props, req) == [Empty EXCEPT !.props = props, !.req = req]
AllOf(s, t) == [Empty EXCEPT !.all = <<s, t>>]
OfF(s) == Object([f \in {"f"} |-> s], {})
OneOf(s) == Object([f \in {"o"} |-> s], {})

Leaves == {Empty, Ref(A), Ref(B), [Empty EXCEPT !.ref = ToField(A, "f")]}
Objects == {OfF(s) : s \in Leaves}
Operands == {Ref(A), Ref(B), Object(NoProps, {"f"}), OfF(Ref(A)), OfF(Ref(B)), OfF(Empty)}
Alls == {AllOf(s, t) : s \in Operands, t \in Operands}
Besides == {[s EXCEPT !.req = {"f"}, !.props = t.props] : s \in Leaves \ {Empty}, t \in {Empty, OfF(Ref(B))}}

BesideAll == {[AllOf(s, OfF(Empty)) EXCEPT !.req = {"g"}, !.props = [f \in {"g"} |-> Empty]] : s \in {Ref(A), Ref(B)}}

\* Lists beside a reference, in two branches, and in a branch and an entry.
Choices == {OneOf(s) : s \in {Ref(A), Ref(B), OfF(Empty), Object(NoProps, {"f"})}}
OfLists ==
    Choices \cup {[s EXCEPT !.ref = ToComponent(c)] : s \in Choices, c \in {A, B}}
    \cup {AllOf(s, t) : s \in {Ref(A), Ref(B)} \cup Choices, t \in Choices}

\* A component is an object, a combination, or a name for another schema, or is
\* missing; of the second one's combinations some suffice.
Plain ==
    Leaves \cup Objects \cup Besides
    \cup {Object([f \in {"f", "g"} |-> IF f = "f" THEN s ELSE t], {"g"}) : s \in Leaves, t \in {Ref(B), AllOf(Ref(A), Empty)}}
TextsOfA == Plain \cup Alls \cup BesideAll \cup OfLists
TextsOfB == Plain \cup {AllOf(Ref(A), t) : t \in Operands} \cup {AllOf(OfF(Ref(A)), OfF(Ref(B)))}
            \cup Choices \cup {AllOf(Ref(A), t) : t \in Choices}

MCComponents ==
    {[c \in {A, B} |-> IF c = A THEN s ELSE t] : s \in TextsOfA, t \in TextsOfB} \cup {[c \in {A} |-> s] : s \in TextsOfA}

\* Whatever occurs inside another schema.
MCSchemas == Leaves \cup Operands \cup Choices \cup {AllOf(Ref(A), Empty)}

Bodies == {Ref(A), AllOf(OfF(Ref(A)), OfF(Ref(B)))}
Parameters == {Ref(B), OfF(Ref(A))}

MCDocuments ==
    {[components |-> components,
      places |-> [p \in Places |-> IF p = "body" THEN [schema |-> u, body |-> TRUE] ELSE [schema |-> v, body |-> FALSE]]] :
        components \in MCComponents, u \in Bodies, v \in Parameters}
=============================================================================
