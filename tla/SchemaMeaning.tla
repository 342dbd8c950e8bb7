--------------------------- MODULE SchemaMeaning ---------------------------
(***************************************************************************)
(* What an expanded schema has to say: what the spec's schema says.  The   *)
(* reference definition SchemaExpansion is checked against.                *)
(***************************************************************************)
EXTENDS SchemaExpansion

\* What a schema of the spec says is said by it, by what it refers to and by the
\* branches of its allOf, beside which nothing else counts (openapi.py:527) save
\* what is required where a cycle is cut (openapi.py:398).
SourceParts(s) ==
    {s} \cup (IF s.ref = None THEN {} ELSE {Resolve(s.ref)})
        \cup (IF s.all = None THEN {} ELSE {s.all[i] : i \in DOMAIN s.all})

\* A dict made says what it says itself and what its entry does.
MadeParts(s) == {s} \cup (IF s.ref = None THEN {} ELSE {heap[defs[s.ref.name]]})

RECURSIVE AllSource(_), AllMade(_)
AllSource(S) == LET T == UNION {SourceParts(s) : s \in S} IN IF T = S THEN S ELSE AllSource(T)
AllMade(S) == LET T == UNION {MadeParts(s) : s \in S} IN IF T = S THEN S ELSE AllMade(T)

FieldsOf(S) == UNION {DOMAIN s.props : s \in S}
RequiredIn(S) == UNION {s.req : s \in S}
Under(S, f) == {s.props[f] : s \in {t \in S : f \in DOMAIN t.props}}

\* The shown schema is the source's, or a part of it where something was cut.
RECURSIVE Agree(_, _, _, _)
Agree(source, shown, depth, whole) ==
    LET parts == AllSource(source)
        P == {s \in parts : s.all = None}
        Q == AllMade({heap[a] : a \in shown})
        uncut == whole /\ \A s \in Q : s.mark = None
    IN  /\ FieldsOf(Q) \subseteq FieldsOf(P) /\ RequiredIn(Q) \subseteq RequiredIn(parts)
        /\ uncut => FieldsOf(Q) = FieldsOf(P) /\ RequiredIn(Q) = RequiredIn(P)
        /\ depth > 0 => \A f \in FieldsOf(Q) :
               IF f \in Lists
                 THEN \A t \in Under(Q, f) : \E s \in Under(P, f) : Agree({s}, {t}, depth - 1, uncut)
                 ELSE Agree(Under(P, f), Under(Q, f), depth - 1, uncut)

\* What a tool is shown of a schema is what the spec says, no field and no
\* required more or less, up to where a cycle was cut, whichever operation came
\* first; so too of every entry.  (Where references to two entries that are both
\* still being expanded meet, the later one replaces the other: openapi.py:322.  So
\* does a list another of its keyword: openapi.py:300.  What is shown is one of
\* them, whole.)
SaysWhatTheSpecSays ==
    place = None =>
        /\ \A p \in DOMAIN expanded : Agree({document.places[p].schema}, {expanded[p]}, 3, TRUE)
        /\ \A c \in DOMAIN defs : Agree({[Empty EXCEPT !.ref = ToComponent(c)]}, {defs[c]}, 3, TRUE)
=============================================================================
