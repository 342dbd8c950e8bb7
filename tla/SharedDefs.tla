----------------------------- MODULE SharedDefs -----------------------------
(***************************************************************************)
(* How a tool advertises the components its schema reaches: openapi.py's   *)
(* count_defs_references, then exposure/_shared.py's _with_shared_defs.    *)
(* What is reached from several places gets an entry under $defs, the rest *)
(* is written in place.                                                    *)
(*                                                                         *)
(* Of a schema only its references count: a place lies in the text of the  *)
(* tool's own schema (Root) or of a component, and names a component.      *)
(***************************************************************************)
EXTENDS Naturals, FiniteSets

CONSTANTS Components, Places, Root,
          Long,      \* components whose names no client accepts
          KeyFor     \* a component's name, or its shortened form: stem and number

ASSUME SharedDefsAssumption ==
    /\ Root \notin Components
    /\ Long \subseteq Components
    /\ DOMAIN KeyFor = Components
    /\ \A c \in Components : KeyFor[c] = <<KeyFor[c][1], KeyFor[c][2]>> /\ KeyFor[c][2] \in Nat
    /\ \A c, d \in Components \ Long : KeyFor[c] = KeyFor[d] => c = d

VARIABLES
    place,      \* where each reference stands and what it names
    phase,
    pending,    \* places to walk
    counts,
    key,        \* the keys claimed so far
    todo,       \* places to rewrite
    written     \* how often a component has been written out

vars == <<place, phase, pending, counts, key, todo, written>>

Texts == Components \cup {Root}
In(p) == place[p].in
To(p) == place[p].to
Text(t) == {p \in Places : In(p) = t}
Keys == {KeyFor[c] : c \in Components}
            \cup ({KeyFor[c][1] : c \in Components} \X {n \in Nat : n > 1})

TypeOK ==
    /\ place \in [Places -> [in: Texts, to: Components]]
    /\ phase \in {"count", "name", "inline"}
    /\ pending \in SUBSET Places
    /\ counts \in [Components -> Nat]
    /\ DOMAIN key \in SUBSET Components
    /\ \A c \in DOMAIN key : key[c] \in Keys
    /\ todo \in SUBSET Places
    /\ written \in [Components -> Nat]

Init ==
    /\ place \in [Places -> [in: Texts, to: Components]]
    /\ phase = "count"
    /\ pending = Text(Root)
    /\ counts = [c \in Components |-> 0]
    /\ key = [c \in {} |-> 0]
    /\ todo = {}
    /\ written = [c \in Components |-> 0]

-----------------------------------------------------------------------------
\* count_defs_references pops a place; a component's own text is walked when the
\* component is met for the first time.  (A definition marked "variant" is a
\* slip of the one after it, kept to show which property notices.)
CountRootsOnly(p) ==                                                \* variant
    /\ phase = "count" /\ p \in pending
    /\ pending' = pending \ {p}
    /\ counts' = [counts EXCEPT ![To(p)] = @ + 1]
    /\ UNCHANGED <<place, phase, key, todo, written>>
Count(p) ==
    /\ phase = "count" /\ p \in pending
    /\ pending' = (pending \ {p}) \cup (IF counts[To(p)] = 0 THEN Text(To(p)) ELSE {})
    /\ counts' = [counts EXCEPT ![To(p)] = @ + 1]
    /\ UNCHANGED <<place, phase, key, todo, written>>

SharedUnlessOnceOrTwice == {c \in Components : counts[c] > 2}      \* variant
Shared == {c \in Components : counts[c] > 1}

Counted ==
    /\ phase = "count" /\ pending = {}
    /\ phase' = "name"
    /\ UNCHANGED <<place, pending, counts, key, todo, written>>

\* _defs_keys, with _claim_name: short names come first, and a key that is
\* taken gets the lowest number, from 2, that makes it another.
Taken(k) == \E d \in DOMAIN key : key[d] = k
WithNumberFromOne(c, n) ==                                          \* variant
    IF n = 1 THEN KeyFor[c] ELSE <<KeyFor[c][1], n - 1>>
WithNumber(c, n) == IF n = 1 THEN KeyFor[c] ELSE <<KeyFor[c][1], n>>
ShortFirst(c) == c \in Long => Shared \ Long \subseteq DOMAIN key

CandidateKey(c, n) == n = 1                                         \* variant
FreeKey(c, n) ==
    /\ n >= 1
    /\ ~Taken(WithNumber(c, n))
    /\ \A m \in 1..(n - 1) : Taken(WithNumber(c, m))

ClaimKey(c, n) ==
    /\ phase = "name"
    /\ c \in Shared \ DOMAIN key
    /\ ShortFirst(c)
    /\ FreeKey(c, n)
    /\ key' = [d \in DOMAIN key \cup {c} |-> IF d = c THEN WithNumber(c, n) ELSE key[d]]
    /\ UNCHANGED <<place, phase, pending, counts, todo, written>>

\* _with_shared_defs writes the schema itself and an entry per shared component.
NoEntries == {}                                                     \* variant
Entries == Shared

Named ==
    /\ phase = "name" /\ DOMAIN key = Shared
    /\ phase' = "inline"
    /\ todo' = {p \in Places : In(p) \in Entries \cup {Root}}
    /\ written' = [c \in Components |-> IF c \in Entries THEN 1 ELSE 0]
    /\ UNCHANGED <<place, pending, counts, key>>

\* _inline_single_use at one place: a reference to an entry stays one, any
\* other is replaced by the component's text, whose places come next.
Inline(p) ==
    /\ phase = "inline" /\ p \in todo
    /\ IF To(p) \in Shared
         THEN /\ todo' = todo \ {p}
              /\ UNCHANGED written
         ELSE /\ todo' = (todo \ {p}) \cup Text(To(p))
              /\ written' = [written EXCEPT ![To(p)] = @ + 1]
    /\ UNCHANGED <<place, phase, pending, counts, key>>

Next ==
    \/ \E p \in Places : Count(p) \/ Inline(p)
    \/ \E c \in Components : \E n \in 1..(Cardinality(Components) + 1) : ClaimKey(c, n)
    \/ Counted \/ Named

Spec == Init /\ [][Next]_vars

-----------------------------------------------------------------------------
\* The reference definition: the components in every set that holds what the
\* root names and what its own members name.
Holds(S) == \A p \in Places : In(p) \in S \cup {Root} => To(p) \in S
Reached == {c \in Components : \A S \in SUBSET Components : Holds(S) => c \in S}

\* "The entries counted are exactly those schemas reach" (openapi.py:544), each
\* with the number of places that name it in the texts reached.
CountsAreExact ==
    phase # "count" =>
        \A c \in Components :
            /\ counts[c] > 0 <=> c \in Reached
            /\ counts[c] > 1 <=> \E p, q \in Places :
                   /\ p # q /\ To(p) = c /\ To(q) = c
                   /\ {In(p), In(q)} \subseteq Reached \cup {Root}

\* Inlining ends on recursive components (_shared.py:320): nothing is written
\* twice, so no text is ever entered again, in place or as an entry.
WrittenOnce == \A c \in Components : written[c] <= 1

\* The finished schema is complete: whatever was met is in it, and nothing it
\* refers to is missing.
Finished == phase = "inline" /\ todo = {}
NothingMissing ==
    Finished =>
        /\ \A c \in Components : written[c] = 1 <=> counts[c] > 0
        /\ \A p \in Places :
               (In(p) = Root \/ written[In(p)] = 1) => written[To(p)] = 1

\* Every entry has a key of its own, and a name that clients accept is kept.
KeysIdentify ==
    /\ \A c, d \in DOMAIN key : key[c] = key[d] => c = d
    /\ \A c \in DOMAIN key \ Long : key[c] = KeyFor[c]
=============================================================================
