------------------------ MODULE SchemaExpansionProofs ------------------------
(***************************************************************************)
(* Proofs about SchemaExpansion: what parse_spec makes is whole, nothing   *)
(* in it contains itself, what is shared is never written to again, and    *)
(* only what leads in place back to itself is cut.                         *)
(***************************************************************************)
EXTENDS SchemaExpansion, TLAPS, SequenceTheorems

-----------------------------------------------------------------------------
(* The inductive invariant.  A dict is ready when it is made and nothing in *)
(* the program will still write to it; only those are handed around.        *)

IsSequence(q) == q \in Seq(Range(q))

Builds(q) == {q[i].node : i \in {j \in DOMAIN q : q[j].do = "build"}}
Stores(q) == {q[i].entry : i \in {j \in DOMAIN q : q[j].do = "store"}}
Ready == Made \ Builds(program)

\* What a finished or half-made dict may hold.
Dicts(ready, entries) ==
    [ref : {None} \cup {ToEntry(c) : c \in entries}, all : {None},
     props : SomeOf(Fields, ready), req : SUBSET Fields, mark : {None, "cut", "lost"}]

HeapSound ==
    /\ IsSequence(heap)
    /\ Len(heap) >= 1 /\ heap[Expanding] = Sentinel
    /\ \A a \in Made : heap[a] \in Dicts(Ready, DOMAIN defs)

HandlesSound ==
    /\ document \in Documents
    /\ defs \in SomeOf(Components, Ready \cup {Expanding})
    /\ expanded \in SomeOf(Places, Ready)
    /\ result \in Ready \cup {Expanding}

\* What an instruction works on.
IsSimple(i, ready) ==
    /\ i.do \in {"expand", "inline"} => IsSource(i.schema) /\ i.path \in SUBSET Pointers
    /\ i.do = "return" => i.node \in ready
    /\ i.do \in {"merge", "join"} => i.base \in ready /\ i.depth \in Nat
IsCall(q, ready) ==
    /\ \/ q = <<q[1]>> /\ q[1].do \in {"expand", "return"}
       \/ q = <<q[1], q[2]>> /\ q[1].do = "return" /\ q[2].do = "merge" /\ IsSimple(q[2], ready)
    /\ IsSimple(q[1], ready)
IsInstruction(i, ready, made, entries) ==
    /\ i.do \in {"expand", "inline", "return", "merge", "join", "and", "store", "refer", "branches", "build"}
    /\ IsSimple(i, ready)
    /\ i.do = "and" => IsCall(i.calls, ready) /\ i.how \in {"merge", "join"} /\ i.depth \in Nat
    /\ i.do \in {"store", "refer"} => i.entry \in entries
    /\ i.do = "branches" => i.left \in Seq(Schemas) /\ i.path \in SUBSET Pointers
    /\ i.do = "build" =>
          /\ i.node \in made /\ i.field \in Fields \cup {None}
          /\ DOMAIN i.todo \subseteq Fields
          /\ \A f \in DOMAIN i.todo : IsCall(i.todo[f], ready)

ProgramSound ==
    /\ IsSequence(program)
    /\ \A i \in DOMAIN program : IsInstruction(program[i], Ready, Made, DOMAIN defs)
    /\ place \in Places \cup {None}
    /\ place = None => program = <<>>

\* A dict has one builder, and an entry one call that will store it.
OneEach(q) ==
    \A i, j \in DOMAIN q :
        i # j => /\ q[i].do = "build" /\ q[j].do = "build" => q[i].node # q[j].node
                 /\ q[i].do = "store" /\ q[j].do = "store" => q[i].entry # q[j].entry

\* The entries that are only reserved are those somebody will still store.
ReservedAreStored == {c \in DOMAIN defs : defs[c] = Expanding} = Stores(program)

\* Until a call has returned, the next thing to do does not need a result.
Returns(i) == i.do \in {"expand", "inline", "return"} \/ (i.do = "build" /\ i.field = None)
ResultBeforeUse == result = Expanding /\ place # None => program # <<>> /\ Returns(Now)

IInv ==
    /\ HeapSound
    /\ HandlesSound
    /\ ProgramSound
    /\ OneEach(program)
    /\ ReservedAreStored
    /\ ResultBeforeUse

-----------------------------------------------------------------------------
(* Sequences. *)

\* A sequence is a function on 1 to its length,
LEMMA SequenceFacts ==
    ASSUME NEW q, IsSequence(q)
    PROVE  Len(q) \in Nat /\ DOMAIN q = 1 .. Len(q) /\ (q = <<>> <=> Len(q) = 0)
<1>1. Len(q) \in Nat /\ DOMAIN q = 1 .. Len(q)
  BY LenProperties DEF IsSequence
<1>2. q = <<>> <=> Len(q) = 0
  BY EmptySeq DEF IsSequence
<1>3. QED
  BY <1>1, <1>2

\* whatever set it is known to be over.
LEMMA SequenceOf ==
    ASSUME NEW q, NEW S, q \in Seq(S)
    PROVE  IsSequence(q)
<1>1. Len(q) \in Nat /\ q \in [1 .. Len(q) -> S] /\ DOMAIN q = 1 .. Len(q)
  BY LenProperties
<1>2. q \in [1 .. Len(q) -> Range(q)]
  BY <1>1 DEF Range
<1>3. QED
  BY <1>1, <1>2, SeqDef DEF IsSequence

\* What follows the head,
LEMMA Rest ==
    ASSUME NEW q, IsSequence(q), q # <<>>
    PROVE  /\ IsSequence(Tail(q))
           /\ Head(q) = q[1] /\ 1 \in DOMAIN q
           /\ Len(Tail(q)) = Len(q) - 1
           /\ \A i \in DOMAIN Tail(q) : i + 1 \in DOMAIN q /\ Tail(q)[i] = q[i + 1]
           /\ \A i \in DOMAIN q \ {1} : i - 1 \in DOMAIN Tail(q) /\ Tail(q)[i - 1] = q[i]
<1>1. /\ Tail(q) \in Seq(Range(q)) /\ Len(Tail(q)) = Len(q) - 1
      /\ \A i \in 1 .. Len(Tail(q)) : Tail(q)[i] = q[i + 1]
  BY HeadTailProperties DEF IsSequence
<1>2. IsSequence(Tail(q))
  BY <1>1, SequenceOf
<1>3. Len(q) \in Nat \ {0} /\ DOMAIN q = 1 .. Len(q) /\ DOMAIN Tail(q) = 1 .. Len(Tail(q))
  BY <1>2, SequenceFacts
<1>4. Head(q) = q[1]
  BY DEF IsSequence
<1>5. QED
  BY <1>1, <1>2, <1>3, <1>4

\* and what two sequences become in a row.
LEMMA InARow ==
    ASSUME NEW p, NEW q, IsSequence(p), IsSequence(q)
    PROVE  /\ IsSequence(p \o q)
           /\ Len(p \o q) = Len(p) + Len(q)
           /\ \A i \in DOMAIN p : i \in DOMAIN (p \o q) /\ (p \o q)[i] = p[i]
           /\ \A i \in DOMAIN q : Len(p) + i \in DOMAIN (p \o q) /\ (p \o q)[Len(p) + i] = q[i]
           /\ \A i \in DOMAIN (p \o q) \ DOMAIN p : i - Len(p) \in DOMAIN q /\ (p \o q)[i] = q[i - Len(p)]
<1> DEFINE S == Range(p) \cup Range(q)
<1>1. p \in Seq(S) /\ q \in Seq(S)
  BY SeqMonotonic DEF IsSequence
<1>2. /\ p \o q \in Seq(S) /\ Len(p \o q) = Len(p) + Len(q)
      /\ \A i \in 1 .. Len(p) + Len(q) : (p \o q)[i] = IF i <= Len(p) THEN p[i] ELSE q[i - Len(p)]
  BY <1>1, ConcatProperties
<1>3. IsSequence(p \o q)
  BY <1>2, SequenceOf
<1>4. /\ Len(p) \in Nat /\ Len(q) \in Nat /\ DOMAIN p = 1 .. Len(p) /\ DOMAIN q = 1 .. Len(q)
      /\ DOMAIN (p \o q) = 1 .. Len(p) + Len(q)
  BY <1>2, <1>3, SequenceFacts
<1> HIDE DEF S
<1>5. QED
  BY <1>2, <1>3, <1>4

\* What is written out as a tuple is a sequence, and short ones in a row are one.
LEMMA Tuples ==
    /\ \A a, b, c, d : /\ IsSequence(<<>>) /\ IsSequence(<<a>>) /\ IsSequence(<<a, b>>)
                       /\ IsSequence(<<a, b, c>>) /\ IsSequence(<<a, b, c, d>>)
    /\ \A a, b, c, d : <<a>> \o <<b>> = <<a, b>> /\ <<a, b>> \o <<c>> = <<a, b, c>>
                       /\ <<a, b>> \o <<c, d>> = <<a, b, c, d>>
    /\ \A a : <<a>> \o <<>> = <<a>> /\ <<>> \o <<a>> = <<a>>
<1>1. ASSUME NEW a, NEW b, NEW c, NEW d
      PROVE  /\ <<>> \in Seq({a}) /\ <<a>> \in Seq({a}) /\ <<a, b>> \in Seq({a, b})
             /\ <<a, b, c>> \in Seq({a, b, c}) /\ <<a, b, c, d>> \in Seq({a, b, c, d})
  OBVIOUS
<1>2. \A a, b, c, d : /\ IsSequence(<<>>) /\ IsSequence(<<a>>) /\ IsSequence(<<a, b>>)
                       /\ IsSequence(<<a, b, c>>) /\ IsSequence(<<a, b, c, d>>)
  BY <1>1, SequenceOf
<1>3. ASSUME NEW a, NEW b, NEW c, NEW d
      PROVE  <<a>> \o <<b>> = <<a, b>> /\ <<a, b>> \o <<c>> = <<a, b, c>>
                       /\ <<a, b>> \o <<c, d>> = <<a, b, c, d>>
  <2> DEFINE S == {a, b, c, d}
  <2>1. /\ <<a>> \in Seq(S) /\ <<b>> \in Seq(S) /\ <<c>> \in Seq(S) /\ <<a, b>> \in Seq(S)
        /\ <<c, d>> \in Seq(S) /\ <<a, b, c>> \in Seq(S) /\ <<a, b, c, d>> \in Seq(S)
    OBVIOUS
  <2>2. /\ \A i \in 1 .. 2 : (<<a>> \o <<b>>)[i] = <<a, b>>[i]
        /\ <<a>> \o <<b>> \in Seq(S) /\ Len(<<a>> \o <<b>>) = 2
    BY <2>1, ConcatProperties
  <2>3. /\ \A i \in 1 .. 3 : (<<a, b>> \o <<c>>)[i] = <<a, b, c>>[i]
        /\ <<a, b>> \o <<c>> \in Seq(S) /\ Len(<<a, b>> \o <<c>>) = 3
    BY <2>1, ConcatProperties
  <2>4. /\ \A i \in 1 .. 4 : (<<a, b>> \o <<c, d>>)[i] = <<a, b, c, d>>[i]
        /\ <<a, b>> \o <<c, d>> \in Seq(S) /\ Len(<<a, b>> \o <<c, d>>) = 4
    BY <2>1, ConcatProperties
  <2>5. Len(<<a, b>>) = 2 /\ Len(<<a, b, c>>) = 3 /\ Len(<<a, b, c, d>>) = 4
    OBVIOUS
  <2> HIDE DEF S
  <2>6. <<a>> \o <<b>> = <<a, b>>
    BY <2>1, <2>2, <2>5, SeqEqual
  <2>7. <<a, b>> \o <<c>> = <<a, b, c>>
    BY <2>1, <2>3, <2>5, SeqEqual
  <2>8. <<a, b>> \o <<c, d>> = <<a, b, c, d>>
    BY <2>1, <2>4, <2>5, SeqEqual
  <2>9. QED
    BY <2>6, <2>7, <2>8
<1>4. \A a : <<a>> \o <<>> = <<a>> /\ <<>> \o <<a>> = <<a>>
  OBVIOUS
<1>5. QED
  BY <1>2, <1>3, <1>4

-----------------------------------------------------------------------------
(* Programs. *)

\* What the head of a program is the builder of, and what it will store.
BuiltBy(i) == IF i.do = "build" THEN {i.node} ELSE {}
StoredBy(i) == IF i.do = "store" THEN {i.entry} ELSE {}

\* Without its head a program builds and stores all but that one's.
LEMMA WithoutHead ==
    ASSUME NEW q, IsSequence(q), q # <<>>, OneEach(q)
    PROVE  /\ OneEach(Tail(q))
           /\ Builds(Tail(q)) = Builds(q) \ BuiltBy(Head(q))
           /\ Stores(Tail(q)) = Stores(q) \ StoredBy(Head(q))
<1> DEFINE r == Tail(q)
<1>1. /\ 1 \in DOMAIN q /\ Head(q) = q[1]
      /\ DOMAIN q \subseteq Nat /\ DOMAIN r \subseteq Nat /\ 0 \notin DOMAIN r
      /\ \A i \in DOMAIN r : i + 1 \in DOMAIN q /\ r[i] = q[i + 1]
      /\ \A i \in DOMAIN q \ {1} : i - 1 \in DOMAIN r /\ r[i - 1] = q[i]
  BY Rest, SequenceFacts
<1> HIDE DEF r
<1>2. OneEach(r)
  BY <1>1 DEF OneEach
<1>3. Builds(r) \subseteq Builds(q) /\ Stores(r) \subseteq Stores(q)
  BY <1>1 DEF Builds, Stores
<1>4. Builds(q) \ BuiltBy(Head(q)) \subseteq Builds(r)
  <2>1. ASSUME NEW i \in DOMAIN q, q[i].do = "build", q[i].node \notin BuiltBy(q[1])
        PROVE  q[i].node \in Builds(r)
    <3>1. i # 1
      BY <2>1 DEF BuiltBy
    <3>2. QED
      BY <3>1, <2>1, <1>1 DEF Builds
  <2>2. QED
    BY <2>1, <1>1 DEF Builds
<1>5. Stores(q) \ StoredBy(Head(q)) \subseteq Stores(r)
  <2>1. ASSUME NEW i \in DOMAIN q, q[i].do = "store", q[i].entry \notin StoredBy(q[1])
        PROVE  q[i].entry \in Stores(r)
    <3>1. i # 1
      BY <2>1 DEF StoredBy
    <3>2. QED
      BY <3>1, <2>1, <1>1 DEF Stores
  <2>2. QED
    BY <2>1, <1>1 DEF Stores
<1>6. Builds(r) \cap BuiltBy(Head(q)) = {} /\ Stores(r) \cap StoredBy(Head(q)) = {}
  <2>1. ASSUME NEW i \in DOMAIN r
        PROVE  /\ r[i].do = "build" => r[i].node \notin BuiltBy(q[1])
               /\ r[i].do = "store" => r[i].entry \notin StoredBy(q[1])
    BY <1>1 DEF OneEach, BuiltBy, StoredBy
  <2>2. QED
    BY <2>1, <1>1 DEF Builds, Stores
<1>7. QED
  BY <1>2, <1>3, <1>4, <1>5, <1>6 DEF r

\* Two programs in a row build and store what either does.
LEMMA BothInARow ==
    ASSUME NEW p, NEW q, IsSequence(p), IsSequence(q)
    PROVE  /\ Builds(p \o q) = Builds(p) \cup Builds(q)
           /\ Stores(p \o q) = Stores(p) \cup Stores(q)
           /\ /\ OneEach(p) /\ OneEach(q)
              /\ Builds(p) \cap Builds(q) = {} /\ Stores(p) \cap Stores(q) = {}
              => OneEach(p \o q)
<1> DEFINE r == p \o q
<1>1. /\ Len(p) \in Nat
      /\ DOMAIN p \subseteq Nat /\ DOMAIN q \subseteq Nat /\ DOMAIN r \subseteq Nat
      /\ \A i \in DOMAIN p : i \in DOMAIN r /\ r[i] = p[i]
      /\ \A i \in DOMAIN q : Len(p) + i \in DOMAIN r /\ r[Len(p) + i] = q[i]
      /\ \A i \in DOMAIN r \ DOMAIN p : i - Len(p) \in DOMAIN q /\ r[i] = q[i - Len(p)]
  BY InARow, SequenceFacts
<1> HIDE DEF r
<1>2. \A i \in DOMAIN r : (i \in DOMAIN p /\ r[i] = p[i]) \/ \E j \in DOMAIN q : r[i] = q[j]
  BY <1>1
<1>3. Builds(r) = Builds(p) \cup Builds(q)
  BY <1>1, <1>2 DEF Builds
<1>4. Stores(r) = Stores(p) \cup Stores(q)
  BY <1>1, <1>2 DEF Stores
<1>5. ASSUME OneEach(p), OneEach(q), Builds(p) \cap Builds(q) = {}, Stores(p) \cap Stores(q) = {}
      PROVE  OneEach(r)
  <2>1. SUFFICES ASSUME NEW i \in DOMAIN r, NEW j \in DOMAIN r, i # j
                 PROVE  /\ r[i].do = "build" /\ r[j].do = "build" => r[i].node # r[j].node
                        /\ r[i].do = "store" /\ r[j].do = "store" => r[i].entry # r[j].entry
    BY DEF OneEach
  <2>2. CASE i \in DOMAIN p /\ j \in DOMAIN p
    BY <2>1, <2>2, <1>1, <1>5 DEF OneEach
  <2>3. CASE i \notin DOMAIN p /\ j \notin DOMAIN p
    <3>1. PICK k \in DOMAIN q, l \in DOMAIN q : k # l /\ r[i] = q[k] /\ r[j] = q[l]
      <4>1. i - Len(p) \in DOMAIN q /\ j - Len(p) \in DOMAIN q /\ i - Len(p) # j - Len(p)
        BY <2>1, <2>3, <1>1
      <4>2. QED
        BY <2>1, <2>3, <4>1, <1>1
    <3>2. QED
      BY <3>1, <1>5 DEF OneEach
  <2>4. CASE i \in DOMAIN p /\ j \notin DOMAIN p
    <3>1. PICK k \in DOMAIN q : r[i] = p[i] /\ r[j] = q[k]
      BY <2>1, <2>4, <1>1
    <3>2. QED
      BY <3>1, <2>4, <1>5 DEF Builds, Stores
  <2>5. CASE i \notin DOMAIN p /\ j \in DOMAIN p
    <3>1. PICK k \in DOMAIN q : r[j] = p[j] /\ r[i] = q[k]
      BY <2>1, <2>5, <1>1
    <3>2. QED
      BY <3>1, <2>5, <1>5 DEF Builds, Stores
  <2>6. QED
    BY <2>2, <2>3, <2>4, <2>5
<1>6. QED
  BY <1>3, <1>4, <1>5 DEF r

\* So, after a step that puts q in the place of the head:
LEMMA AfterThen ==
    ASSUME IsSequence(program), program # <<>>, OneEach(program),
           NEW q, IsSequence(q), OneEach(q), Then(q),
           Builds(q) \cap (Builds(program) \ BuiltBy(Now)) = {},
           Stores(q) \cap (Stores(program) \ StoredBy(Now)) = {}
    PROVE  /\ IsSequence(program') /\ OneEach(program')
           /\ Builds(program') = Builds(q) \cup (Builds(program) \ BuiltBy(Now))
           /\ Stores(program') = Stores(q) \cup (Stores(program) \ StoredBy(Now))
           /\ \A i \in DOMAIN program' :
                 \/ \E j \in DOMAIN q : program'[i] = q[j]
                 \/ \E j \in DOMAIN program : program'[i] = program[j]
           /\ q # <<>> => program' # <<>> /\ Head(program') = q[1]
<1> DEFINE r == Tail(program)
<1>1. program' = q \o r
  BY DEF Then
<1>2. /\ IsSequence(r) /\ OneEach(r)
      /\ Builds(r) = Builds(program) \ BuiltBy(Now) /\ Stores(r) = Stores(program) \ StoredBy(Now)
      /\ \A i \in DOMAIN r : i + 1 \in DOMAIN program /\ r[i] = program[i + 1]
  BY Rest, WithoutHead DEF Now
<1> HIDE DEF r
<1>3. /\ IsSequence(program') /\ OneEach(program')
      /\ Builds(program') = Builds(q) \cup Builds(r) /\ Stores(program') = Stores(q) \cup Stores(r)
  BY <1>1, <1>2, InARow, BothInARow
<1>4. /\ \A i \in DOMAIN q : i \in DOMAIN program' /\ program'[i] = q[i]
      /\ \A i \in DOMAIN program' \ DOMAIN q : i - Len(q) \in DOMAIN r /\ program'[i] = r[i - Len(q)]
  BY <1>1, <1>2, InARow
<1>5. ASSUME NEW i \in DOMAIN program'
      PROVE  \/ \E j \in DOMAIN q : program'[i] = q[j]
             \/ \E j \in DOMAIN program : program'[i] = program[j]
  BY <1>2, <1>4
<1>6. ASSUME q # <<>>
      PROVE  program' # <<>> /\ Head(program') = q[1]
  <2>1. 1 \in DOMAIN q
    BY <1>6, Rest
  <2>2. program' # <<>>
    BY <2>1, <1>3, <1>4, SequenceFacts
  <2>3. QED
    BY <2>1, <2>2, <1>3, <1>4, Rest
<1>7. QED
  BY <1>2, <1>3, <1>5, <1>6

-----------------------------------------------------------------------------
(* What grows: dicts are made and become ready, entries are added, and what *)
(* was sound stays so.                                                      *)

\* A partial function is one on its own domain,
LEMMA SomeOfFacts ==
    ASSUME NEW D, NEW R, NEW g
    PROVE  g \in SomeOf(D, R) <=> g \in [DOMAIN g -> R] /\ DOMAIN g \subseteq D
BY DEF SomeOf

\* also into a larger set,
LEMMA SomeOfGrows ==
    ASSUME NEW D, NEW R, NEW S, R \subseteq S, NEW g \in SomeOf(D, R)
    PROVE  g \in SomeOf(D, S)
BY SomeOfFacts

\* and with one more key.
LEMMA WithKeyFacts ==
    ASSUME NEW D, NEW R, NEW g \in SomeOf(D, R), NEW k \in D, NEW v \in R
    PROVE  WithKey(g, k, v) \in SomeOf(D, R)
BY SomeOfFacts DEF WithKey

\* All that a dict holds is ready.
LEMMA DictParts ==
    ASSUME NEW R, NEW E, NEW s \in Dicts(R, E)
    PROVE  Range(s.props) \subseteq R
<1>1. s.props \in [DOMAIN s.props -> R]
  BY SomeOfFacts DEF Dicts
<1>2. QED
  BY <1>1 DEF Range

\* What was a dict is one when more is ready and there are more entries;
LEMMA DictsGrow ==
    ASSUME NEW R, NEW S, R \subseteq S, NEW E, NEW F, E \subseteq F
    PROVE  Dicts(R, E) \subseteq Dicts(S, F)
<1>1. SomeOf(Fields, R) \subseteq SomeOf(Fields, S)
  BY SomeOfGrows
<1>2. {None} \cup {ToEntry(c) : c \in E} \subseteq {None} \cup {ToEntry(c) : c \in F}
  OBVIOUS
<1>3. QED
  BY <1>1, <1>2 DEF Dicts

\* so of what an instruction works on,
LEMMA SimpleGrows ==
    ASSUME NEW R, NEW S, R \subseteq S, NEW i, IsSimple(i, R)
    PROVE  IsSimple(i, S)
BY DEF IsSimple

\* of the calls it holds
LEMMA CallGrows ==
    ASSUME NEW R, NEW S, R \subseteq S, NEW q, IsCall(q, R)
    PROVE  IsCall(q, S)
BY SimpleGrows DEF IsCall

\* and of all of it.
LEMMA InstructionGrows ==
    ASSUME NEW R, NEW S, R \subseteq S, NEW M, NEW N, M \subseteq N, NEW E, NEW F, E \subseteq F,
           NEW i, IsInstruction(i, R, M, E)
    PROVE  IsInstruction(i, S, N, F)
BY SimpleGrows, CallGrows DEF IsInstruction

\* The head of the program is one that fits.
LEMMA HeadFits ==
    ASSUME ProgramSound, program # <<>>
    PROVE  IsInstruction(Now, Ready, Made, DOMAIN defs)
BY Rest DEF ProgramSound, Now

\* The program after a step in which nothing sound is lost:
LEMMA ProgramGoesOn ==
    ASSUME ProgramSound, OneEach(program), program # <<>>, place # None, place' = place,
           NEW q, IsSequence(q), OneEach(q), Then(q),
           Builds(q) \cap (Builds(program) \ BuiltBy(Now)) = {},
           Stores(q) \cap (Stores(program) \ StoredBy(Now)) = {},
           Ready \subseteq Ready', Made \subseteq Made', DOMAIN defs \subseteq DOMAIN defs',
           \A j \in DOMAIN q : IsInstruction(q[j], Ready', Made', DOMAIN defs')
    PROVE  ProgramSound' /\ OneEach(program')
<1>1. /\ IsSequence(program') /\ OneEach(program')
      /\ \A i \in DOMAIN program' :
            \/ \E j \in DOMAIN q : program'[i] = q[j]
            \/ \E j \in DOMAIN program : program'[i] = program[j]
  BY AfterThen DEF ProgramSound
<1>2. \A j \in DOMAIN program : IsInstruction(program[j], Ready', Made', DOMAIN defs')
  BY InstructionGrows DEF ProgramSound
<1>3. \A i \in DOMAIN program' : IsInstruction(program'[i], Ready', Made', DOMAIN defs')
  BY <1>1, <1>2
<1>4. QED
  BY <1>1, <1>3 DEF ProgramSound

\* Most instructions neither are nor bring builders or calls that store.
IsQuiet(i) == i.do \notin {"build", "store"}

\* A quiet instruction that gives way to quiet ones leaves the builders and the calls
\* that store as they are.
LEMMA GoesQuietly ==
    ASSUME IsSequence(program), OneEach(program), program # <<>>, IsQuiet(Now),
           NEW q, IsSequence(q), Then(q), \A j \in DOMAIN q : IsQuiet(q[j])
    PROVE  /\ OneEach(q) /\ Builds(q) = {} /\ Stores(q) = {} /\ BuiltBy(Now) = {} /\ StoredBy(Now) = {}
           /\ Builds(program') = Builds(program) /\ Stores(program') = Stores(program)
           /\ q # <<>> => program' # <<>> /\ Now' = q[1]
<1>1. OneEach(q) /\ Builds(q) = {} /\ Stores(q) = {} /\ BuiltBy(Now) = {} /\ StoredBy(Now) = {}
  BY DEF IsQuiet, OneEach, Builds, Stores, BuiltBy, StoredBy
<1>2. /\ Builds(program') = Builds(q) \cup (Builds(program) \ BuiltBy(Now))
      /\ Stores(program') = Stores(q) \cup (Stores(program) \ StoredBy(Now))
      /\ q # <<>> => program' # <<>> /\ Head(program') = q[1]
  BY <1>1, AfterThen
<1>3. QED
  BY <1>1, <1>2 DEF Now

-----------------------------------------------------------------------------
(* The heap. *)

\* A heap that goes on holds what it held.
Extended ==
    /\ IsSequence(heap') /\ DOMAIN heap \subseteq DOMAIN heap'
    /\ \A a \in DOMAIN heap : heap'[a] = heap[a]

Added == DOMAIN heap' \ DOMAIN heap

\* What is ready stays as it is, and what becomes ready has only that in it.
Kept ==
    /\ \A a \in Ready \cup {Expanding} : heap'[a] = heap[a]
    /\ \A a \in Ready' \ Ready : Range(heap'[a].props) \subseteq Ready

\* The sentinel is in the heap and is not made, and New is free.
LEMMA HeapDomain ==
    ASSUME HeapSound
    PROVE  /\ DOMAIN heap = 1 .. Len(heap) /\ Len(heap) \in Nat \ {0}
           /\ Expanding \in DOMAIN heap /\ Expanding \notin Made /\ New \notin DOMAIN heap
           /\ Ready \subseteq Made
<1>1. DOMAIN heap = 1 .. Len(heap) /\ Len(heap) \in Nat
  BY SequenceFacts DEF HeapSound
<1>2. QED
  BY <1>1 DEF HeapSound, Expanding, New, Made, Ready

\* A heap goes on when nothing happens to it,
LEMMA HeapUnchanged ==
    ASSUME HeapSound, heap' = heap
    PROVE  Extended /\ Added = {}
BY DEF Extended, Added, HeapSound

\* when a dict is appended
LEMMA HeapAppended ==
    ASSUME HeapSound, NEW d, heap' = Append(heap, d)
    PROVE  Extended /\ Added = {New} /\ heap'[New] = d
<1> DEFINE S == Range(heap) \cup {d}
<1>1. heap \in Seq(S) /\ d \in S
  BY SeqMonotonic DEF HeapSound, IsSequence
<1>2. /\ heap' \in Seq(S) /\ Len(heap') = Len(heap) + 1
      /\ \A i \in 1 .. Len(heap) : heap'[i] = heap[i]
      /\ heap'[Len(heap) + 1] = d
  BY <1>1, AppendProperties
<1>3. IsSequence(heap')
  BY <1>2, SequenceOf
<1> HIDE DEF S
<1>4. DOMAIN heap' = 1 .. Len(heap) + 1 /\ DOMAIN heap = 1 .. Len(heap) /\ Len(heap) \in Nat
  BY <1>2, <1>3, HeapDomain, SequenceFacts
<1>5. QED
  BY <1>2, <1>3, <1>4 DEF Extended, Added, New

\* or two are.
LEMMA HeapAppendedTwice ==
    ASSUME HeapSound, NEW d, NEW e, heap' = heap \o <<d, e>>
    PROVE  Extended /\ Added = {New, New + 1} /\ heap'[New] = d /\ heap'[New + 1] = e
<1>1. IsSequence(heap) /\ IsSequence(<<d, e>>)
  BY Tuples DEF HeapSound
<1>2. /\ IsSequence(heap') /\ Len(heap') = Len(heap) + Len(<<d, e>>)
      /\ \A i \in DOMAIN heap : i \in DOMAIN heap' /\ heap'[i] = heap[i]
      /\ \A i \in DOMAIN <<d, e>> : Len(heap) + i \in DOMAIN heap' /\ heap'[Len(heap) + i] = <<d, e>>[i]
  BY <1>1, InARow
<1>3. /\ DOMAIN heap' = 1 .. Len(heap) + 2 /\ DOMAIN heap = 1 .. Len(heap) /\ Len(heap) \in Nat
      /\ heap'[Len(heap) + 1] = d /\ heap'[Len(heap) + 2] = e
  BY <1>2, HeapDomain, SequenceFacts
<1>4. QED
  BY <1>2, <1>3 DEF Extended, Added, New

\* A heap that goes on is sound when what is new in it is.
LEMMA HeapGoesOn ==
    ASSUME HeapSound, Extended, Ready \subseteq Ready', DOMAIN defs \subseteq DOMAIN defs',
           \A a \in Added : heap'[a] \in Dicts(Ready', DOMAIN defs')
    PROVE  HeapSound'
<1>1. /\ DOMAIN heap = 1 .. Len(heap) /\ Len(heap) \in Nat \ {0} /\ Expanding \in DOMAIN heap
      /\ IsSequence(heap') /\ DOMAIN heap \subseteq DOMAIN heap' /\ \A a \in DOMAIN heap : heap'[a] = heap[a]
  BY HeapDomain DEF Extended
<1>2. IsSequence(heap)' /\ heap'[Expanding] = Sentinel
  BY <1>1 DEF HeapSound
<1>3. Len(heap') >= 1
  <2>1. DOMAIN heap' = 1 .. Len(heap') /\ Len(heap') \in Nat
    BY <1>1, SequenceFacts
  <2>2. QED
    BY <2>1, <1>1 DEF Expanding
<1>4. \A a \in Made' : heap'[a] \in Dicts(Ready', DOMAIN defs')
  <2>1. SUFFICES ASSUME NEW a \in Made, a \in Made' PROVE heap'[a] \in Dicts(Ready', DOMAIN defs')
    BY DEF Made, Added
  <2>2. heap'[a] = heap[a] /\ heap[a] \in Dicts(Ready, DOMAIN defs)
    BY <2>1, <1>1 DEF HeapSound, Made
  <2>3. QED
    BY <2>2, DictsGrow
<1>5. QED
  BY <1>2, <1>3, <1>4 DEF HeapSound

\* What is built is made.
LEMMA BuildsAreMade ==
    ASSUME ProgramSound
    PROVE  Builds(program) \subseteq Made
BY DEF ProgramSound, IsInstruction, Builds

\* What is handed around stays sound while more becomes ready.
LEMMA HandlesGoOn ==
    ASSUME HandlesSound, Ready \subseteq Ready', document' = document, expanded' = expanded,
           defs' \in SomeOf(Components, Ready' \cup {Expanding}), result' \in Ready' \cup {Expanding}
    PROVE  HandlesSound'
BY SomeOfGrows DEF HandlesSound

\* A step that neither starts nor ends a builder or a call that stores.  What it
\* adds to the heap is ready at once.
Handed == Ready \cup Added

\* It keeps the invariant when what it adds and returns fits.
LEMMA QuietStep ==
    ASSUME IInv, place # None, program # <<>>, IsQuiet(Now), UNCHANGED <<place, document, expanded, defs>>,
           Extended, \A a \in Added : heap'[a] \in Dicts(Ready, DOMAIN defs),
           NEW q, IsSequence(q), Then(q),
           \A j \in DOMAIN q : IsQuiet(q[j]) /\ IsInstruction(q[j], Handed, Made \cup Added, DOMAIN defs),
           result' \in Handed \cup {Expanding},
           result' = Expanding => q # <<>> /\ Returns(q[1])
    PROVE  IInv' /\ Kept
<1>1. /\ HeapSound /\ HandlesSound /\ ProgramSound /\ OneEach(program) /\ ReservedAreStored
      /\ IsSequence(program)
  BY DEF IInv, ProgramSound
<1>2. /\ OneEach(q) /\ Builds(q) = {} /\ Stores(q) = {}
      /\ Builds(program') = Builds(program) /\ Stores(program') = Stores(program)
      /\ q # <<>> => program' # <<>> /\ Now' = q[1]
  BY <1>1, GoesQuietly
<1>3. Made' = Made \cup Added /\ Ready' = Handed
  BY <1>1, <1>2, HeapDomain, BuildsAreMade DEF Made, Ready, Handed, Added, Extended
<1>4. ProgramSound' /\ OneEach(program')
  BY <1>1, <1>2, <1>3, ProgramGoesOn DEF Handed
<1>5. HeapSound'
  BY <1>1, <1>3, DictsGrow, HeapGoesOn DEF Handed
<1>6. HandlesSound'
  BY <1>1, <1>3, HandlesGoOn, SomeOfGrows DEF Handed, HandlesSound
<1>7. ReservedAreStored'
  BY <1>1, <1>2 DEF ReservedAreStored
<1>8. ResultBeforeUse'
  BY <1>2 DEF ResultBeforeUse, Returns
<1>9. Kept
  <2>1. \A a \in Ready \cup {Expanding} : heap'[a] = heap[a]
    BY <1>1, HeapDomain DEF Made, Extended
  <2>2. \A a \in Ready' \ Ready : Range(heap'[a].props) \subseteq Ready
    BY <1>3, DictParts DEF Handed
  <2>3. QED
    BY <2>1, <2>2 DEF Kept
<1>10. QED
  BY <1>4, <1>5, <1>6, <1>7, <1>8, <1>9 DEF IInv

-----------------------------------------------------------------------------
(* The schemas of a spec. *)

\* A schema that says nothing is one of a spec's,
LEMMA EmptyIsSource ==
    IsSource(Empty) /\ NoProps \in [{} -> {}] /\ DOMAIN NoProps = {} /\ NoProps \in SomeOf(Fields, Schemas)
<1>1. NoProps \in SomeOf(Fields, Schemas)
  BY SomeOfFacts DEF NoProps
<1>2. QED
  BY <1>1 DEF IsSource, Empty, NoProps

\* the parts of a spec's schema are,
LEMMA SourceParts ==
    ASSUME NEW s, IsSource(s)
    PROVE  /\ s.ref \in Pointers \cup {None}
           /\ s.all # None => s.all \in Seq(Schemas)
           /\ DOMAIN s.props \subseteq Fields /\ s.req \in SUBSET Fields
           /\ \A f \in DOMAIN s.props : s.props[f] \in Schemas /\ IsSource(s.props[f])
           /\ IsSource(Siblings(s)) /\ IsSource([Empty EXCEPT !.ref = s.ref])
<1>1. s.props \in [DOMAIN s.props -> Schemas] /\ DOMAIN s.props \subseteq Fields
  BY SomeOfFacts DEF IsSource
<1>2. \A f \in DOMAIN s.props : s.props[f] \in Schemas /\ IsSource(s.props[f])
  BY <1>1, DocumentsAssumption
<1>3. IsSource(Siblings(s))
  BY DEF IsSource, Siblings
<1>4. IsSource([Empty EXCEPT !.ref = s.ref])
  <2>1. [Empty EXCEPT !.ref = s.ref] = [ref |-> s.ref, all |-> None, props |-> NoProps, req |-> {}, mark |-> None]
    BY DEF Empty
  <2>2. s.ref \in Pointers \cup {None}
    BY DEF IsSource
  <2>3. QED
    BY <2>1, <2>2, EmptyIsSource DEF IsSource
<1>5. QED
  BY <1>1, <1>2, <1>3, <1>4 DEF IsSource

\* the branches of an allOf
LEMMA BranchIsSource ==
    ASSUME NEW q \in Seq(Schemas), q # <<>>
    PROVE  IsSource(Head(q)) /\ Tail(q) \in Seq(Schemas)
BY HeadTailProperties, DocumentsAssumption

\* and what a pointer is to.
LEMMA ResolvedIsSource ==
    ASSUME document \in Documents, NEW pointer \in Pointers
    PROVE  IsSource(Resolve(pointer))
<1>1. CASE pointer.name \notin DOMAIN document.components
  BY <1>1, EmptyIsSource DEF Resolve
<1>2. CASE pointer.name \in DOMAIN document.components
  <2> DEFINE s == document.components[pointer.name]
  <2>1. IsSource(s)
    BY <1>2, DocumentsAssumption
  <2> HIDE DEF s
  <2>2. \A f \in DOMAIN s.props : IsSource(s.props[f])
    BY <2>1, SourceParts
  <2>3. QED
    BY <1>2, <2>1, <2>2, EmptyIsSource DEF Resolve, s
<1>3. QED
  BY <1>1, <1>2

\* The dicts a call makes of what it is called with.
LEMMA NewDicts ==
    ASSUME NEW R, NEW E, NEW s, IsSource(s)
    PROVE  /\ Empty \in Dicts(R, E) /\ Cut(s) \in Dicts(R, E)
           /\ s.ref = None /\ s.all = None => [s EXCEPT !.props = NoProps] \in Dicts(R, E)
<1>1. NoProps \in SomeOf(Fields, R)
  BY SomeOfFacts, EmptyIsSource
<1>2. Empty \in Dicts(R, E)
  BY <1>1 DEF Dicts, Empty
<1>3. Cut(s) \in Dicts(R, E)
  BY <1>1, SourceParts DEF Dicts, Empty, Cut
<1>4. s.ref = None /\ s.all = None => [s EXCEPT !.props = NoProps] \in Dicts(R, E)
  BY <1>1 DEF Dicts, IsSource
<1>5. QED
  BY <1>2, <1>3, <1>4

\* and of dicts.
LEMMA DictsOfDicts ==
    ASSUME NEW R, NEW E, NEW s \in Dicts(R, E)
    PROVE  /\ Siblings(s) \in Dicts(R, E)
           /\ \A c \in E : Beside(s, c) \in Dicts(R, E)
           /\ \A f \in Fields, a \in R : [s EXCEPT !.props = WithKey(@, f, a)] \in Dicts(R, E)
           /\ \A t \in Dicts(R, E) : Joined(s, t) \in Dicts(R, E)
<1>1. Siblings(s) \in Dicts(R, E)
  BY DEF Dicts, Siblings
<1>2. \A c \in E : Beside(s, c) \in Dicts(R, E)
  BY DEF Dicts, Beside
<1>3. ASSUME NEW f \in Fields, NEW a \in R
      PROVE  [s EXCEPT !.props = WithKey(@, f, a)] \in Dicts(R, E)
  <2>1. s.props \in SomeOf(Fields, R)
    BY DEF Dicts
  <2>2. WithKey(s.props, f, a) \in SomeOf(Fields, R)
    BY <2>1, WithKeyFacts
  <2>3. QED
    BY <2>2 DEF Dicts
<1>4. ASSUME NEW t \in Dicts(R, E)
      PROVE  Joined(s, t) \in Dicts(R, E)
  <2> DEFINE p == [f \in DOMAIN s.props \cup DOMAIN t.props |->
                      IF f \in DOMAIN t.props \ Merges(s, t) THEN t.props[f] ELSE s.props[f]]
  <2>1. /\ s.props \in [DOMAIN s.props -> R] /\ DOMAIN s.props \subseteq Fields
        /\ t.props \in [DOMAIN t.props -> R] /\ DOMAIN t.props \subseteq Fields
    BY <1>4, SomeOfFacts DEF Dicts
  <2>2. p \in [DOMAIN p -> R] /\ DOMAIN p \subseteq Fields
    BY <2>1 DEF Merges
  <2>3. p \in SomeOf(Fields, R)
    BY <2>2, SomeOfFacts
  <2> HIDE DEF p
  <2>4. RequiredOf(s, t) \in SUBSET Fields
    BY <1>4 DEF RequiredOf, Dicts
  <2>5. Joined(s, t).props = p
    BY DEF Joined, p
  <2>6. /\ Joined(s, t).ref \in {None} \cup {ToEntry(c) : c \in E} /\ Joined(s, t).all \in {None}
        /\ Joined(s, t).mark \in {None, "cut", "lost"} /\ Joined(s, t).req \in SUBSET Fields
    BY <1>4, <2>4 DEF Joined, Dicts
  <2>7. Joined(s, t) = [ref |-> Joined(s, t).ref, all |-> Joined(s, t).all, props |-> p,
                        req |-> Joined(s, t).req, mark |-> Joined(s, t).mark]
    BY <2>5 DEF Joined
  <2>8. QED
    BY <2>3, <2>6, <2>7 DEF Dicts
<1>5. QED
  BY <1>1, <1>2, <1>3, <1>4

-----------------------------------------------------------------------------
(* What a program is made of fits when its parts do. *)

\* Each constructor, on parts that fit.
LEMMA Instructions ==
    ASSUME NEW R, NEW M, NEW E
    PROVE  /\ \A s : \A path \in SUBSET Pointers : IsSource(s) =>
                 /\ IsInstruction(Expand(s, path), R, M, E) /\ IsInstruction(Inline(s, path), R, M, E)
                 /\ IsCall(<<Expand(s, path)>>, R)
           /\ \A a \in R : IsInstruction(Return(a), R, M, E) /\ IsCall(<<Return(a)>>, R)
           /\ \A a, b \in R : \A n \in Nat :
                 /\ IsInstruction(Merge(a, n), R, M, E) /\ IsInstruction(Join(a, n), R, M, E)
                 /\ IsCall(<<Return(b), Merge(a, n)>>, R)
           /\ \A q : \A how \in {"merge", "join"} : \A n \in Nat :
                 IsCall(q, R) => IsInstruction(And(q, how, n), R, M, E)
           /\ \A c \in E : IsInstruction(Store(c), R, M, E) /\ IsInstruction(Refer(c), R, M, E)
           /\ \A left \in Seq(Schemas) : \A path \in SUBSET Pointers :
                 IsInstruction(Branches(left, path), R, M, E)
           /\ \A a \in M : \A f \in Fields \cup {None} : \A todo :
                 DOMAIN todo \subseteq Fields /\ (\A g \in DOMAIN todo : IsCall(todo[g], R))
                    => IsInstruction(Build(a, f, todo), R, M, E)
<1>1. ASSUME NEW s, NEW path \in SUBSET Pointers, IsSource(s)
      PROVE  /\ IsInstruction(Expand(s, path), R, M, E) /\ IsInstruction(Inline(s, path), R, M, E)
             /\ IsCall(<<Expand(s, path)>>, R)
  BY <1>1 DEF IsInstruction, IsSimple, IsCall, Expand, Inline
<1>2. ASSUME NEW a \in R
      PROVE  IsInstruction(Return(a), R, M, E) /\ IsCall(<<Return(a)>>, R)
  BY DEF IsInstruction, IsSimple, IsCall, Return
<1>3. ASSUME NEW a \in R, NEW b \in R, NEW n \in Nat
      PROVE  /\ IsInstruction(Merge(a, n), R, M, E) /\ IsInstruction(Join(a, n), R, M, E)
             /\ IsCall(<<Return(b), Merge(a, n)>>, R)
  BY DEF IsInstruction, IsSimple, IsCall, Return, Merge, Join
<1>4. ASSUME NEW q, NEW how \in {"merge", "join"}, NEW n \in Nat, IsCall(q, R)
      PROVE  IsInstruction(And(q, how, n), R, M, E)
  BY <1>4 DEF IsInstruction, IsSimple, And
<1>5. ASSUME NEW c \in E
      PROVE  IsInstruction(Store(c), R, M, E) /\ IsInstruction(Refer(c), R, M, E)
  BY DEF IsInstruction, IsSimple, Store, Refer
<1>6. ASSUME NEW left \in Seq(Schemas), NEW path \in SUBSET Pointers
      PROVE  IsInstruction(Branches(left, path), R, M, E)
  BY DEF IsInstruction, IsSimple, Branches
<1>7. ASSUME NEW a \in M, NEW f \in Fields \cup {None}, NEW todo,
             DOMAIN todo \subseteq Fields, \A g \in DOMAIN todo : IsCall(todo[g], R)
      PROVE  IsInstruction(Build(a, f, todo), R, M, E)
  BY <1>7 DEF IsInstruction, IsSimple, Build
<1>8. QED
  BY <1>1, <1>2, <1>3, <1>4, <1>5, <1>6, <1>7

\* Which of them begin or end nothing, and which need no result.
LEMMA Kinds ==
    /\ \A s, path : /\ IsQuiet(Expand(s, path)) /\ IsQuiet(Inline(s, path))
                    /\ Returns(Expand(s, path)) /\ Returns(Inline(s, path))
    /\ \A a, n : /\ IsQuiet(Return(a)) /\ IsQuiet(Merge(a, n)) /\ IsQuiet(Join(a, n))
                 /\ Returns(Return(a))
    /\ \A q, how, n : IsQuiet(And(q, how, n))
    /\ \A c : IsQuiet(Refer(c))
    /\ \A left, path : IsQuiet(Branches(left, path))
BY DEF IsQuiet, Returns, Expand, Inline, Return, Merge, Join, And, Refer, Branches

\* What a call that combines is called with.
LEMMA Calls ==
    ASSUME NEW R, NEW M, NEW E, NEW q, IsCall(q, R)
    PROVE  /\ IsSequence(q) /\ q # <<>> /\ DOMAIN q \subseteq {1, 2} /\ 1 \in DOMAIN q
           /\ \A j \in DOMAIN q : IsQuiet(q[j]) /\ IsInstruction(q[j], R, M, E)
           /\ Returns(q[1])
<1>1. CASE q = <<q[1]>> /\ q[1].do \in {"expand", "return"}
  <2>1. DOMAIN q = {1}
    BY <1>1
  <2>2. IsSequence(q)
    BY <1>1, Tuples
  <2>3. QED
    BY <1>1, <2>1, <2>2 DEF IsCall, IsInstruction, IsQuiet, Returns
<1>2. CASE q = <<q[1], q[2]>> /\ q[1].do = "return" /\ q[2].do = "merge" /\ IsSimple(q[2], R)
  <2>1. DOMAIN q = {1, 2}
    BY <1>2
  <2>2. IsSequence(q)
    BY <1>2, Tuples
  <2>3. QED
    BY <1>2, <2>1, <2>2 DEF IsCall, IsInstruction, IsQuiet, Returns
<1>3. QED
  BY <1>1, <1>2 DEF IsCall

\* A quiet step puts nothing, one, two or three instructions in the head's place.
QuietBegins ==
    /\ place # None /\ program # <<>> /\ IsQuiet(Now) /\ UNCHANGED <<place, document, expanded, defs>>
    /\ Extended /\ \A a \in Added : heap'[a] \in Dicts(Ready, DOMAIN defs)
    /\ result' \in Handed \cup {Expanding}
Quiet(i) == IsQuiet(i) /\ IsInstruction(i, Handed, Made \cup Added, DOMAIN defs)

\* Nothing,
LEMMA QuietNone ==
    ASSUME IInv, QuietBegins, Then(<<>>), result' # Expanding
    PROVE  IInv' /\ Kept
<1>1. IsSequence(<<>>)
  BY Tuples
<1>2. DOMAIN <<>> = {}
  OBVIOUS
<1>3. QED
  BY <1>1, <1>2, QuietStep DEF QuietBegins

\* one instruction,
LEMMA QuietOne ==
    ASSUME IInv, QuietBegins, NEW i, Then(<<i>>), Quiet(i), Returns(i) \/ result' # Expanding
    PROVE  IInv' /\ Kept
<1> DEFINE q == <<i>>
<1>1. IsSequence(q)
  BY Tuples
<1>2. DOMAIN q = {1} /\ q[1] = i /\ q # <<>> /\ Then(q)
  OBVIOUS
<1> HIDE DEF q
<1>3. QED
  BY <1>1, <1>2, QuietStep DEF QuietBegins, Quiet

\* two,
LEMMA QuietTwo ==
    ASSUME IInv, QuietBegins, NEW i, NEW j, Then(<<i, j>>), Quiet(i), Quiet(j),
           Returns(i) \/ result' # Expanding
    PROVE  IInv' /\ Kept
<1> DEFINE q == <<i, j>>
<1>1. IsSequence(q)
  BY Tuples
<1>2. DOMAIN q = {1, 2} /\ q[1] = i /\ q[2] = j /\ q # <<>> /\ Then(q)
  OBVIOUS
<1> HIDE DEF q
<1>3. QED
  BY <1>1, <1>2, QuietStep DEF QuietBegins, Quiet

\* or three.
LEMMA QuietThree ==
    ASSUME IInv, QuietBegins, NEW i, NEW j, NEW k, Then(<<i, j, k>>), Quiet(i), Quiet(j), Quiet(k),
           Returns(i) \/ result' # Expanding
    PROVE  IInv' /\ Kept
<1> DEFINE q == <<i, j, k>>
<1>1. IsSequence(q)
  BY Tuples
<1>2. DOMAIN q = {1, 2, 3} /\ q[1] = i /\ q[2] = j /\ q[3] = k /\ q # <<>> /\ Then(q)
  OBVIOUS
<1> HIDE DEF q
<1>3. QED
  BY <1>1, <1>2, QuietStep DEF QuietBegins, Quiet

\* When the heap stays as it is, or gets another dict.
LEMMA QuietUnchanged ==
    ASSUME IInv, place # None, program # <<>>, IsQuiet(Now), UNCHANGED <<place, document, expanded, defs, heap>>,
           result' \in Ready \cup {Expanding}
    PROVE  QuietBegins /\ Ready \subseteq Handed /\ Made \subseteq Made \cup Added
BY HeapUnchanged DEF IInv, QuietBegins, Handed

\* (A new dict may be handed on at once.)
LEMMA QuietAppended ==
    ASSUME IInv, place # None, program # <<>>, IsQuiet(Now), UNCHANGED <<place, document, expanded, defs>>,
           NEW d, heap' = Append(heap, d), d \in Dicts(Ready, DOMAIN defs),
           result' \in Ready \cup {Expanding, New}
    PROVE  QuietBegins /\ Ready \subseteq Handed /\ New \in Handed /\ New # Expanding
<1>1. Extended /\ Added = {New} /\ heap'[New] = d
  BY HeapAppended DEF IInv
<1>2. New # Expanding
  BY HeapDomain DEF IInv
<1>3. QED
  BY <1>1, <1>2 DEF QuietBegins, Handed

-----------------------------------------------------------------------------
(* Each action keeps the invariant. *)

\* What the invariant says of a step's beginning.
LEMMA Begins ==
    ASSUME IInv, program # <<>>
    PROVE  /\ IsInstruction(Now, Ready, Made, DOMAIN defs) /\ HeapSound /\ document \in Documents
           /\ result \in Ready \cup {Expanding}
           /\ place # None /\ ~Returns(Now) => result \in Ready /\ result # Expanding
           /\ Ready \subseteq Made /\ Expanding \notin Made
           /\ \A a \in Made : heap[a] \in Dicts(Ready, DOMAIN defs)
<1>1. HeapSound /\ HandlesSound /\ ProgramSound /\ ResultBeforeUse
  BY DEF IInv
<1>2. IsInstruction(Now, Ready, Made, DOMAIN defs)
  BY <1>1, HeadFits
<1>3. Ready \subseteq Made /\ Expanding \notin Made
  BY DEF Ready, Made
<1>4. QED
  BY <1>1, <1>2, <1>3 DEF HandlesSound, HeapSound, ResultBeforeUse

\* A pointer elsewhere is resolved in place.
LEMMA ExpandElsewhereStep ==
    ASSUME IInv, ExpandElsewhere
    PROVE  IInv' /\ Kept
<1> DEFINE i == Inline(Now.schema, Now.path)
<1>1. /\ place # None /\ program # <<>> /\ Now.do = "expand" /\ Then(<<i>>)
      /\ UNCHANGED <<document, heap, defs, expanded, place, result>>
  BY DEF ExpandElsewhere, Doing
<1>2. IsInstruction(Now, Ready, Made, DOMAIN defs) /\ result \in Ready \cup {Expanding}
  BY <1>1, Begins
<1>3. IsSource(Now.schema) /\ Now.path \in SUBSET Pointers /\ IsQuiet(Now)
  BY <1>1, <1>2 DEF IsInstruction, IsSimple, IsQuiet
<1>4. QuietBegins
  BY <1>1, <1>2, <1>3, QuietUnchanged
<1>5. Quiet(i) /\ Returns(i)
  BY <1>3, Instructions, Kinds DEF Quiet
<1> HIDE DEF i
<1>6. QED
  BY <1>1, <1>4, <1>5, QuietOne

\* In place, a schema that is no reference is expanded as any other.
LEMMA InlinePlainStep ==
    ASSUME IInv, InlinePlain
    PROVE  IInv' /\ Kept
<1> DEFINE i == Expand(Now.schema, Now.path)
<1>1. /\ place # None /\ program # <<>> /\ Now.do = "inline" /\ Then(<<i>>)
      /\ UNCHANGED <<document, heap, defs, expanded, place, result>>
  BY DEF InlinePlain, Doing
<1>2. IsInstruction(Now, Ready, Made, DOMAIN defs) /\ result \in Ready \cup {Expanding}
  BY <1>1, Begins
<1>3. IsSource(Now.schema) /\ Now.path \in SUBSET Pointers /\ IsQuiet(Now)
  BY <1>1, <1>2 DEF IsInstruction, IsSimple, IsQuiet
<1>4. QuietBegins
  BY <1>1, <1>2, <1>3, QuietUnchanged
<1>5. Quiet(i) /\ Returns(i)
  BY <1>3, Instructions, Kinds DEF Quiet
<1> HIDE DEF i
<1>6. QED
  BY <1>1, <1>4, <1>5, QuietOne

\* A dict is returned that was ready.
LEMMA ReturnDictStep ==
    ASSUME IInv, ReturnDict
    PROVE  IInv' /\ Kept
<1>1. /\ place # None /\ program # <<>> /\ Now.do = "return" /\ Then(<<>>) /\ result' = Now.node
      /\ UNCHANGED <<document, heap, defs, expanded, place>>
  BY DEF ReturnDict, Doing
<1>2. IsInstruction(Now, Ready, Made, DOMAIN defs) /\ Ready \subseteq Made /\ Expanding \notin Made
  BY <1>1, Begins
<1>3. Now.node \in Ready /\ IsQuiet(Now)
  BY <1>1, <1>2 DEF IsInstruction, IsSimple, IsQuiet
<1>4. QuietBegins
  BY <1>1, <1>3, QuietUnchanged
<1>5. QED
  BY <1>1, <1>2, <1>3, <1>4, QuietNone

\* Two dicts that open nothing are joined.
LEMMA MergeAsTheyAreStep ==
    ASSUME IInv, MergeAsTheyAre
    PROVE  IInv' /\ Kept
<1> DEFINE i == Join(Now.base, Now.depth)
<1>1. /\ place # None /\ program # <<>> /\ Now.do = "merge" /\ Then(<<i>>)
      /\ UNCHANGED <<document, heap, defs, expanded, place, result>>
  BY DEF MergeAsTheyAre, Doing
<1>2. /\ IsInstruction(Now, Ready, Made, DOMAIN defs)
      /\ ~Returns(Now) => result \in Ready /\ result # Expanding
  BY <1>1, Begins
<1>3. Now.base \in Ready /\ Now.depth \in Nat /\ IsQuiet(Now) /\ ~Returns(Now)
  BY <1>1, <1>2 DEF IsInstruction, IsSimple, IsQuiet, Returns
<1>4. QuietBegins /\ Ready \subseteq Handed
  BY <1>1, <1>2, <1>3, QuietUnchanged
<1>5. Quiet(i)
  BY <1>3, <1>4, Instructions, Kinds DEF Quiet
<1> HIDE DEF i
<1>6. QED
  BY <1>1, <1>2, <1>3, <1>4, <1>5, QuietOne

\* An allOf begins with an empty dict,
LEMMA ExpandAllOfStep ==
    ASSUME IInv, ExpandAllOf
    PROVE  IInv' /\ Kept
<1> DEFINE i == Branches(Now.schema.all, Now.path)
<1>1. /\ place # None /\ program # <<>> /\ Now.do = "expand" /\ Now.schema.all # None /\ Then(<<i>>)
      /\ heap' = Append(heap, Empty) /\ result' = New
      /\ UNCHANGED <<document, defs, expanded, place>>
  BY DEF ExpandAllOf, Doing, Make
<1>2. IsInstruction(Now, Ready, Made, DOMAIN defs)
  BY <1>1, Begins
<1>3. IsSource(Now.schema) /\ Now.path \in SUBSET Pointers /\ IsQuiet(Now)
  BY <1>1, <1>2 DEF IsInstruction, IsSimple, IsQuiet
<1>4. Empty \in Dicts(Ready, DOMAIN defs)
  BY EmptyIsSource, NewDicts
<1>5. QuietBegins /\ New # Expanding
  BY <1>1, <1>3, <1>4, QuietAppended
<1>6. Now.schema.all \in Seq(Schemas)
  BY <1>1, <1>3, SourceParts
<1>7. Quiet(i)
  BY <1>3, <1>6, Instructions, Kinds DEF Quiet
<1> HIDE DEF i
<1>8. QED
  BY <1>1, <1>5, <1>7, QuietOne

\* into which its branches are merged in turn.
LEMMA NextBranchStep ==
    ASSUME IInv, NextBranch
    PROVE  IInv' /\ Kept
<1> DEFINE i == Inline(Head(Now.left), Now.path)
           j == Merge(result, 0)
           k == Branches(Tail(Now.left), Now.path)
<1>1. /\ place # None /\ program # <<>> /\ Now.do = "branches"
      /\ IF Now.left = <<>> THEN Then(<<>>) ELSE Then(<<i, j, k>>)
      /\ UNCHANGED <<document, heap, defs, expanded, place, result>>
  BY DEF NextBranch, Doing
<1>2. /\ IsInstruction(Now, Ready, Made, DOMAIN defs)
      /\ ~Returns(Now) => result \in Ready /\ result # Expanding
  BY <1>1, Begins
<1>3. /\ Now.left \in Seq(Schemas) /\ Now.path \in SUBSET Pointers /\ IsQuiet(Now)
      /\ result \in Ready /\ result # Expanding
  BY <1>1, <1>2 DEF IsInstruction, IsQuiet, Returns
<1>4. QuietBegins /\ Ready \subseteq Handed
  BY <1>1, <1>3, QuietUnchanged
<1>5. CASE Now.left = <<>>
  BY <1>1, <1>3, <1>4, <1>5, QuietNone
<1>6. CASE Now.left # <<>>
  <2>1. IsSource(Head(Now.left)) /\ Tail(Now.left) \in Seq(Schemas)
    BY <1>3, <1>6, BranchIsSource
  <2>2. Quiet(i)
    BY <2>1, <1>3, Instructions, Kinds DEF Quiet
  <2>3. Quiet(j)
    BY <1>3, <1>4, Instructions, Kinds DEF Quiet
  <2>4. Quiet(k)
    BY <2>1, <1>3, Instructions, Kinds DEF Quiet
  <2> HIDE DEF i, j, k
  <2>5. QED
    BY <1>1, <1>3, <1>4, <1>6, <2>2, <2>3, <2>4, QuietThree
<1>7. QED
  BY <1>5, <1>6

\* The reference is a new dict, to an entry there is.
LEMMA ReferToEntryStep ==
    ASSUME IInv, ReferToEntry
    PROVE  IInv' /\ Kept
<1> DEFINE d == Beside(heap[result], Now.entry)
<1>1. /\ place # None /\ program # <<>> /\ Now.do = "refer" /\ Then(<<>>)
      /\ heap' = Append(heap, d) /\ result' = New
      /\ UNCHANGED <<document, defs, expanded, place>>
  BY DEF ReferToEntry, Doing, Make
<1>2. /\ IsInstruction(Now, Ready, Made, DOMAIN defs) /\ Ready \subseteq Made
      /\ ~Returns(Now) => result \in Ready
      /\ \A a \in Made : heap[a] \in Dicts(Ready, DOMAIN defs)
  BY <1>1, Begins
<1>3. Now.entry \in DOMAIN defs /\ IsQuiet(Now) /\ result \in Ready
  BY <1>1, <1>2 DEF IsInstruction, IsQuiet, Returns
<1>4. d \in Dicts(Ready, DOMAIN defs)
  BY <1>2, <1>3, DictsOfDicts
<1> HIDE DEF d
<1>5. QuietBegins /\ New # Expanding
  BY <1>1, <1>3, <1>4, QuietAppended
<1>6. QED
  BY <1>1, <1>5, QuietNone

\* A pointer on the path is cut, any other resolved further.
LEMMA InlineReferenceStep ==
    ASSUME IInv, InlineReference
    PROVE  IInv' /\ Kept
<1> DEFINE s == Now.schema
           i == And(<<Expand(Siblings(s), Now.path)>>, "merge", 0)
           beside == IF Blank(Siblings(s)) THEN <<>> ELSE <<i>>
           j == Inline(Resolve(s.ref), Now.path \cup {s.ref})
           d == Cut(Resolve(s.ref))
<1>1. /\ place # None /\ program # <<>> /\ Now.do = "inline" /\ s.ref # None
      /\ IF s.ref \in Now.path
           THEN heap' = Append(heap, d) /\ result' = New /\ Then(beside)
           ELSE Then(<<j>> \o beside) /\ UNCHANGED <<heap, result>>
      /\ UNCHANGED <<document, defs, expanded, place>>
  BY DEF InlineReference, Doing, Make
<1>2. /\ IsInstruction(Now, Ready, Made, DOMAIN defs) /\ document \in Documents
      /\ result \in Ready \cup {Expanding}
  BY <1>1, Begins
<1>3. IsSource(s) /\ Now.path \in SUBSET Pointers /\ IsQuiet(Now)
  BY <1>1, <1>2 DEF IsInstruction, IsSimple, IsQuiet
<1>4. s.ref \in Pointers /\ IsSource(Siblings(s)) /\ IsSource(Resolve(s.ref))
  BY <1>1, <1>2, <1>3, SourceParts, ResolvedIsSource
<1>5. Quiet(i)
  <2>1. IsCall(<<Expand(Siblings(s), Now.path)>>, Handed)
    BY <1>3, <1>4, Instructions
  <2>2. QED
    BY <2>1, Instructions, Kinds DEF Quiet
<1>6. Quiet(j) /\ Returns(j)
  BY <1>3, <1>4, Instructions, Kinds DEF Quiet
<1>7. d \in Dicts(Ready, DOMAIN defs)
  BY <1>4, NewDicts
<1>8. <<j>> \o <<i>> = <<j, i>> /\ <<j>> \o <<>> = <<j>>
  BY Tuples
<1>9. beside = <<>> \/ beside = <<i>>
  OBVIOUS
<1> HIDE DEF i, j, d, s, beside
<1>10. CASE s.ref \in Now.path
  <2>1. QuietBegins /\ New # Expanding
    BY <1>1, <1>3, <1>7, <1>10, QuietAppended
  <2>2. QED
    BY <1>1, <1>5, <1>9, <1>10, <2>1, QuietNone, QuietOne
<1>11. CASE s.ref \notin Now.path
  <2>1. QuietBegins
    BY <1>1, <1>2, <1>3, <1>11, QuietUnchanged
  <2>2. Then(<<j>>) \/ Then(<<j, i>>)
    BY <1>1, <1>8, <1>9, <1>11
  <2>3. QED
    BY <1>5, <1>6, <2>1, <2>2, QuietOne, QuietTwo
<1>12. QED
  BY <1>10, <1>11

\* What was returned is kept, for what the calls will return.
LEMMA ThenCombineStep ==
    ASSUME IInv, ThenCombine
    PROVE  IInv' /\ Kept
<1> DEFINE i == [do |-> Now.how, base |-> result, depth |-> Now.depth]
           p == Now.calls
           q == p \o <<i>>
<1>1. /\ place # None /\ program # <<>> /\ Now.do = "and" /\ Then(q)
      /\ UNCHANGED <<document, heap, defs, expanded, place, result>>
  BY DEF ThenCombine, Doing
<1>2. /\ IsInstruction(Now, Ready, Made, DOMAIN defs)
      /\ ~Returns(Now) => result \in Ready /\ result # Expanding
  BY <1>1, Begins
<1>3. /\ IsCall(p, Ready) /\ Now.how \in {"merge", "join"} /\ Now.depth \in Nat /\ IsQuiet(Now)
      /\ result \in Ready /\ result # Expanding
  BY <1>1, <1>2 DEF IsInstruction, IsQuiet, Returns
<1>4. QuietBegins /\ Ready \subseteq Handed
  BY <1>1, <1>3, QuietUnchanged
<1>5. Quiet(i)
  BY <1>3, <1>4 DEF Quiet, IsQuiet, IsInstruction, IsSimple
<1>6. IsSequence(p) /\ \A k \in DOMAIN p : Quiet(p[k])
  BY <1>3, <1>4, CallGrows, Calls DEF Quiet
<1>7. IsSequence(<<i>>)
  BY Tuples
<1>8. DOMAIN <<i>> = {1} /\ <<i>>[1] = i
  OBVIOUS
<1>9. IsSequence(q) /\ \A k \in DOMAIN q : Quiet(q[k])
  <2> DEFINE r == <<i>>
  <2>1. IsSequence(r) /\ \A k \in DOMAIN r : Quiet(r[k])
    BY <1>5, <1>7, <1>8
  <2>2. q = p \o r
    OBVIOUS
  <2> HIDE DEF i, p, q, r
  <2>3. /\ IsSequence(q)
        /\ \A k \in DOMAIN p : q[k] = p[k]
        /\ \A k \in DOMAIN q \ DOMAIN p : k - Len(p) \in DOMAIN r /\ q[k] = r[k - Len(p)]
    BY <2>1, <2>2, <1>6, InARow
  <2>4. QED
    BY <2>1, <2>3, <1>6
<1> HIDE DEF i, p, q
<1>10. QED
  BY <1>1, <1>3, <1>4, <1>9, QuietStep DEF QuietBegins, Quiet

\* An entry that is opened is ready: it is not the sentinel.
LEMMA MergeOpensStep ==
    ASSUME IInv, MergeOpens
    PROVE  IInv' /\ Kept
<1> DEFINE base == heap[Now.base]
           over == heap[result]
           Opened(a, opens, siblings) ==
               IF opens THEN <<Return(siblings), Merge(defs[heap[a].ref.name], Now.depth + 1)>>
               ELSE <<Return(a)>>
           p == Opened(Now.base, Opens(base, over), New)
           i == And(Opened(result, Opens(over, base), New + 1), "join", Now.depth)
           q == p \o <<i>>
<1>1. /\ place # None /\ program # <<>> /\ Now.do = "merge" /\ Then(q)
      /\ heap' = heap \o <<Siblings(base), Siblings(over)>>
      /\ UNCHANGED <<document, defs, expanded, place, result>>
  BY DEF MergeOpens, Doing
<1>2. /\ IsInstruction(Now, Ready, Made, DOMAIN defs) /\ HeapSound /\ Ready \subseteq Made
      /\ ~Returns(Now) => result \in Ready /\ result # Expanding
      /\ \A a \in Made : heap[a] \in Dicts(Ready, DOMAIN defs)
  BY <1>1, Begins
<1>3. /\ Now.base \in Ready /\ Now.depth \in Nat /\ IsQuiet(Now)
      /\ result \in Ready /\ result # Expanding
  BY <1>1, <1>2 DEF IsInstruction, IsSimple, IsQuiet, Returns
<1>4. Extended /\ Added = {New, New + 1} /\ heap'[New] = Siblings(base) /\ heap'[New + 1] = Siblings(over)
  BY <1>1, <1>2, HeapAppendedTwice
<1>5. Siblings(base) \in Dicts(Ready, DOMAIN defs) /\ Siblings(over) \in Dicts(Ready, DOMAIN defs)
  BY <1>2, <1>3, DictsOfDicts
<1>6. QuietBegins /\ Ready \subseteq Handed /\ New \in Handed /\ New + 1 \in Handed
  BY <1>1, <1>3, <1>4, <1>5 DEF QuietBegins, Handed
<1>7. ASSUME NEW s, NEW t, Opens(s, t)
      PROVE  defs[s.ref.name] \in Handed
  <2>1. s.ref.name \in DOMAIN defs /\ defs[s.ref.name] # Expanding
    BY <1>7 DEF Opens
  <2>2. defs \in [DOMAIN defs -> Ready \cup {Expanding}]
    BY SomeOfFacts DEF IInv, HandlesSound
  <2>3. QED
    BY <2>1, <2>2, <1>6
<1>8. ASSUME NEW a \in Ready, NEW b \in Handed, NEW opens \in BOOLEAN,
             opens => defs[heap[a].ref.name] \in Handed
      PROVE  IsCall(Opened(a, opens, b), Handed)
  <2>1. Now.depth + 1 \in Nat
    BY <1>3
  <2>2. CASE opens
    <3>1. IsCall(<<Return(b), Merge(defs[heap[a].ref.name], Now.depth + 1)>>, Handed)
      BY <2>1, <2>2, <1>8, Instructions
    <3>2. QED
      BY <2>2, <3>1
  <2>3. CASE ~opens
    <3>1. IsCall(<<Return(a)>>, Handed)
      BY <1>6, Instructions
    <3>2. QED
      BY <2>3, <3>1
  <2>4. QED
    BY <2>2, <2>3
<1>9. Opens(base, over) \in BOOLEAN /\ Opens(over, base) \in BOOLEAN
  BY DEF Opens
<1>10. IsCall(p, Handed)
  BY <1>3, <1>6, <1>7, <1>8, <1>9
<1>11. IsCall(Opened(result, Opens(over, base), New + 1), Handed)
  BY <1>3, <1>6, <1>7, <1>8, <1>9
<1>12. Quiet(i)
  BY <1>3, <1>11, Instructions, Kinds DEF Quiet
<1>13. IsSequence(p) /\ \A k \in DOMAIN p : Quiet(p[k])
  BY <1>10, Calls DEF Quiet
<1>14. IsSequence(q) /\ \A k \in DOMAIN q : Quiet(q[k])
  <2> DEFINE r == <<i>>
  <2> HIDE DEF i, p
  <2>1. IsSequence(r)
    BY Tuples
  <2>2. \A k \in DOMAIN r : Quiet(r[k])
    BY <1>12
  <2>3. q = p \o r
    OBVIOUS
  <2> HIDE DEF q, r
  <2>4. /\ IsSequence(q)
        /\ \A k \in DOMAIN p : q[k] = p[k]
        /\ \A k \in DOMAIN q \ DOMAIN p : k - Len(p) \in DOMAIN r /\ q[k] = r[k - Len(p)]
    BY <2>1, <2>3, <1>13, InARow
  <2>5. QED
    BY <2>2, <2>4, <1>13
<1> HIDE DEF i, p, q
<1>15. QED
  BY <1>1, <1>3, <1>6, <1>14, QuietStep DEF QuietBegins, Quiet

\* A builder starts on a dict that is new.
LEMMA BuilderStarts ==
    ASSUME IInv, place # None, program # <<>>, IsQuiet(Now), NEW d, heap' = Append(heap, d),
           d \in Dicts(Ready, DOMAIN defs), NEW todo, Then(<<Build(New, None, todo)>>),
           DOMAIN todo \subseteq Fields, \A f \in DOMAIN todo : IsCall(todo[f], Ready),
           UNCHANGED <<document, defs, expanded, place, result>>
    PROVE  IInv' /\ Kept
<1> DEFINE i == Build(New, None, todo)
           q == <<i>>
<1>1. /\ HeapSound /\ HandlesSound /\ ProgramSound /\ OneEach(program) /\ ReservedAreStored
      /\ IsSequence(program)
  BY DEF IInv, ProgramSound
<1>2. Extended /\ Added = {New} /\ heap'[New] = d
  BY <1>1, HeapAppended
<1>3. New \notin Made /\ Builds(program) \subseteq Made /\ New # Expanding
  BY <1>1, HeapDomain, BuildsAreMade DEF Made
<1>4. i.do = "build" /\ i.node = New /\ i.field = None
  BY DEF Build
<1>5. IsInstruction(i, Ready, Made \cup {New}, DOMAIN defs)
  BY Instructions
<1>6. IsSequence(q) /\ Then(q)
  BY Tuples
<1>7. DOMAIN q = {1} /\ q[1] = i /\ q # <<>>
  OBVIOUS
<1>8. OneEach(q) /\ Builds(q) = {New} /\ Stores(q) = {}
  BY <1>4, <1>7 DEF OneEach, Builds, Stores
<1>9. BuiltBy(Now) = {} /\ StoredBy(Now) = {}
  BY DEF IsQuiet, BuiltBy, StoredBy
<1> HIDE DEF i, q
<1>10. /\ Builds(program') = {New} \cup Builds(program) /\ Stores(program') = Stores(program)
       /\ program' # <<>> /\ Now' = i
  BY <1>1, <1>3, <1>6, <1>7, <1>8, <1>9, AfterThen DEF Now
<1>11. Made' = Made \cup {New} /\ Ready' = Ready
  BY <1>1, <1>2, <1>3, <1>10, HeapDomain DEF Made, Ready, Added, Extended
<1>12. ProgramSound' /\ OneEach(program')
  BY <1>1, <1>3, <1>5, <1>6, <1>7, <1>8, <1>9, <1>11, ProgramGoesOn
<1>13. HeapSound'
  BY <1>1, <1>2, <1>11, HeapGoesOn
<1>14. HandlesSound'
  BY <1>1, <1>11, HandlesGoOn DEF HandlesSound
<1>15. ReservedAreStored'
  BY <1>1, <1>10 DEF ReservedAreStored
<1>16. ResultBeforeUse'
  BY <1>4, <1>10 DEF ResultBeforeUse, Returns
<1>17. Kept
  BY <1>1, <1>2, <1>11, HeapDomain DEF Kept, Made, Extended
<1>18. QED
  BY <1>12, <1>13, <1>14, <1>15, <1>16, <1>17 DEF IInv

\* A copy is built of a schema's dict,
LEMMA ExpandNestedStep ==
    ASSUME IInv, ExpandNested
    PROVE  IInv' /\ Kept
<1> DEFINE s == Now.schema
           d == [s EXCEPT !.props = NoProps]
           todo == [f \in DOMAIN s.props |-> <<Expand(s.props[f], Now.path)>>]
<1>1. /\ place # None /\ program # <<>> /\ Now.do = "expand" /\ s.ref = None /\ s.all = None
      /\ heap' = Append(heap, d) /\ Then(<<Build(New, None, todo)>>)
      /\ UNCHANGED <<document, defs, expanded, place, result>>
  BY DEF ExpandNested, Doing, Make
<1>2. IsInstruction(Now, Ready, Made, DOMAIN defs)
  BY <1>1, Begins
<1>3. IsSource(s) /\ Now.path \in SUBSET Pointers /\ IsQuiet(Now)
  BY <1>1, <1>2 DEF IsInstruction, IsSimple, IsQuiet
<1>4. d \in Dicts(Ready, DOMAIN defs)
  BY <1>1, <1>3, NewDicts
<1>5. DOMAIN todo \subseteq Fields /\ \A f \in DOMAIN todo : IsCall(todo[f], Ready)
  <2>1. DOMAIN s.props \subseteq Fields /\ \A f \in DOMAIN s.props : IsSource(s.props[f])
    BY <1>3, SourceParts
  <2>2. ASSUME NEW f \in DOMAIN s.props PROVE IsCall(<<Expand(s.props[f], Now.path)>>, Ready)
    BY <2>1, <1>3, Instructions
  <2>3. QED
    BY <2>1, <2>2
<1> HIDE DEF d, todo
<1>6. QED
  BY <1>1, <1>3, <1>4, <1>5, BuilderStarts

\* and of the base when two dicts are joined.
LEMMA JoinDictsStep ==
    ASSUME IInv, JoinDicts
    PROVE  IInv' /\ Kept
<1> DEFINE base == heap[Now.base]
           over == heap[result]
           d == Joined(base, over)
           todo == [f \in Merges(base, over) |->
                       <<Return(over.props[f]), Merge(base.props[f], Now.depth + 1)>>]
<1>1. /\ place # None /\ program # <<>> /\ Now.do = "join"
      /\ heap' = WithKey(heap, New, d) /\ Then(<<Build(New, None, todo)>>)
      /\ UNCHANGED <<document, defs, expanded, place, result>>
  BY DEF JoinDicts, Doing, CopyOf
<1>2. /\ IsInstruction(Now, Ready, Made, DOMAIN defs) /\ HeapSound /\ Ready \subseteq Made
      /\ ~Returns(Now) => result \in Ready
      /\ \A a \in Made : heap[a] \in Dicts(Ready, DOMAIN defs)
  BY <1>1, Begins
<1>3. Now.base \in Ready /\ Now.depth \in Nat /\ IsQuiet(Now) /\ result \in Ready
  BY <1>1, <1>2 DEF IsInstruction, IsSimple, IsQuiet, Returns
<1>4. base \in Dicts(Ready, DOMAIN defs) /\ over \in Dicts(Ready, DOMAIN defs)
  BY <1>2, <1>3
<1>5. d \in Dicts(Ready, DOMAIN defs)
  BY <1>4, DictsOfDicts
<1>6. DOMAIN todo \subseteq Fields /\ \A f \in DOMAIN todo : IsCall(todo[f], Ready)
  <2>1. /\ base.props \in [DOMAIN base.props -> Ready] /\ DOMAIN base.props \subseteq Fields
        /\ over.props \in [DOMAIN over.props -> Ready]
    BY <1>4, SomeOfFacts DEF Dicts
  <2>2. Now.depth + 1 \in Nat
    BY <1>3
  <2>3. ASSUME NEW f \in Merges(base, over)
        PROVE  IsCall(<<Return(over.props[f]), Merge(base.props[f], Now.depth + 1)>>, Ready)
    <3>1. over.props[f] \in Ready /\ base.props[f] \in Ready
      BY <2>1 DEF Merges
    <3>2. QED
      BY <2>2, <3>1, Instructions
  <2>4. QED
    BY <2>1, <2>3 DEF Merges
<1>7. heap' = Append(heap, d)
  <2> HIDE DEF d, todo
  <2>1. heap \in Seq(Range(heap) \cup {d}) /\ d \in Range(heap) \cup {d}
    BY <1>2, SeqMonotonic DEF HeapSound, IsSequence
  <2>2. /\ DOMAIN heap = 1 .. Len(heap) /\ Len(heap) \in Nat
        /\ Append(heap, d) \in Seq(Range(heap) \cup {d}) /\ Len(Append(heap, d)) = Len(heap) + 1
        /\ \A k \in 1 .. Len(heap) : Append(heap, d)[k] = heap[k]
        /\ Append(heap, d)[Len(heap) + 1] = d
    BY <2>1, <1>2, HeapDomain, AppendProperties
  <2>3. Append(heap, d) = [k \in 1 .. Len(heap) + 1 |-> Append(heap, d)[k]]
    BY <2>2, LenProperties
  <2>4. QED
    BY <1>1, <2>2, <2>3 DEF WithKey, New
<1> HIDE DEF d, todo
<1>8. QED
  BY <1>1, <1>3, <1>5, <1>6, <1>7, BuilderStarts

\* A builder goes on with the dict it has.
LEMMA BuilderGoesOn ==
    ASSUME IInv, place # None, program # <<>>, Now.do = "build",
           NEW q, IsSequence(q), OneEach(q), q # <<>>, Builds(q) = {Now.node}, Stores(q) = {}, Then(q),
           \A j \in DOMAIN q : IsInstruction(q[j], Ready, Made, DOMAIN defs),
           Returns(q[1]) \/ result # Expanding,
           IsSequence(heap'), DOMAIN heap' = DOMAIN heap,
           \A a \in Made : heap'[a] \in Dicts(Ready, DOMAIN defs),
           \A a \in DOMAIN heap \ {Now.node} : heap'[a] = heap[a],
           UNCHANGED <<document, defs, expanded, place, result>>
    PROVE  IInv' /\ Kept
<1>1. /\ HeapSound /\ HandlesSound /\ ProgramSound /\ OneEach(program) /\ ReservedAreStored
      /\ IsSequence(program)
  BY DEF IInv, ProgramSound
<1>2. BuiltBy(Now) = {Now.node} /\ StoredBy(Now) = {}
  BY DEF BuiltBy, StoredBy
<1>3. Now.node \in Builds(program)
  BY <1>1, Rest DEF Builds, Now
<1>4. /\ Builds(program') = Builds(program) /\ Stores(program') = Stores(program)
      /\ program' # <<>> /\ Now' = q[1]
  BY <1>1, <1>2, <1>3, AfterThen DEF Now
<1>5. Made' = Made /\ Ready' = Ready
  BY <1>4 DEF Made, Ready
<1>6. ProgramSound' /\ OneEach(program')
  BY <1>1, <1>2, <1>5, ProgramGoesOn
<1>7. HeapSound'
  <2>1. /\ DOMAIN heap = 1 .. Len(heap) /\ DOMAIN heap' = 1 .. Len(heap')
        /\ Len(heap) \in Nat /\ Len(heap') \in Nat /\ Len(heap) >= 1
    BY <1>1, SequenceFacts DEF HeapSound
  <2>2. Len(heap') >= 1
    BY <2>1
  <2>3. Expanding \in DOMAIN heap \ {Now.node}
    BY <1>1, <1>3, HeapDomain, BuildsAreMade
  <2>4. heap'[Expanding] = Sentinel
    BY <1>1, <2>3 DEF HeapSound
  <2>5. QED
    BY <1>5, <2>2, <2>4 DEF HeapSound
<1>8. HandlesSound'
  BY <1>1, <1>5, HandlesGoOn DEF HandlesSound
<1>9. ReservedAreStored'
  BY <1>1, <1>4 DEF ReservedAreStored
<1>10. ResultBeforeUse'
  BY <1>4 DEF ResultBeforeUse, Returns
<1>11. Kept
  BY <1>1, <1>3, <1>5, HeapDomain, BuildsAreMade DEF Kept, Ready, Made
<1>12. QED
  BY <1>6, <1>7, <1>8, <1>9, <1>10, <1>11 DEF IInv

\* The next property is called for,
LEMMA NextFieldStep ==
    ASSUME IInv, NextField
    PROVE  IInv' /\ Kept
<1>1. PICK f \in DOMAIN Now.todo : Then(Now.todo[f] \o <<Build(Now.node, f, Restrict(Now.todo, DOMAIN Now.todo \ {f}))>>)
  BY DEF NextField
<1> DEFINE p == Now.todo[f]
           todo == Restrict(Now.todo, DOMAIN Now.todo \ {f})
           i == Build(Now.node, f, todo)
           r == <<i>>
           q == p \o r
<1>2. /\ place # None /\ program # <<>> /\ Now.do = "build" /\ Then(q)
      /\ UNCHANGED <<document, heap, defs, expanded, place, result>>
  BY <1>1 DEF NextField, Doing
<1>3. /\ IsInstruction(Now, Ready, Made, DOMAIN defs) /\ HeapSound
      /\ \A a \in Made : heap[a] \in Dicts(Ready, DOMAIN defs)
  BY <1>2, Begins
<1>4. /\ Now.node \in Made /\ DOMAIN Now.todo \subseteq Fields
      /\ \A g \in DOMAIN Now.todo : IsCall(Now.todo[g], Ready)
  BY <1>2, <1>3 DEF IsInstruction
<1>5. /\ IsSequence(p) /\ 1 \in DOMAIN p /\ Returns(p[1])
      /\ \A j \in DOMAIN p : IsQuiet(p[j]) /\ IsInstruction(p[j], Ready, Made, DOMAIN defs)
  BY <1>4, Calls
<1>6. IsInstruction(i, Ready, Made, DOMAIN defs)
  <2>1. DOMAIN todo \subseteq Fields /\ \A g \in DOMAIN todo : IsCall(todo[g], Ready)
    BY <1>4 DEF Restrict
  <2> HIDE DEF todo
  <2>2. QED
    BY <1>4, <2>1, Instructions
<1>7. i.do = "build" /\ i.node = Now.node
  BY DEF Build
<1> HIDE DEF i, p
<1>8. IsSequence(r)
  BY Tuples
<1>9. DOMAIN r = {1} /\ r[1] = i
  OBVIOUS
<1> HIDE DEF r
<1>10. OneEach(r) /\ Builds(r) = {Now.node} /\ Stores(r) = {}
  BY <1>7, <1>9 DEF OneEach, Builds, Stores
<1>11. OneEach(p) /\ Builds(p) = {} /\ Stores(p) = {}
  BY <1>5 DEF OneEach, Builds, Stores, IsQuiet
<1>12. OneEach(q) /\ Builds(q) = {Now.node} /\ Stores(q) = {}
  BY <1>5, <1>8, <1>10, <1>11, BothInARow
<1>13. /\ IsSequence(q)
       /\ \A j \in DOMAIN p : j \in DOMAIN q /\ q[j] = p[j]
       /\ \A j \in DOMAIN q \ DOMAIN p : j - Len(p) \in DOMAIN r /\ q[j] = r[j - Len(p)]
  BY <1>5, <1>8, InARow
<1>14. \A j \in DOMAIN q : IsInstruction(q[j], Ready, Made, DOMAIN defs)
  BY <1>5, <1>6, <1>9, <1>13
<1>15. q # <<>> /\ Returns(q[1])
  BY <1>5, <1>13, SequenceFacts
<1> HIDE DEF q
<1>16. /\ IsSequence(heap') /\ DOMAIN heap' = DOMAIN heap
       /\ \A a \in DOMAIN heap \ {Now.node} : heap'[a] = heap[a]
  BY <1>2, <1>3 DEF HeapSound
<1>17. \A a \in Made : heap'[a] \in Dicts(Ready, DOMAIN defs)
  BY <1>2, <1>3
<1>18. QED
  BY <1>2, <1>12, <1>13, <1>14, <1>15, <1>16, <1>17, BuilderGoesOn

\* is put into the dict, which nobody else holds yet,
LEMMA PutFieldStep ==
    ASSUME IInv, PutField
    PROVE  IInv' /\ Kept
<1> DEFINE i == Build(Now.node, None, Now.todo)
           q == <<i>>
           d == [heap[Now.node] EXCEPT !.props = WithKey(@, Now.field, result)]
<1>1. /\ place # None /\ program # <<>> /\ Now.do = "build" /\ Now.field # None /\ Then(q)
      /\ heap' = [heap EXCEPT ![Now.node] = d]
      /\ UNCHANGED <<document, defs, expanded, place, result>>
  BY DEF PutField, Doing
<1>2. /\ IsInstruction(Now, Ready, Made, DOMAIN defs) /\ HeapSound
      /\ ~Returns(Now) => result \in Ready
      /\ \A a \in Made : heap[a] \in Dicts(Ready, DOMAIN defs)
  BY <1>1, Begins
<1>3. /\ Now.node \in Made /\ Now.field \in Fields /\ DOMAIN Now.todo \subseteq Fields /\ result \in Ready
      /\ \A g \in DOMAIN Now.todo : IsCall(Now.todo[g], Ready)
  BY <1>1, <1>2 DEF IsInstruction, Returns
<1>4. d \in Dicts(Ready, DOMAIN defs)
  BY <1>2, <1>3, DictsOfDicts
<1>5. IsInstruction(i, Ready, Made, DOMAIN defs)
  BY <1>3, Instructions
<1>6. i.do = "build" /\ i.node = Now.node /\ i.field = None
  BY DEF Build
<1> HIDE DEF i, d
<1>7. IsSequence(q)
  BY Tuples
<1>8. DOMAIN q = {1} /\ q[1] = i /\ q # <<>>
  OBVIOUS
<1> HIDE DEF q
<1>9. OneEach(q) /\ Builds(q) = {Now.node} /\ Stores(q) = {} /\ Returns(q[1])
  BY <1>6, <1>8 DEF OneEach, Builds, Stores, Returns
<1>10. /\ IsSequence(heap') /\ DOMAIN heap' = DOMAIN heap
       /\ \A a \in DOMAIN heap : heap'[a] = IF a = Now.node THEN d ELSE heap[a]
  <2>1. heap \in Seq(Range(heap) \cup {d}) /\ d \in Range(heap) \cup {d}
    BY <1>2, SeqMonotonic DEF HeapSound, IsSequence
  <2>2. Now.node \in 1 .. Len(heap) /\ DOMAIN heap = 1 .. Len(heap)
    BY <1>2, <1>3, HeapDomain DEF Made
  <2>3. heap' \in Seq(Range(heap) \cup {d})
    BY <1>1, <2>1, <2>2, ExceptSeq
  <2>4. IsSequence(heap')
    BY <2>3, SequenceOf
  <2>5. QED
    BY <1>1, <2>4
<1>11. \A a \in Made : heap'[a] \in Dicts(Ready, DOMAIN defs)
  BY <1>2, <1>4, <1>10 DEF Made
<1>12. QED
  BY <1>1, <1>5, <1>7, <1>8, <1>9, <1>10, <1>11, BuilderGoesOn

\* and after the last the dict is ready.
LEMMA LastFieldStep ==
    ASSUME IInv, LastField
    PROVE  IInv' /\ Kept
<1>1. /\ place # None /\ program # <<>> /\ Now.do = "build" /\ Then(<<>>) /\ result' = Now.node
      /\ UNCHANGED <<document, heap, defs, expanded, place>>
  BY DEF LastField, Doing
<1>2. /\ IsInstruction(Now, Ready, Made, DOMAIN defs) /\ HeapSound /\ Expanding \notin Made
  BY <1>1, Begins
<1>3. Now.node \in Made
  BY <1>1, <1>2 DEF IsInstruction
<1>4. /\ HandlesSound /\ ProgramSound /\ OneEach(program) /\ ReservedAreStored /\ IsSequence(program)
  BY DEF IInv, ProgramSound
<1>5. IsSequence(<<>>)
  BY Tuples
<1>6. DOMAIN <<>> = {}
  OBVIOUS
<1>7. OneEach(<<>>) /\ Builds(<<>>) = {} /\ Stores(<<>>) = {}
  BY <1>6 DEF OneEach, Builds, Stores
<1>8. BuiltBy(Now) = {Now.node} /\ StoredBy(Now) = {}
  BY <1>1 DEF BuiltBy, StoredBy
<1>9. Builds(program') = Builds(program) \ {Now.node} /\ Stores(program') = Stores(program)
  BY <1>1, <1>4, <1>5, <1>7, <1>8, AfterThen
<1>10. Made' = Made /\ Ready' = Ready \cup {Now.node}
  BY <1>1, <1>3, <1>9 DEF Made, Ready
<1>11. ProgramSound' /\ OneEach(program')
  BY <1>1, <1>4, <1>5, <1>6, <1>7, <1>10, ProgramGoesOn
<1>12. HeapSound'
  <2>1. Extended /\ Added = {}
    BY <1>1, <1>2, HeapUnchanged
  <2>2. QED
    BY <2>1, <1>1, <1>2, <1>10, HeapGoesOn
<1>13. HandlesSound'
  BY <1>1, <1>4, <1>10, HandlesGoOn, SomeOfGrows DEF HandlesSound
<1>14. ReservedAreStored'
  BY <1>1, <1>4, <1>9 DEF ReservedAreStored
<1>15. ResultBeforeUse'
  BY <1>1, <1>2, <1>3 DEF ResultBeforeUse
<1>16. Kept
  BY <1>1, <1>2, <1>3, <1>10, DictParts DEF Kept, HeapSound
<1>17. QED
  BY <1>11, <1>12, <1>13, <1>14, <1>15, <1>16 DEF IInv

\* What is stored was reserved by the same call.
LEMMA StoringReserved ==
    ASSUME IInv, program # <<>>, Now.do = "store"
    PROVE  Now.entry \in DOMAIN defs /\ defs[Now.entry] = Expanding
<1>1. Now.entry \in Stores(program)
  BY Rest DEF Stores, Now, IInv, ProgramSound
<1>2. QED
  BY <1>1 DEF IInv, ReservedAreStored

\* An entry is stored by the one call there is to store it.
LEMMA StoreEntryStep ==
    ASSUME IInv, StoreEntry
    PROVE  IInv' /\ Kept
<1> DEFINE c == Now.entry
<1>1. /\ place # None /\ program # <<>> /\ Now.do = "store" /\ Then(<<>>)
      /\ defs' = WithKey(defs, c, result)
      /\ UNCHANGED <<document, heap, expanded, place, result>>
  BY DEF StoreEntry, Doing
<1>2. HeapSound /\ (~Returns(Now) => result \in Ready /\ result # Expanding)
  BY <1>1, Begins
<1>3. /\ result \in Ready /\ result # Expanding
      /\ c \in DOMAIN defs /\ defs[c] = Expanding
  BY <1>1, <1>2, StoringReserved DEF Returns
<1>4. /\ HandlesSound /\ ProgramSound /\ OneEach(program) /\ ReservedAreStored /\ IsSequence(program)
  BY DEF IInv, ProgramSound
<1>5. IsSequence(<<>>)
  BY Tuples
<1>6. DOMAIN <<>> = {}
  OBVIOUS
<1>7. OneEach(<<>>) /\ Builds(<<>>) = {} /\ Stores(<<>>) = {}
  BY <1>6 DEF OneEach, Builds, Stores
<1>8. BuiltBy(Now) = {} /\ StoredBy(Now) = {c}
  BY <1>1 DEF BuiltBy, StoredBy
<1> HIDE DEF c
<1>9. Builds(program') = Builds(program) /\ Stores(program') = Stores(program) \ {c}
  BY <1>1, <1>4, <1>5, <1>7, <1>8, AfterThen
<1>10. Made' = Made /\ Ready' = Ready
  BY <1>1, <1>9 DEF Made, Ready
<1>11. defs \in SomeOf(Components, Ready \cup {Expanding}) /\ DOMAIN defs \subseteq Components
  BY <1>4, SomeOfFacts DEF HandlesSound
<1>12. /\ defs' \in SomeOf(Components, Ready \cup {Expanding})
       /\ DOMAIN defs' = DOMAIN defs /\ defs'[c] = result
       /\ \A e \in DOMAIN defs \ {c} : defs'[e] = defs[e]
  <2> DEFINE R == Ready \cup {Expanding}
  <2>1. defs \in SomeOf(Components, R) /\ c \in Components /\ result \in R
    BY <1>3, <1>11
  <2> HIDE DEF R
  <2>2. WithKey(defs, c, result) \in SomeOf(Components, R)
    BY <2>1, WithKeyFacts
  <2>3. /\ DOMAIN defs' = DOMAIN defs \cup {c} /\ defs'[c] = result
        /\ \A e \in DOMAIN defs \ {c} : defs'[e] = defs[e]
    BY <1>1 DEF WithKey
  <2>4. QED
    BY <1>1, <1>3, <2>2, <2>3 DEF R
<1>13. ProgramSound' /\ OneEach(program')
  BY <1>1, <1>4, <1>5, <1>6, <1>7, <1>10, <1>12, ProgramGoesOn
<1>14. HeapSound'
  <2>1. Extended /\ Added = {}
    BY <1>1, <1>2, HeapUnchanged
  <2>2. QED
    BY <2>1, <1>2, <1>10, <1>12, HeapGoesOn
<1>15. HandlesSound'
  BY <1>1, <1>3, <1>4, <1>10, <1>12, HandlesGoOn
<1>16. ReservedAreStored'
  BY <1>3, <1>4, <1>9, <1>12 DEF ReservedAreStored
<1>17. ResultBeforeUse'
  BY <1>1, <1>3 DEF ResultBeforeUse
<1>18. Kept
  BY <1>1, <1>10 DEF Kept
<1>19. QED
  BY <1>13, <1>14, <1>15, <1>16, <1>17, <1>18 DEF IInv

\* An entry is reserved along with that call.
LEMMA ExpandReferenceStep ==
    ASSUME IInv, ExpandReference
    PROVE  IInv' /\ Kept
<1> DEFINE s == Now.schema
           c == s.ref.name
           i == Inline([Empty EXCEPT !.ref = s.ref], PathOfEntry(Now.path))
           j == Store(c)
           k == Expand(Siblings(s), Now.path)
           l == Refer(c)
           q == <<i, j, k, l>>
<1>1. /\ place # None /\ program # <<>> /\ Now.do = "expand" /\ s.ref # None /\ s.ref.kind = "component"
      /\ IF c \in DOMAIN defs THEN Then(<<k, l>>) /\ UNCHANGED defs
         ELSE defs' = WithKey(defs, c, Expanding) /\ Then(<<i, j>> \o <<k, l>>)
      /\ UNCHANGED <<document, heap, expanded, place, result>>
  BY DEF ExpandReference, Doing
<1>2. /\ IsInstruction(Now, Ready, Made, DOMAIN defs) /\ HeapSound
      /\ result \in Ready \cup {Expanding}
  BY <1>1, Begins
<1>3. IsSource(s) /\ Now.path \in SUBSET Pointers /\ IsQuiet(Now)
  BY <1>1, <1>2 DEF IsInstruction, IsSimple, IsQuiet
<1>4. /\ s.ref \in Pointers /\ IsSource(Siblings(s)) /\ IsSource([Empty EXCEPT !.ref = s.ref])
  BY <1>1, <1>3, SourceParts
<1>5. c \in Components
  BY <1>4 DEF Pointers, ToComponent, ToField
<1>6. PathOfEntry(Now.path) \in SUBSET Pointers
  BY DEF PathOfEntry
<1>7. /\ IsQuiet(i) /\ Returns(i) /\ IsQuiet(k) /\ Returns(k) /\ IsQuiet(l)
      /\ j.do = "store" /\ j.entry = c
  BY Kinds DEF Store
<1>8. ASSUME NEW E, c \in E
      PROVE  /\ IsInstruction(i, Ready, Made, E) /\ IsInstruction(j, Ready, Made, E)
             /\ IsInstruction(k, Ready, Made, E) /\ IsInstruction(l, Ready, Made, E)
  BY <1>3, <1>4, <1>6, <1>8, Instructions
<1>9. <<i, j>> \o <<k, l>> = q
  BY Tuples
<1>10. IsSequence(q)
  BY Tuples
<1> HIDE DEF i, j, k, l, c
<1>11. DOMAIN q = 1 .. 4 /\ q[1] = i /\ q[2] = j /\ q[3] = k /\ q[4] = l /\ q # <<>>
  OBVIOUS
<1>12. CASE c \in DOMAIN defs
  <2>1. QuietBegins /\ Added = {} /\ Handed = Ready
    BY <1>1, <1>2, <1>3, <1>12, QuietUnchanged, HeapUnchanged DEF Handed
  <2>2. Quiet(k) /\ Quiet(l)
    BY <2>1, <1>7, <1>8, <1>12 DEF Quiet
  <2>3. QED
    BY <1>1, <1>7, <1>12, <2>1, <2>2, QuietTwo
<1>13. CASE c \notin DOMAIN defs
  <2>1. /\ HandlesSound /\ ProgramSound /\ OneEach(program) /\ ReservedAreStored /\ IsSequence(program)
    BY DEF IInv, ProgramSound
  <2> HIDE DEF q
  <2>2. Then(q) /\ defs' = WithKey(defs, c, Expanding)
    BY <1>1, <1>9, <1>13
  <2>3. \A m \in DOMAIN q : q[m] = i \/ q[m] = j \/ q[m] = k \/ q[m] = l
    BY <1>11
  <2>4. Builds(q) = {}
    BY <1>7, <2>3 DEF Builds, IsQuiet
  <2>5. Stores(q) = {c}
    <3>1. \A m \in DOMAIN q : q[m].do = "store" => q[m].entry = c
      BY <1>7, <2>3 DEF IsQuiet
    <3>2. 2 \in DOMAIN q /\ q[2].do = "store" /\ q[2].entry = c
      BY <1>7, <1>11
    <3>3. QED
      BY <3>1, <3>2 DEF Stores
  <2>6. OneEach(q)
    <3>1. \A m \in DOMAIN q : q[m].do # "build" /\ (q[m].do = "store" => m = 2)
      BY <1>7, <1>11 DEF IsQuiet
    <3>2. QED
      BY <3>1 DEF OneEach
  <2>7. BuiltBy(Now) = {} /\ StoredBy(Now) = {}
    BY <1>3 DEF IsQuiet, BuiltBy, StoredBy
  <2>8. c \notin Stores(program)
    BY <1>13, <2>1 DEF ReservedAreStored
  <2>9. /\ Builds(program') = Builds(program) /\ Stores(program') = {c} \cup Stores(program)
        /\ program' # <<>> /\ Now' = i
    BY <1>1, <1>10, <1>11, <2>1, <2>2, <2>4, <2>5, <2>6, <2>7, <2>8, AfterThen DEF Now
  <2>10. Made' = Made /\ Ready' = Ready
    BY <1>1, <2>9 DEF Made, Ready
  <2>11. /\ defs' \in SomeOf(Components, Ready \cup {Expanding})
         /\ DOMAIN defs' = DOMAIN defs \cup {c} /\ defs'[c] = Expanding
         /\ \A e \in DOMAIN defs : defs'[e] = defs[e]
    <3> DEFINE R == Ready \cup {Expanding}
    <3>1. defs \in SomeOf(Components, R) /\ c \in Components /\ Expanding \in R
      BY <1>5, <2>1 DEF HandlesSound
    <3> HIDE DEF R
    <3>2. WithKey(defs, c, Expanding) \in SomeOf(Components, R)
      BY <3>1, WithKeyFacts
    <3>3. /\ DOMAIN defs' = DOMAIN defs \cup {c} /\ defs'[c] = Expanding
          /\ \A e \in DOMAIN defs \ {c} : defs'[e] = defs[e]
      BY <2>2 DEF WithKey
    <3>4. QED
      BY <1>13, <2>2, <3>2, <3>3 DEF R
  <2>12. \A m \in DOMAIN q : IsInstruction(q[m], Ready', Made', DOMAIN defs')
    BY <1>8, <2>3, <2>10, <2>11
  <2>13. ProgramSound' /\ OneEach(program')
    BY <1>1, <1>10, <2>1, <2>2, <2>4, <2>5, <2>6, <2>7, <2>8, <2>10, <2>11, <2>12, ProgramGoesOn
  <2>14. HeapSound'
    <3>1. Extended /\ Added = {}
      BY <1>1, <1>2, HeapUnchanged
    <3>2. QED
      BY <3>1, <1>2, <2>10, <2>11, HeapGoesOn
  <2>15. HandlesSound'
    BY <1>1, <1>2, <2>1, <2>10, <2>11, HandlesGoOn
  <2>16. ReservedAreStored'
    BY <1>13, <2>1, <2>9, <2>11 DEF ReservedAreStored
  <2>17. ResultBeforeUse'
    BY <1>7, <2>9 DEF ResultBeforeUse, Returns
  <2>18. Kept
    BY <1>1, <2>10 DEF Kept
  <2>19. QED
    BY <2>13, <2>14, <2>15, <2>16, <2>17, <2>18 DEF IInv
<1>14. QED
  BY <1>12, <1>13

\* A place begins with a call that returns,
LEMMA ExpandPlaceStep ==
    ASSUME IInv, NEW p \in Places, ExpandPlace(p)
    PROVE  IInv' /\ Kept
<1> DEFINE s == document.places[p].schema
           i == IF document.places[p].body THEN Inline(s, {}) ELSE Expand(s, {})
           q == <<i>>
<1>1. /\ place = None /\ place' = p /\ program' = q
      /\ UNCHANGED <<document, heap, defs, expanded, result>>
  BY DEF ExpandPlace
<1>2. HeapSound /\ HandlesSound /\ ProgramSound /\ ReservedAreStored
  BY DEF IInv
<1>3. program = <<>> /\ p # None
  BY <1>1, <1>2, DocumentsAssumption DEF ProgramSound
<1>4. IsSource(s) /\ {} \in SUBSET Pointers
  BY <1>2, DocumentsAssumption DEF HandlesSound
<1>5. IsQuiet(i) /\ Returns(i) /\ IsInstruction(i, Ready, Made, DOMAIN defs)
  BY <1>4, Kinds, Instructions
<1> HIDE DEF i
<1>6. IsSequence(q)
  BY Tuples
<1>7. DOMAIN q = {1} /\ q[1] = i /\ q # <<>> /\ Head(q) = i /\ DOMAIN program = {}
  BY <1>3
<1> HIDE DEF q
<1>8. OneEach(q) /\ Builds(q) = {} /\ Stores(q) = {} /\ Builds(program) = {} /\ Stores(program) = {}
  BY <1>5, <1>7 DEF OneEach, Builds, Stores, IsQuiet
<1>9. Made' = Made /\ Ready' = Ready
  BY <1>1, <1>8 DEF Made, Ready
<1>10. ProgramSound' /\ OneEach(program')
  BY <1>1, <1>3, <1>5, <1>6, <1>7, <1>8, <1>9 DEF ProgramSound
<1>11. HeapSound' /\ HandlesSound'
  BY <1>1, <1>2, <1>9 DEF HeapSound, HandlesSound
<1>12. ReservedAreStored'
  BY <1>1, <1>2, <1>8 DEF ReservedAreStored
<1>13. ResultBeforeUse'
  BY <1>1, <1>5, <1>7 DEF ResultBeforeUse, Returns, Now
<1>14. Kept
  BY <1>1, <1>9 DEF Kept
<1>15. QED
  BY <1>10, <1>11, <1>12, <1>13, <1>14 DEF IInv

\* and ends when something was returned.
LEMMA PlaceDoneStep ==
    ASSUME IInv, PlaceDone
    PROVE  IInv' /\ Kept
<1>1. /\ place # None /\ program = <<>> /\ place' = None /\ expanded' = WithKey(expanded, place, result)
      /\ UNCHANGED <<document, heap, defs, program, result>>
  BY DEF PlaceDone
<1>2. HeapSound /\ HandlesSound /\ ProgramSound /\ ReservedAreStored /\ ResultBeforeUse /\ OneEach(program)
  BY DEF IInv
<1>3. result \in Ready /\ place \in Places
  BY <1>1, <1>2 DEF ResultBeforeUse, HandlesSound, ProgramSound
<1>4. Made' = Made /\ Ready' = Ready
  BY <1>1 DEF Made, Ready
<1>5. expanded' \in SomeOf(Places, Ready)
  BY <1>1, <1>2, <1>3, WithKeyFacts DEF HandlesSound
<1>6. HeapSound' /\ HandlesSound' /\ ProgramSound' /\ OneEach(program')
  BY <1>1, <1>2, <1>4, <1>5 DEF HeapSound, HandlesSound, ProgramSound
<1>7. ReservedAreStored' /\ ResultBeforeUse'
  BY <1>1, <1>2 DEF ReservedAreStored, ResultBeforeUse
<1>8. Kept
  BY <1>1, <1>4 DEF Kept
<1>9. QED
  BY <1>6, <1>7, <1>8 DEF IInv

\* A merge too deep changes nothing here.
LEMMA NothingChanges ==
    ASSUME IInv, MergeTooDeep \/ UNCHANGED vars
    PROVE  IInv' /\ Kept
<1>1. UNCHANGED <<document, heap, defs, expanded, place, program, result>>
  BY DEF MergeTooDeep, vars
<1>2. IInv'
  BY <1>1 DEF IInv, HeapSound, HandlesSound, ProgramSound, ReservedAreStored, ResultBeforeUse, Made, Ready, Now
<1>3. Kept
  BY <1>1 DEF Kept, Ready, Made
<1>4. QED
  BY <1>2, <1>3

\* At first nothing is made.
LEMMA InitIInv == Init => IInv
<1> SUFFICES ASSUME Init PROVE IInv
  OBVIOUS
<1>1. /\ document \in Documents /\ heap = <<Sentinel>> /\ result = Expanding
      /\ defs = NoProps /\ expanded = NoProps /\ place = None /\ program = <<>>
  BY DEF Init
<1>2. IsSequence(heap) /\ IsSequence(program)
  BY <1>1, Tuples
<1>3. Len(heap) = 1 /\ heap[1] = Sentinel /\ DOMAIN heap = {1} /\ DOMAIN program = {}
  BY <1>1
<1>4. Made = {} /\ Builds(program) = {} /\ Stores(program) = {} /\ OneEach(program)
  BY <1>3 DEF Made, Expanding, Builds, Stores, OneEach
<1>5. HeapSound
  BY <1>2, <1>3, <1>4 DEF HeapSound, Expanding
<1>6. \A D, R : NoProps \in SomeOf(D, R)
  BY EmptyIsSource, SomeOfFacts
<1>7. HandlesSound /\ ProgramSound
  BY <1>1, <1>2, <1>3, <1>6 DEF HandlesSound, ProgramSound
<1>8. ReservedAreStored /\ ResultBeforeUse
  BY <1>1, <1>4, EmptyIsSource DEF ReservedAreStored, ResultBeforeUse
<1>9. QED
  BY <1>4, <1>5, <1>7, <1>8 DEF IInv

\* Every step keeps the invariant.
LEMMA NextIInv ==
    ASSUME IInv, [Next]_vars
    PROVE  IInv' /\ Kept
<1>1. CASE \E p \in Places : ExpandPlace(p)
  BY <1>1, ExpandPlaceStep
<1>2. CASE PlaceDone
  BY <1>2, PlaceDoneStep
<1>3. CASE ExpandSchema
  BY <1>3, ExpandReferenceStep, StoreEntryStep, ReferToEntryStep, ExpandElsewhereStep,
     ExpandAllOfStep, NextBranchStep DEF ExpandSchema
<1>4. CASE Fill
  BY <1>4, ExpandNestedStep, NextFieldStep, PutFieldStep, LastFieldStep DEF Fill
<1>5. CASE InPlace
  BY <1>5, InlinePlainStep, InlineReferenceStep, ThenCombineStep, ReturnDictStep DEF InPlace
<1>6. CASE DeepMerge
  BY <1>6, MergeOpensStep, MergeAsTheyAreStep, NothingChanges, JoinDictsStep DEF DeepMerge
<1>7. CASE UNCHANGED vars
  BY <1>7, NothingChanges
<1>8. QED
  BY <1>1, <1>2, <1>3, <1>4, <1>5, <1>6, <1>7 DEF Next

\* The invariant holds throughout.
THEOREM Inductive == Spec => []IInv
<1>1. IInv /\ [Next]_vars => IInv'
  BY NextIInv
<1>2. QED
  BY InitIInv, <1>1, PTL DEF Spec

-----------------------------------------------------------------------------
(* What is shown. *)

\* When parse_spec is done with a place nothing is half-made or only reserved.
THEOREM NothingEverDangles == Spec => []NothingDangles
<1>1. IInv => NothingDangles
  <2> SUFFICES ASSUME IInv, place = None PROVE NothingDangles
    BY DEF NothingDangles
  <2>1. /\ program = <<>> /\ \A a \in Made : heap[a] \in Dicts(Ready, DOMAIN defs)
        /\ HandlesSound /\ ReservedAreStored
    BY DEF IInv, ProgramSound, HeapSound
  <2>2. DOMAIN program = {}
    BY <2>1
  <2>3. Ready = Made /\ Stores(program) = {}
    BY <2>2 DEF Ready, Builds, Stores
  <2>4. \A c \in DOMAIN defs : defs[c] # Expanding
    BY <2>1, <2>3 DEF ReservedAreStored
  <2>5. /\ defs \in [DOMAIN defs -> Made \cup {Expanding}]
        /\ expanded \in [DOMAIN expanded -> Made]
    BY <2>1, <2>3, SomeOfFacts DEF HandlesSound
  <2>6. Range(defs) \cup Range(expanded) \subseteq Made
    BY <2>4, <2>5 DEF Range
  <2>7. ASSUME NEW a \in Made
        PROVE  /\ heap[a].all = None /\ heap[a].mark \in {None, "cut", "lost"}
               /\ heap[a].ref # None => heap[a].ref.kind = "entry" /\ heap[a].ref.name \in DOMAIN defs
               /\ Range(heap[a].props) \subseteq Made
    <3>1. heap[a] \in Dicts(Made, DOMAIN defs)
      BY <2>1, <2>3
    <3>2. Range(heap[a].props) \subseteq Made
      BY <3>1, DictParts
    <3>3. QED
      BY <3>1, <3>2 DEF Dicts, ToEntry
  <2>8. QED
    BY <2>6, <2>7 DEF NothingDangles
<1>2. QED
  BY <1>1, Inductive, PTL

\* Whatever anybody holds is ready, or the sentinel.
LEMMA HeldIsReady ==
    ASSUME IInv
    PROVE  Held \subseteq Ready \cup {Expanding}
<1>1. HandlesSound /\ HeapSound
  BY DEF IInv
<1>2. Range(defs) \subseteq Ready \cup {Expanding} /\ Range(expanded) \subseteq Ready
  <2>1. defs \in [DOMAIN defs -> Ready \cup {Expanding}] /\ expanded \in [DOMAIN expanded -> Ready]
    BY <1>1, SomeOfFacts DEF HandlesSound
  <2>2. QED
    BY <2>1 DEF Range
<1>3. ASSUME NEW a \in DOMAIN heap
      PROVE  Range(heap[a].props) \subseteq Ready
  <2>1. CASE a \in Made
    BY <1>1, <2>1, DictParts DEF HeapSound
  <2>2. CASE a = Expanding
    BY <1>1, <2>2, EmptyIsSource DEF HeapSound, Sentinel, Empty, Range
  <2>3. QED
    BY <2>1, <2>2 DEF Made
<1>4. QED
  BY <1>1, <1>2, <1>3 DEF Held, HandlesSound

\* An entry is only ever replaced when it was no more than reserved.
LEMMA EntriesKeep ==
    ASSUME IInv, [Next]_vars
    PROVE  \A c \in DOMAIN defs : c \in DOMAIN defs' /\ (defs[c] # Expanding => defs'[c] = defs[c])
<1>1. CASE ExpandReference
  <2>1. \/ defs' = defs
        \/ Now.schema.ref.name \notin DOMAIN defs /\ defs' = WithKey(defs, Now.schema.ref.name, Expanding)
    BY <1>1 DEF ExpandReference
  <2>2. QED
    BY <2>1 DEF WithKey
<1>2. CASE StoreEntry
  <2>1. /\ program # <<>> /\ Now.do = "store" /\ defs' = WithKey(defs, Now.entry, result)
    BY <1>2 DEF StoreEntry, Doing
  <2>2. defs[Now.entry] = Expanding
    BY <2>1, StoringReserved
  <2>3. QED
    BY <2>1, <2>2 DEF WithKey
<1>3. CASE (\E p \in Places : ExpandPlace(p)) \/ PlaceDone \/ UNCHANGED vars
  BY <1>3 DEF ExpandPlace, PlaceDone, vars
<1>4. CASE ReferToEntry \/ ExpandElsewhere \/ ExpandAllOf \/ NextBranch
  BY <1>4 DEF ReferToEntry, ExpandElsewhere, ExpandAllOf, NextBranch
<1>5. CASE Fill
  BY <1>5 DEF Fill, ExpandNested, NextField, PutField, LastField
<1>6. CASE InPlace
  BY <1>6 DEF InPlace, InlinePlain, InlineReference, ThenCombine, ReturnDict
<1>7. CASE DeepMerge
  BY <1>7 DEF DeepMerge, MergeOpens, MergeAsTheyAre, MergeTooDeep, JoinDicts
<1>8. QED
  BY <1>1, <1>2, <1>3, <1>4, <1>5, <1>6, <1>7 DEF Next, ExpandSchema

\* Operations keep the entries they were parsed with, and no dict anybody holds
\* is written to.
THEOREM EntriesAlwaysStay == Spec => EntriesStay
<1> DEFINE Stays ==
        /\ \A c \in DOMAIN defs : c \in DOMAIN defs' /\ (defs[c] # Expanding => defs'[c] = defs[c])
        /\ \A a \in Held : heap'[a] = heap[a]
<1>1. IInv /\ [Next]_vars => [Stays]_vars
  <2>1. ASSUME IInv, [Next]_vars
        PROVE  \A a \in Held : heap'[a] = heap[a]
    BY <2>1, HeldIsReady, NextIInv DEF Kept
  <2>2. QED
    BY <2>1, EntriesKeep
<1>2. QED
  BY <1>1, Inductive, PTL DEF Spec, EntriesStay

-----------------------------------------------------------------------------
\* What is made can be written out as JSON: no dict is inside itself, however many
\* share it.  (In any dicts there are some that hold none of them.)
NoneInsideItself ==
    \A dicts \in SUBSET Ready : dicts # {} => \E a \in dicts : Range(heap[a].props) \cap dicts = {}

\* What becomes ready has only what was ready in it, and that stays as it is.
LEMMA NoneInsideItselfKept ==
    ASSUME IInv, NoneInsideItself, Kept
    PROVE  NoneInsideItself'
<1>1. SUFFICES ASSUME NEW dicts \in SUBSET (Ready'), dicts # {}
               PROVE  \E a \in dicts : Range(heap'[a].props) \cap dicts = {}
  BY DEF NoneInsideItself
<1>2. CASE dicts \cap Ready = {}
  <2>1. PICK a \in dicts : a \in Ready' \ Ready
    BY <1>1, <1>2
  <2>2. Range(heap'[a].props) \subseteq Ready
    BY <2>1 DEF Kept
  <2>3. QED
    BY <1>2, <2>2
<1>3. CASE dicts \cap Ready # {}
  <2>1. PICK a \in dicts \cap Ready : Range(heap[a].props) \cap (dicts \cap Ready) = {}
    BY <1>3 DEF NoneInsideItself
  <2>2. heap[a] \in Dicts(Ready, DOMAIN defs) /\ heap'[a] = heap[a]
    BY DEF IInv, HeapSound, Ready, Kept
  <2>3. Range(heap'[a].props) \subseteq Ready
    BY <2>2, DictParts
  <2>4. QED
    BY <2>1, <2>2, <2>3
<1>4. QED
  BY <1>2, <1>3

\* It stays so in every state, while dicts are still being made too.
THEOREM NothingInsideItself == Spec => []NoneInsideItself
<1>1. Init => NoneInsideItself
  <2>1. ASSUME Init PROVE Ready = {}
    <3>1. DOMAIN heap = {1}
      BY <2>1 DEF Init
    <3>2. QED
      BY <3>1 DEF Ready, Made, Expanding
  <2>2. QED
    BY <2>1 DEF NoneInsideItself
<1>2. IInv /\ NoneInsideItself /\ [Next]_vars => NoneInsideItself'
  BY NextIInv, NoneInsideItselfKept
<1>3. QED
  BY <1>1, <1>2, Inductive, PTL DEF Spec

-----------------------------------------------------------------------------
(* InPlaceIn is what its definition says: a schema is nested to an end. *)

\* What is inside a spec's schema is one of the schemas that occur inside others.
LEMMA PartsAreSchemas ==
    ASSUME NEW s, IsSource(s)
    PROVE  PartsOf(s) \subseteq Schemas /\ BranchesOf(s) \subseteq PartsOf(s)
<1>1. Range(s.props) \subseteq Schemas
  BY SourceParts DEF Range
<1>2. BranchesOf(s) \subseteq Schemas
  <2>1. CASE s.all = None
    BY <2>1 DEF BranchesOf
  <2>2. CASE s.all # None
    <3>1. s.all \in Seq(Schemas)
      BY <2>2, SourceParts
    <3>2. QED
      BY <3>1, <2>2, LenProperties DEF BranchesOf, Range
  <2>3. QED
    BY <2>1, <2>2
<1>3. QED
  BY <1>1, <1>2 DEF PartsOf

\* What stands in place in a schema depends on its parts only,
LEMMA WithinDependsOnParts ==
    ASSUME NEW f, NEW g, NEW s, \A t \in PartsOf(s) : f[t] = g[t]
    PROVE  Within(f, s) = Within(g, s)
<1>1. {f[t] : t \in PartsOf(s)} = {g[t] : t \in PartsOf(s)}
  OBVIOUS
<1>2. QED
  BY <1>1 DEF Within

\* and it has all that stands in place in them.
LEMMA WithinHolds ==
    ASSUME NEW f, NEW s, NEW t \in PartsOf(s)
    PROVE  f[t] \subseteq Within(f, s)
BY DEF Within

\* A function on some schemas, and on all that is in them, that is as InPlaceIn is to be.
Attempt(f) ==
    /\ DOMAIN f \subseteq Schemas
    /\ \A s \in DOMAIN f : PartsOf(s) \subseteq DOMAIN f /\ f[s] = Within(f, s)

\* Two of them say the same where both say anything, for else some schema would be the
\* first.
LEMMA AttemptsAgree ==
    ASSUME NEW f, NEW g, Attempt(f), Attempt(g), NEW s \in DOMAIN f \cap DOMAIN g
    PROVE  f[s] = g[s]
<1> DEFINE differ == {t \in DOMAIN f \cap DOMAIN g : f[t] # g[t]}
<1>1. SUFFICES ASSUME differ # {} PROVE FALSE
  OBVIOUS
<1>2. differ \in SUBSET Schemas
  BY DEF Attempt
<1>3. PICK t \in differ : PartsOf(t) \cap differ = {}
  BY <1>1, <1>2, DocumentsAssumption
<1>4. \A r \in PartsOf(t) : f[r] = g[r]
  BY <1>3 DEF Attempt
<1>5. f[t] = g[t]
  BY <1>3, <1>4, WithinDependsOnParts DEF Attempt
<1>6. QED
  BY <1>3, <1>5

\* One that covers as much as any does covers all.
LEMMA InPlaceInDefined ==
    InPlaceIn = [s \in Schemas |-> Within(InPlaceIn, s)]
<1> DEFINE Covers(f, s) == Attempt(f) /\ s \in DOMAIN f
           covered == {s \in Schemas : \E f : Covers(f, s)}
           The(s) == CHOOSE f : Covers(f, s)
           g == [s \in covered |-> The(s)[s]]
<1>1. \A s \in covered : Covers(The(s), s)
  OBVIOUS
<1>2. Attempt(g)
  <2>1. DOMAIN g = covered /\ covered \subseteq Schemas
    OBVIOUS
  <2>2. ASSUME NEW s \in covered
        PROVE  PartsOf(s) \subseteq covered /\ g[s] = Within(g, s)
    <3> DEFINE f == The(s)
    <3>1. Attempt(f) /\ s \in DOMAIN f
      BY <1>1
    <3> HIDE DEF f
    <3>2. PartsOf(s) \subseteq DOMAIN f /\ DOMAIN f \subseteq Schemas /\ f[s] = Within(f, s)
      BY <3>1 DEF Attempt
    <3>3. DOMAIN f \subseteq covered
      BY <3>1, <3>2
    <3>4. \A t \in DOMAIN f : g[t] = f[t]
      <4>1. ASSUME NEW t \in DOMAIN f
            PROVE  g[t] = f[t]
        <5>1. t \in covered /\ Attempt(The(t)) /\ t \in DOMAIN The(t)
          BY <3>3, <1>1
        <5>2. The(t)[t] = f[t]
          BY <5>1, <3>1, AttemptsAgree
        <5>3. QED
          BY <5>1, <5>2
      <4>2. QED
        BY <4>1
    <3>5. Within(g, s) = Within(f, s)
      <4> HIDE DEF g
      <4>1. \A t \in PartsOf(s) : g[t] = f[t]
        BY <3>2, <3>4
      <4>2. QED
        BY <4>1, WithinDependsOnParts
    <3>6. QED
      BY <3>1, <3>2, <3>3, <3>4, <3>5
  <2>3. QED
    BY <2>1, <2>2 DEF Attempt
<1>3. covered = Schemas
  <2>1. SUFFICES ASSUME Schemas \ covered # {} PROVE FALSE
    OBVIOUS
  <2>2. PICK s \in Schemas \ covered : PartsOf(s) \cap (Schemas \ covered) = {}
    BY <2>1, DocumentsAssumption
  <2>3. PartsOf(s) \subseteq covered
    BY <2>2, PartsAreSchemas, DocumentsAssumption
  <2> DEFINE h == [t \in covered \cup {s} |-> IF t = s THEN Within(g, s) ELSE g[t]]
  <2>4. DOMAIN g = covered /\ s \notin covered /\ s \in Schemas /\ covered \subseteq Schemas
    BY <2>2
  <2>5. DOMAIN h = covered \cup {s} /\ h[s] = Within(g, s) /\ \A t \in covered : h[t] = g[t]
    BY <2>4
  <2> HIDE DEF h, g
  <2>6. ASSUME NEW t \in DOMAIN h
        PROVE  PartsOf(t) \subseteq DOMAIN h /\ h[t] = Within(h, t)
    <3>1. PartsOf(t) \subseteq covered
      BY <1>2, <2>3, <2>4, <2>5 DEF Attempt
    <3>2. Within(h, t) = Within(g, t)
      <4> HIDE DEF covered
      <4>1. \A r \in PartsOf(t) : h[r] = g[r]
        BY <3>1, <2>5
      <4>2. QED
        BY <4>1, WithinDependsOnParts
    <3>3. h[t] = Within(g, t)
      BY <1>2, <2>4, <2>5 DEF Attempt
    <3>4. QED
      BY <3>1, <3>2, <3>3, <2>5
  <2>7. Attempt(h) /\ s \in DOMAIN h
    BY <2>4, <2>5, <2>6 DEF Attempt
  <2>8. s \in covered
    BY <2>4, <2>7
  <2>9. QED
    BY <2>4, <2>8
<1>4. g = [s \in Schemas |-> Within(g, s)]
  <2>1. g = [s \in Schemas |-> g[s]]
    BY <1>3
  <2>2. \A s \in Schemas : g[s] = Within(g, s)
    BY <1>2, <1>3 DEF Attempt
  <2> HIDE DEF g, covered
  <2>3. QED
    BY <2>1, <2>2
<1> HIDE DEF g
<1>5. \E f : f = [s \in Schemas |-> Within(f, s)]
  BY <1>4
<1>6. QED
  BY <1>5 DEF InPlaceIn

-----------------------------------------------------------------------------
(* Why something is cut.  From each pointer of a call's path one comes, in    *)
(* place, to another of the path or to what the call is for.                  *)

Afters == [p \in Pointers |-> After(p)]

OnTheWay(after, path, pointers) ==
    \A p \in path : after[p] \cap path # {} \/ pointers \subseteq after[p]
InPlaceHere(s) == RefOf(s) \cup Within(InPlaceIn, s)

FollowsCall(q, after) ==
    \A j \in DOMAIN q : q[j].do = "expand" => OnTheWay(after, q[j].path, Within(InPlaceIn, q[j].schema))
Follows(i, after) ==
    /\ i.do = "expand" => OnTheWay(after, i.path, Within(InPlaceIn, i.schema))
    /\ i.do = "inline" => OnTheWay(after, i.path, InPlaceHere(i.schema))
    /\ i.do = "branches" => \A j \in DOMAIN i.left : OnTheWay(after, i.path, InPlaceHere(i.left[j]))
    /\ i.do = "and" => FollowsCall(i.calls, after)
    /\ i.do = "build" => \A f \in DOMAIN i.todo : FollowsCall(i.todo[f], after)

PathsFollowed == \A i \in DOMAIN program : Follows(program[i], Afters)

\* What a schema's parts bring in place it does.
LEMMA InPlaceInside ==
    ASSUME NEW s, IsSource(s)
    PROVE  /\ \A t \in PartsOf(s) : Within(InPlaceIn, t) \subseteq Within(InPlaceIn, s)
           /\ \A t \in BranchesOf(s) : InPlaceHere(t) \subseteq Within(InPlaceIn, s)
           /\ Within(InPlaceIn, Siblings(s)) \subseteq Within(InPlaceIn, s)
<1>1. ASSUME NEW t \in PartsOf(s)
      PROVE  Within(InPlaceIn, t) \subseteq Within(InPlaceIn, s)
  <2>1. t \in Schemas
    BY PartsAreSchemas
  <2>2. InPlaceIn[t] = Within(InPlaceIn, t)
    BY <2>1, InPlaceInDefined
  <2>3. InPlaceIn[t] \subseteq Within(InPlaceIn, s)
    BY WithinHolds
  <2>4. QED
    BY <2>2, <2>3
<1>2. ASSUME NEW t \in BranchesOf(s)
      PROVE  InPlaceHere(t) \subseteq Within(InPlaceIn, s)
  <2>1. RefOf(t) \subseteq Within(InPlaceIn, s)
    BY DEF Within
  <2>2. QED
    BY <1>1, <2>1, PartsAreSchemas DEF InPlaceHere
<1>3. Within(InPlaceIn, Siblings(s)) \subseteq Within(InPlaceIn, s)
  <2>1. Siblings(s).ref = None /\ Siblings(s).all = s.all /\ Siblings(s).props = s.props
    BY DEF Siblings, IsSource
  <2>2. RefOf(Siblings(s)) = {} /\ BranchesOf(Siblings(s)) = BranchesOf(s) /\ PartsOf(Siblings(s)) = PartsOf(s)
    BY <2>1 DEF RefOf, BranchesOf, PartsOf
  <2>3. QED
    BY <2>2 DEF Within
<1>4. QED
  BY <1>1, <1>2, <1>3

\* A path that leads to some pointers leads to fewer.
LEMMA LessOnTheWay ==
    ASSUME NEW after, NEW path, NEW P, NEW Q, Q \subseteq P, OnTheWay(after, path, P)
    PROVE  OnTheWay(after, path, Q)
BY DEF OnTheWay

\* Once more in place, past one that is not on the path yet.
LEMMA FurtherOnTheWay ==
    ASSUME NEW after, NEW path, NEW P, NEW p \in P, OnTheWay(after, path, P)
    PROVE  OnTheWay(after, path \cup {p}, after[p])
BY DEF OnTheWay

\* Back to one that is, all of the path is a loop.
LEMMA PathIsLoop ==
    ASSUME NEW after, NEW path, NEW P, NEW p \in P, p \in path, OnTheWay(after, path, P)
    PROVE  \A o \in path : after[o] \cap path # {}
BY DEF OnTheWay

\* What takes the head's place need only be followed itself.
LEMMA PathsStayFollowed ==
    ASSUME IInv, PathsFollowed, program # <<>>, document' = document,
           NEW q, IsSequence(q), Then(q), \A j \in DOMAIN q : Follows(q[j], Afters)
    PROVE  PathsFollowed'
<1> DEFINE r == Tail(program)
<1>1. IsSequence(program)
  BY DEF IInv, ProgramSound
<1>2. IsSequence(r) /\ \A i \in DOMAIN r : i + 1 \in DOMAIN program /\ r[i] = program[i + 1]
  BY <1>1, Rest
<1>3. program' = q \o r
  BY DEF Then
<1> HIDE DEF r
<1>4. /\ \A i \in DOMAIN q : program'[i] = q[i]
      /\ \A i \in DOMAIN program' \ DOMAIN q : i - Len(q) \in DOMAIN r /\ program'[i] = r[i - Len(q)]
  BY <1>2, <1>3, InARow
<1>5. Afters' = Afters
  BY DEF Afters, After, Resolve
<1>6. \A i \in DOMAIN r : Follows(r[i], Afters)
  BY <1>2 DEF PathsFollowed
<1>7. \A i \in DOMAIN program' : Follows(program'[i], Afters)
  BY <1>4, <1>6
<1>8. QED
  BY <1>5, <1>7 DEF PathsFollowed

\* What there is nothing to follow in.
LEMMA NothingToFollow ==
    /\ \A i, after : i.do \in {"return", "merge", "join", "store", "refer"} => Follows(i, after)
    /\ \A s, path, after : path = {} => Follows(Expand(s, path), after) /\ Follows(Inline(s, path), after)
    /\ \A i, after : i.do = "and" /\ FollowsCall(i.calls, after) => Follows(i, after)
    /\ \A i, after : i.do = "build" /\ (\A f \in DOMAIN i.todo : FollowsCall(i.todo[f], after)) => Follows(i, after)
BY DEF Follows, OnTheWay, Expand, Inline

\* Calls for what the path leads to are followed,
LEMMA FollowedCalls ==
    ASSUME NEW after
    PROVE  /\ \A s, path : OnTheWay(after, path, Within(InPlaceIn, s)) =>
                 Follows(Expand(s, path), after) /\ FollowsCall(<<Expand(s, path)>>, after)
           /\ \A s, path : OnTheWay(after, path, InPlaceHere(s)) => Follows(Inline(s, path), after)
           /\ \A a : FollowsCall(<<Return(a)>>, after)
           /\ \A a, b, n : FollowsCall(<<Return(a), Merge(b, n)>>, after)
<1>1. ASSUME NEW s, NEW path, OnTheWay(after, path, Within(InPlaceIn, s))
      PROVE  Follows(Expand(s, path), after) /\ FollowsCall(<<Expand(s, path)>>, after)
  BY <1>1 DEF Follows, FollowsCall, Expand
<1>2. ASSUME NEW s, NEW path, OnTheWay(after, path, InPlaceHere(s))
      PROVE  Follows(Inline(s, path), after)
  BY <1>2 DEF Follows, Inline
<1>3. ASSUME NEW a
      PROVE  FollowsCall(<<Return(a)>>, after)
  BY DEF FollowsCall, Return
<1>4. ASSUME NEW a, NEW b, NEW n
      PROVE  FollowsCall(<<Return(a), Merge(b, n)>>, after)
  BY DEF FollowsCall, Return, Merge
<1>5. QED
  BY <1>1, <1>2, <1>3, <1>4

\* so are a few in a row,
LEMMA FollowedPrograms ==
    ASSUME NEW after
    PROVE  /\ \A j \in DOMAIN <<>> : Follows(<<>>[j], after)
           /\ \A i : Follows(i, after) => \A j \in DOMAIN <<i>> : Follows(<<i>>[j], after)
           /\ \A i, k : Follows(i, after) /\ Follows(k, after) => \A j \in DOMAIN <<i, k>> : Follows(<<i, k>>[j], after)
           /\ \A i, k, l : Follows(i, after) /\ Follows(k, after) /\ Follows(l, after)
                 => \A j \in DOMAIN <<i, k, l>> : Follows(<<i, k, l>>[j], after)
<1>1. \A j \in DOMAIN <<>> : Follows(<<>>[j], after)
  OBVIOUS
<1>2. ASSUME NEW i, Follows(i, after)
      PROVE  \A j \in DOMAIN <<i>> : Follows(<<i>>[j], after)
  BY <1>2
<1>3. ASSUME NEW i, NEW k, Follows(i, after), Follows(k, after)
      PROVE  \A j \in DOMAIN <<i, k>> : Follows(<<i, k>>[j], after)
  <2>1. DOMAIN <<i, k>> = {1, 2} /\ <<i, k>>[1] = i /\ <<i, k>>[2] = k
    OBVIOUS
  <2>2. QED
    BY <1>3, <2>1
<1>4. ASSUME NEW i, NEW k, NEW l, Follows(i, after), Follows(k, after), Follows(l, after)
      PROVE  \A j \in DOMAIN <<i, k, l>> : Follows(<<i, k, l>>[j], after)
  <2>1. DOMAIN <<i, k, l>> = {1, 2, 3} /\ <<i, k, l>>[1] = i /\ <<i, k, l>>[2] = k /\ <<i, k, l>>[3] = l
    OBVIOUS
  <2>2. QED
    BY <1>4, <2>1
<1>5. QED
  BY <1>1, <1>2, <1>3, <1>4

\* and two programs in a row.
LEMMA FollowedInARow ==
    ASSUME NEW after, NEW p, NEW q, IsSequence(p), IsSequence(q),
           \A j \in DOMAIN p : Follows(p[j], after), \A j \in DOMAIN q : Follows(q[j], after)
    PROVE  IsSequence(p \o q) /\ \A j \in DOMAIN (p \o q) : Follows((p \o q)[j], after)
<1> DEFINE r == p \o q
<1>1. /\ IsSequence(r)
      /\ \A i \in DOMAIN p : r[i] = p[i]
      /\ \A i \in DOMAIN r \ DOMAIN p : i - Len(p) \in DOMAIN q /\ r[i] = q[i - Len(p)]
  BY InARow
<1> HIDE DEF r
<1>2. \A j \in DOMAIN r : Follows(r[j], after)
  BY <1>1
<1>3. QED
  BY <1>1, <1>2 DEF r

\* The calls an instruction holds are followed each on its own.
LEMMA FollowsEach ==
    ASSUME NEW after, NEW q, NEW R, IsCall(q, R), FollowsCall(q, after)
    PROVE  IsSequence(q) /\ \A j \in DOMAIN q : Follows(q[j], after)
<1>1. \A j \in DOMAIN q : q[j].do \in {"expand", "return", "merge"}
  <2>1. CASE q = <<q[1]>> /\ q[1].do \in {"expand", "return"}
    BY <2>1
  <2>2. CASE q = <<q[1], q[2]>> /\ q[1].do = "return" /\ q[2].do = "merge"
    <3>1. DOMAIN q = {1, 2}
      BY <2>2
    <3>2. QED
      BY <2>2, <3>1
  <2>3. QED
    BY <2>1, <2>2 DEF IsCall
<1>2. IsSequence(q)
  BY Calls
<1>3. QED
  BY <1>1, <1>2 DEF Follows, FollowsCall

\* So, with nothing, one, two or three instructions in the head's place:
LEMMA PathsFew ==
    ASSUME IInv, PathsFollowed, program # <<>>, document' = document
    PROVE  /\ Then(<<>>) => PathsFollowed'
           /\ \A i : Then(<<i>>) /\ Follows(i, Afters) => PathsFollowed'
           /\ \A i, j : Then(<<i, j>>) /\ Follows(i, Afters) /\ Follows(j, Afters) => PathsFollowed'
           /\ \A i, j, k : Then(<<i, j, k>>) /\ Follows(i, Afters) /\ Follows(j, Afters) /\ Follows(k, Afters)
                 => PathsFollowed'
<1>1. ASSUME NEW q, IsSequence(q), \A m \in DOMAIN q : Follows(q[m], Afters), Then(q)
      PROVE  PathsFollowed'
  BY <1>1, PathsStayFollowed
<1>2. ASSUME Then(<<>>)
      PROVE  PathsFollowed'
  <2> DEFINE q == <<>>
  <2>1. IsSequence(q) /\ \A m \in DOMAIN q : Follows(q[m], Afters)
    BY Tuples, FollowedPrograms
  <2>2. Then(q)
    BY <1>2
  <2> HIDE DEF q
  <2>3. QED
    BY <1>1, <2>1, <2>2
<1>3. ASSUME NEW i, Then(<<i>>), Follows(i, Afters)
      PROVE  PathsFollowed'
  <2> DEFINE q == <<i>>
  <2>1. IsSequence(q)
    BY Tuples
  <2>2. \A m \in DOMAIN q : Follows(q[m], Afters)
    BY <1>3, FollowedPrograms
  <2>3. Then(q)
    BY <1>3
  <2> HIDE DEF q
  <2>4. QED
    BY <1>1, <2>1, <2>2, <2>3
<1>4. ASSUME NEW i, NEW j, Then(<<i, j>>), Follows(i, Afters), Follows(j, Afters)
      PROVE  PathsFollowed'
  <2> DEFINE q == <<i, j>>
  <2>1. IsSequence(q)
    BY Tuples
  <2>2. \A m \in DOMAIN q : Follows(q[m], Afters)
    BY <1>4, FollowedPrograms
  <2>3. Then(q)
    BY <1>4
  <2> HIDE DEF q
  <2>4. QED
    BY <1>1, <2>1, <2>2, <2>3
<1>5. ASSUME NEW i, NEW j, NEW k, Then(<<i, j, k>>), Follows(i, Afters), Follows(j, Afters), Follows(k, Afters)
      PROVE  PathsFollowed'
  <2> DEFINE q == <<i, j, k>>
  <2>1. IsSequence(q)
    BY Tuples
  <2>2. \A m \in DOMAIN q : Follows(q[m], Afters)
    BY <1>5, FollowedPrograms
  <2>3. Then(q)
    BY <1>5
  <2> HIDE DEF q
  <2>4. QED
    BY <1>1, <2>1, <2>2, <2>3
<1>6. QED
  BY <1>2, <1>3, <1>4, <1>5

\* What the invariants say of the head.
LEMMA HeadFollows ==
    ASSUME IInv, PathsFollowed, program # <<>>
    PROVE  Follows(Now, Afters)
BY Rest DEF IInv, ProgramSound, PathsFollowed, Now

\* A step that cuts nothing.
NoneCut ==
    /\ document' = document
    /\ \A a \in Made' : heap'[a].mark = "cut" => \E b \in Made : heap[b].mark = "cut"

\* It leaves the property as it is.
LEMMA CutsStayInPlace ==
    ASSUME CutOnlyInPlace, NoneCut
    PROVE  CutOnlyInPlace'
<1>1. \A p \in Pointers : After(p)' = After(p)
  BY DEF NoneCut, After, Resolve
<1>2. QED
  BY <1>1 DEF CutOnlyInPlace, NoneCut

\* Such is one that changes no dict,
LEMMA NoneCutUnchanged ==
    ASSUME document' = document, heap' = heap
    PROVE  NoneCut
BY DEF NoneCut, Made

\* or appends one that is not cut, or made of one that was.
LEMMA NoneCutAppended ==
    ASSUME IInv, document' = document, NEW d, heap' = Append(heap, d),
           d.mark = "cut" => \E b \in Made : heap[b].mark = "cut"
    PROVE  NoneCut
<1>1. Extended /\ Added = {New} /\ heap'[New] = d
  BY HeapAppended DEF IInv
<1>2. QED
  BY <1>1 DEF NoneCut, Extended, Added, Made

\* The instructions that call nothing of the spec.
LEMMA MadeOnlyFollows ==
    ASSUME IInv, PathsFollowed, CutOnlyInPlace,
           ReferToEntry \/ StoreEntry \/ LastField \/ ReturnDict \/ MergeAsTheyAre \/ PutField
    PROVE  PathsFollowed' /\ CutOnlyInPlace'
<1>1. program # <<>> /\ place # None
  BY DEF ReferToEntry, StoreEntry, LastField, ReturnDict, MergeAsTheyAre, PutField, Doing
<1>2. /\ IsInstruction(Now, Ready, Made, DOMAIN defs) /\ HeapSound /\ Ready \subseteq Made
      /\ ~Returns(Now) => result \in Ready
      /\ \A a \in Made : heap[a] \in Dicts(Ready, DOMAIN defs)
  BY <1>1, Begins
<1>3. Follows(Now, Afters)
  BY <1>1, HeadFollows
<1>4. CASE ReferToEntry
  <2> DEFINE d == Beside(heap[result], Now.entry)
  <2>1. Then(<<>>) /\ document' = document /\ heap' = Append(heap, d) /\ Now.do = "refer"
    BY <1>4 DEF ReferToEntry, Make, Doing
  <2>2. result \in Made /\ d.mark = heap[result].mark
    BY <2>1, <1>2 DEF Returns, Dicts, Beside
  <2> HIDE DEF d
  <2>3. QED
    BY <2>1, <2>2, <1>1, PathsFew, NoneCutAppended, CutsStayInPlace
<1>5. CASE StoreEntry \/ LastField \/ ReturnDict
  <2>1. Then(<<>>) /\ UNCHANGED <<document, heap>>
    BY <1>5 DEF StoreEntry, LastField, ReturnDict
  <2>2. QED
    BY <2>1, <1>1, PathsFew, NoneCutUnchanged, CutsStayInPlace
<1>6. CASE MergeAsTheyAre
  <2>1. Then(<<Join(Now.base, Now.depth)>>) /\ UNCHANGED <<document, heap>>
    BY <1>6 DEF MergeAsTheyAre
  <2>2. Follows(Join(Now.base, Now.depth), Afters)
    BY NothingToFollow DEF Join
  <2>3. QED
    BY <2>1, <2>2, <1>1, PathsFew, NoneCutUnchanged, CutsStayInPlace
<1>7. CASE PutField
  <2> DEFINE i == Build(Now.node, None, Now.todo)
             d == [heap[Now.node] EXCEPT !.props = WithKey(@, Now.field, result)]
  <2>1. Then(<<i>>) /\ document' = document /\ heap' = [heap EXCEPT ![Now.node] = d] /\ Now.do = "build"
    BY <1>7 DEF PutField, Doing
  <2>2. Follows(i, Afters)
    <3>1. i.do = "build" /\ i.todo = Now.todo
      BY DEF Build
    <3>2. \A f \in DOMAIN Now.todo : FollowsCall(Now.todo[f], Afters)
      BY <2>1, <1>3 DEF Follows
    <3> HIDE DEF i
    <3>3. QED
      BY <3>1, <3>2, NothingToFollow
  <2>3. Now.node \in Made /\ d.mark = heap[Now.node].mark
    BY <2>1, <1>2 DEF IsInstruction, Dicts
  <2> HIDE DEF d, i
  <2>4. NoneCut
    BY <2>1, <2>3 DEF NoneCut, Made
  <2>5. QED
    BY <2>1, <2>2, <2>4, <1>1, PathsFew, CutsStayInPlace
<1>8. QED
  BY <1>4, <1>5, <1>6, <1>7

\* What is below a schema stands in place where it does; an entry begins a path of its
\* own.
LEMMA ExpandFollows ==
    ASSUME IInv, PathsFollowed, CutOnlyInPlace, ExpandReference \/ ExpandElsewhere \/ ExpandNested
    PROVE  PathsFollowed' /\ CutOnlyInPlace'
<1> DEFINE s == Now.schema
           path == Now.path
<1>1. program # <<>> /\ place # None /\ Now.do = "expand"
  BY DEF ExpandReference, ExpandElsewhere, ExpandNested, Doing
<1>2. IsInstruction(Now, Ready, Made, DOMAIN defs)
  BY <1>1, Begins
<1>3. IsSource(s) /\ OnTheWay(Afters, path, Within(InPlaceIn, s))
  BY <1>1, <1>2, HeadFollows DEF IsInstruction, IsSimple, Follows
<1>4. CASE ExpandReference
  <2> DEFINE c == s.ref.name
             i == Inline([Empty EXCEPT !.ref = s.ref], PathOfEntry(path))
             j == Store(c)
             k == Expand(Siblings(s), path)
             l == Refer(c)
  <2>1. /\ UNCHANGED <<document, heap>>
        /\ Then(<<k, l>>) \/ Then(<<i, j>> \o <<k, l>>)
    BY <1>4 DEF ExpandReference
  <2>2. Follows(i, Afters)
    BY NothingToFollow DEF PathOfEntry
  <2>3. Follows(j, Afters) /\ Follows(l, Afters)
    BY NothingToFollow DEF Store, Refer
  <2>4. OnTheWay(Afters, path, Within(InPlaceIn, Siblings(s)))
    BY <1>3, InPlaceInside, LessOnTheWay
  <2>5. Follows(k, Afters)
    BY <2>4, FollowedCalls
  <2> HIDE DEF i, j, k, l
  <2>6. CASE Then(<<k, l>>)
    BY <1>1, <2>1, <2>3, <2>5, <2>6, PathsFew, NoneCutUnchanged, CutsStayInPlace
  <2>7. CASE Then(<<i, j>> \o <<k, l>>)
    <3> DEFINE p == <<i, j>>
               q == <<k, l>>
    <3>1. IsSequence(p) /\ IsSequence(q)
      BY Tuples
    <3>2. \A m \in DOMAIN p : Follows(p[m], Afters)
      BY <2>2, <2>3, FollowedPrograms
    <3>3. \A m \in DOMAIN q : Follows(q[m], Afters)
      BY <2>3, <2>5, FollowedPrograms
    <3>4. Then(p \o q)
      BY <2>7
    <3> HIDE DEF p, q
    <3>5. PathsFollowed'
      BY <1>1, <2>1, <3>1, <3>2, <3>3, <3>4, FollowedInARow, PathsStayFollowed
    <3>6. QED
      BY <2>1, <3>5, NoneCutUnchanged, CutsStayInPlace
  <2>8. QED
    BY <2>1, <2>6, <2>7
<1>5. CASE ExpandElsewhere
  <2> DEFINE i == Inline(s, path)
  <2>1. UNCHANGED <<document, heap>> /\ Then(<<i>>) /\ s.ref.kind = "field"
    BY <1>5 DEF ExpandElsewhere
  <2>2. InPlaceHere(s) \subseteq Within(InPlaceIn, s)
    BY <2>1 DEF InPlaceHere, Within, RefOf
  <2>3. OnTheWay(Afters, path, InPlaceHere(s))
    BY <1>3, <2>2, LessOnTheWay
  <2>4. Follows(i, Afters)
    BY <2>3, FollowedCalls
  <2> HIDE DEF i
  <2>5. QED
    BY <1>1, <2>1, <2>4, PathsFew, NoneCutUnchanged, CutsStayInPlace
<1>6. CASE ExpandNested
  <2> DEFINE d == [s EXCEPT !.props = NoProps]
             todo == [f \in DOMAIN s.props |-> <<Expand(s.props[f], path)>>]
             i == Build(New, None, todo)
  <2>1. document' = document /\ heap' = Append(heap, d) /\ Then(<<i>>)
    BY <1>6 DEF ExpandNested, Make
  <2>2. d.mark = None
    BY <1>3 DEF IsSource
  <2>3. ASSUME NEW f \in DOMAIN s.props
        PROVE  FollowsCall(<<Expand(s.props[f], path)>>, Afters)
    <3>1. s.props[f] \in PartsOf(s)
      BY DEF PartsOf, Range
    <3>2. OnTheWay(Afters, path, Within(InPlaceIn, s.props[f]))
      BY <1>3, <3>1, InPlaceInside, LessOnTheWay
    <3>3. QED
      BY <3>2, FollowedCalls
  <2>4. i.do = "build" /\ i.todo = todo
    BY DEF Build
  <2>5. \A f \in DOMAIN todo : FollowsCall(todo[f], Afters)
    BY <2>3
  <2> HIDE DEF d, todo, i
  <2>6. Follows(i, Afters)
    BY <2>4, <2>5, NothingToFollow
  <2>7. NoneCut
    BY <2>1, <2>2, DocumentsAssumption, NoneCutAppended
  <2>8. QED
    BY <1>1, <2>1, <2>6, <2>7, PathsFew, CutsStayInPlace
<1>7. QED
  BY <1>4, <1>5, <1>6

\* The branches of an allOf stand in place.
LEMMA BranchesFollow ==
    ASSUME IInv, PathsFollowed, CutOnlyInPlace, ExpandAllOf \/ NextBranch
    PROVE  PathsFollowed' /\ CutOnlyInPlace'
<1>1. program # <<>> /\ place # None
  BY DEF ExpandAllOf, NextBranch, Doing
<1>2. IsInstruction(Now, Ready, Made, DOMAIN defs) /\ Follows(Now, Afters)
  BY <1>1, Begins, HeadFollows
<1>3. CASE ExpandAllOf
  <2> DEFINE s == Now.schema
             i == Branches(s.all, Now.path)
  <2>1. /\ Now.do = "expand" /\ s.all # None /\ document' = document /\ heap' = Append(heap, Empty)
        /\ Then(<<i>>)
    BY <1>3 DEF ExpandAllOf, Doing, Make
  <2>2. IsSource(s) /\ OnTheWay(Afters, Now.path, Within(InPlaceIn, s))
    BY <2>1, <1>2 DEF IsInstruction, IsSimple, Follows
  <2>3. \A j \in DOMAIN s.all : OnTheWay(Afters, Now.path, InPlaceHere(s.all[j]))
    <3>1. ASSUME NEW j \in DOMAIN s.all PROVE s.all[j] \in BranchesOf(s)
      BY <2>1 DEF BranchesOf, Range
    <3>2. QED
      BY <2>2, <3>1, InPlaceInside, LessOnTheWay
  <2>4. Follows(i, Afters)
    BY <2>3 DEF Follows, Branches
  <2>5. Empty.mark = None
    BY DEF Empty
  <2> HIDE DEF i
  <2>6. QED
    BY <1>1, <2>1, <2>4, <2>5, DocumentsAssumption, PathsFew, NoneCutAppended, CutsStayInPlace
<1>4. CASE NextBranch
  <2> DEFINE i == Inline(Head(Now.left), Now.path)
             j == Merge(result, 0)
             k == Branches(Tail(Now.left), Now.path)
  <2>1. /\ Now.do = "branches" /\ UNCHANGED <<document, heap>>
        /\ IF Now.left = <<>> THEN Then(<<>>) ELSE Then(<<i, j, k>>)
    BY <1>4 DEF NextBranch, Doing
  <2>2. /\ IsSequence(Now.left)
        /\ \A m \in DOMAIN Now.left : OnTheWay(Afters, Now.path, InPlaceHere(Now.left[m]))
    BY <2>1, <1>2, SequenceOf DEF IsInstruction, Follows
  <2>3. CASE Now.left = <<>>
    BY <1>1, <2>1, <2>3, PathsFew, NoneCutUnchanged, CutsStayInPlace
  <2>4. CASE Now.left # <<>>
    <3>1. /\ Head(Now.left) = Now.left[1] /\ 1 \in DOMAIN Now.left
          /\ \A m \in DOMAIN Tail(Now.left) : m + 1 \in DOMAIN Now.left /\ Tail(Now.left)[m] = Now.left[m + 1]
      BY <2>2, <2>4, Rest
    <3>2. Follows(i, Afters)
      BY <2>2, <3>1, FollowedCalls
    <3>3. Follows(j, Afters)
      BY NothingToFollow DEF Merge
    <3>4. Follows(k, Afters)
      BY <2>2, <3>1 DEF Follows, Branches
    <3> HIDE DEF i, j, k
    <3>5. QED
      BY <1>1, <2>1, <2>4, <3>2, <3>3, <3>4, PathsFew, NoneCutUnchanged, CutsStayInPlace
  <2>5. QED
    BY <2>3, <2>4
<1>5. QED
  BY <1>3, <1>4

\* Here something is cut: the pointer is on the path, and so the path is a loop.
LEMMA InlineFollows ==
    ASSUME IInv, PathsFollowed, CutOnlyInPlace, InlinePlain \/ InlineReference
    PROVE  PathsFollowed' /\ CutOnlyInPlace'
<1> DEFINE s == Now.schema
           path == Now.path
<1>1. program # <<>> /\ place # None /\ Now.do = "inline"
  BY DEF InlinePlain, InlineReference, Doing
<1>2. IsInstruction(Now, Ready, Made, DOMAIN defs) /\ document \in Documents
  BY <1>1, Begins
<1>3. IsSource(s) /\ path \in SUBSET Pointers /\ OnTheWay(Afters, path, InPlaceHere(s))
  BY <1>1, <1>2, HeadFollows DEF IsInstruction, IsSimple, Follows
<1>4. CASE InlinePlain
  <2> DEFINE i == Expand(s, path)
  <2>1. Then(<<i>>) /\ UNCHANGED <<document, heap>>
    BY <1>4 DEF InlinePlain
  <2>2. OnTheWay(Afters, path, Within(InPlaceIn, s))
    BY <1>3, LessOnTheWay DEF InPlaceHere
  <2>3. Follows(i, Afters)
    BY <2>2, FollowedCalls
  <2> HIDE DEF i
  <2>4. QED
    BY <1>1, <2>1, <2>3, PathsFew, NoneCutUnchanged, CutsStayInPlace
<1>5. CASE InlineReference
  <2> DEFINE i == And(<<Expand(Siblings(s), path)>>, "merge", 0)
             beside == IF Blank(Siblings(s)) THEN <<>> ELSE <<i>>
             j == Inline(Resolve(s.ref), path \cup {s.ref})
             d == Cut(Resolve(s.ref))
  <2>1. /\ s.ref # None /\ document' = document
        /\ IF s.ref \in path THEN heap' = Append(heap, d) /\ Then(beside)
           ELSE Then(<<j>> \o beside) /\ UNCHANGED heap
    BY <1>5 DEF InlineReference, Make
  <2>2. s.ref \in Pointers /\ s.ref \in InPlaceHere(s) /\ IsSource(Resolve(s.ref))
    BY <1>2, <1>3, <2>1, SourceParts, ResolvedIsSource DEF InPlaceHere, RefOf
  <2>3. Follows(i, Afters)
    <3>1. Within(InPlaceIn, Siblings(s)) \subseteq InPlaceHere(s)
      BY <1>3, InPlaceInside DEF InPlaceHere
    <3>2. OnTheWay(Afters, path, Within(InPlaceIn, Siblings(s)))
      BY <1>3, <3>1, LessOnTheWay
    <3>3. FollowsCall(<<Expand(Siblings(s), path)>>, Afters)
      BY <3>2, FollowedCalls
    <3>4. i.do = "and" /\ i.calls = <<Expand(Siblings(s), path)>>
      BY DEF And
    <3> HIDE DEF i
    <3>5. QED
      BY <3>3, <3>4, NothingToFollow
  <2>4. Follows(j, Afters)
    <3>1. Afters[s.ref] = InPlaceHere(Resolve(s.ref))
      BY <2>2 DEF Afters, After, InPlaceHere
    <3>2. OnTheWay(Afters, path \cup {s.ref}, InPlaceHere(Resolve(s.ref)))
      BY <1>3, <2>2, <3>1, FurtherOnTheWay
    <3>3. QED
      BY <3>2, FollowedCalls
  <2>5. <<j>> \o <<i>> = <<j, i>> /\ <<j>> \o <<>> = <<j>>
    BY Tuples
  <2>6. beside = <<>> \/ beside = <<i>>
    OBVIOUS
  <2> HIDE DEF i, j, d, beside
  <2>7. CASE s.ref \notin path
    <3>1. (Then(<<j>>) \/ Then(<<j, i>>)) /\ heap' = heap
      BY <2>1, <2>5, <2>6, <2>7
    <3>2. QED
      BY <1>1, <2>1, <2>3, <2>4, <3>1, PathsFew, NoneCutUnchanged, CutsStayInPlace
  <2>8. CASE s.ref \in path
    <3>1. PathsFollowed'
      BY <1>1, <2>1, <2>3, <2>6, <2>8, PathsFew
    <3>2. \A p \in path : Afters[p] \cap path # {}
      BY <1>3, <2>2, <2>8, PathIsLoop
    <3>3. \A p \in path : After(p)' \cap path # {}
      <4>1. \A p \in path : Afters[p] = After(p) /\ After(p)' = After(p)
        BY <1>3, <2>1 DEF Afters, After, Resolve
      <4>2. QED
        BY <3>2, <4>1
    <3>4. path \in (SUBSET Pointers) \ {{}}
      BY <1>3, <2>8
    <3> HIDE DEF path
    <3>5. QED
      BY <3>1, <3>3, <3>4 DEF CutOnlyInPlace
  <2>9. QED
    BY <2>7, <2>8
<1>6. QED
  BY <1>4, <1>5

\* What holds calls brings them into the program as they were.
LEMMA NextFieldFollows ==
    ASSUME IInv, PathsFollowed, CutOnlyInPlace, NextField
    PROVE  PathsFollowed' /\ CutOnlyInPlace'
<1>1. PICK f \in DOMAIN Now.todo : Then(Now.todo[f] \o <<Build(Now.node, f, Restrict(Now.todo, DOMAIN Now.todo \ {f}))>>)
  BY DEF NextField
<1> DEFINE p == Now.todo[f]
           todo == Restrict(Now.todo, DOMAIN Now.todo \ {f})
           i == Build(Now.node, f, todo)
           r == <<i>>
<1>2. place # None /\ program # <<>> /\ Now.do = "build" /\ UNCHANGED <<document, heap>>
  BY DEF NextField, Doing
<1>3. IsInstruction(Now, Ready, Made, DOMAIN defs) /\ Follows(Now, Afters)
  BY <1>2, Begins, HeadFollows
<1>4. \A g \in DOMAIN Now.todo : IsCall(Now.todo[g], Ready) /\ FollowsCall(Now.todo[g], Afters)
  BY <1>2, <1>3 DEF IsInstruction, Follows
<1>5. IsSequence(p) /\ \A j \in DOMAIN p : Follows(p[j], Afters)
  BY <1>4, FollowsEach
<1>6. Follows(i, Afters)
  <2>1. \A g \in DOMAIN todo : FollowsCall(todo[g], Afters)
    BY <1>4 DEF Restrict
  <2>2. i.do = "build" /\ i.todo = todo
    BY DEF Build
  <2> HIDE DEF i, todo
  <2>3. QED
    BY <2>1, <2>2, NothingToFollow
<1>7. IsSequence(r)
  BY Tuples
<1>8. \A j \in DOMAIN r : Follows(r[j], Afters)
  BY <1>6, FollowedPrograms
<1>9. Then(p \o r)
  BY <1>1
<1> HIDE DEF p, r
<1>10. QED
  BY <1>2, <1>5, <1>7, <1>8, <1>9, FollowedInARow, PathsStayFollowed, NoneCutUnchanged, CutsStayInPlace

\* (As the calls to combine with do,
LEMMA ThenCombineFollows ==
    ASSUME IInv, PathsFollowed, CutOnlyInPlace, ThenCombine
    PROVE  PathsFollowed' /\ CutOnlyInPlace'
<1> DEFINE p == Now.calls
           i == [do |-> Now.how, base |-> result, depth |-> Now.depth]
           r == <<i>>
<1>1. /\ place # None /\ program # <<>> /\ Now.do = "and" /\ UNCHANGED <<document, heap>>
      /\ Then(p \o r)
  BY DEF ThenCombine, Doing
<1>2. IsInstruction(Now, Ready, Made, DOMAIN defs) /\ Follows(Now, Afters)
  BY <1>1, Begins, HeadFollows
<1>3. IsCall(p, Ready) /\ FollowsCall(p, Afters) /\ Now.how \in {"merge", "join"}
  BY <1>1, <1>2 DEF IsInstruction, Follows
<1>4. IsSequence(p) /\ \A j \in DOMAIN p : Follows(p[j], Afters)
  BY <1>3, FollowsEach
<1>5. Follows(i, Afters)
  BY <1>3, NothingToFollow
<1>6. IsSequence(r)
  BY Tuples
<1>7. \A j \in DOMAIN r : Follows(r[j], Afters)
  BY <1>5, FollowedPrograms
<1> HIDE DEF p, r
<1>8. QED
  BY <1>1, <1>4, <1>6, <1>7, FollowedInARow, PathsStayFollowed, NoneCutUnchanged, CutsStayInPlace

\* Merging cuts nothing that was not cut, and calls nothing of the spec.
LEMMA MergeOpensFollows ==
    ASSUME IInv, PathsFollowed, CutOnlyInPlace, MergeOpens
    PROVE  PathsFollowed' /\ CutOnlyInPlace'
<1> DEFINE base == heap[Now.base]
           over == heap[result]
           Opened(a, opens, siblings) ==
               IF opens THEN <<Return(siblings), Merge(defs[heap[a].ref.name], Now.depth + 1)>>
               ELSE <<Return(a)>>
           p == Opened(Now.base, Opens(base, over), New)
           c == Opened(result, Opens(over, base), New + 1)
           i == And(c, "join", Now.depth)
           r == <<i>>
<1>1. /\ place # None /\ program # <<>> /\ Now.do = "merge" /\ Then(p \o r)
      /\ heap' = heap \o <<Siblings(base), Siblings(over)>> /\ document' = document
  BY DEF MergeOpens, Doing
<1>2. /\ IsInstruction(Now, Ready, Made, DOMAIN defs) /\ HeapSound /\ Ready \subseteq Made
      /\ ~Returns(Now) => result \in Ready
      /\ \A a \in Made : heap[a] \in Dicts(Ready, DOMAIN defs)
  BY <1>1, Begins
<1>3. Now.base \in Made /\ result \in Made
  BY <1>1, <1>2 DEF IsInstruction, IsSimple, Returns
<1>4. Extended /\ Added = {New, New + 1} /\ heap'[New] = Siblings(base) /\ heap'[New + 1] = Siblings(over)
  BY <1>1, <1>2, HeapAppendedTwice
<1>5. Siblings(base).mark = base.mark /\ Siblings(over).mark = over.mark
  BY <1>2, <1>3 DEF Siblings, Dicts
<1>6. NoneCut
  <2> HIDE DEF p, r
  <2>1. \A a \in Made' : a \in Made \/ a \in {New, New + 1}
    BY <1>4 DEF Made, Added
  <2>2. \A a \in Made : heap'[a] = heap[a]
    BY <1>4 DEF Made, Extended
  <2>3. QED
    BY <1>1, <1>3, <1>4, <1>5, <2>1, <2>2 DEF NoneCut
<1>7. ASSUME NEW a, NEW b, NEW opens
      PROVE  /\ IsSequence(Opened(a, opens, b)) /\ FollowsCall(Opened(a, opens, b), Afters)
             /\ \A j \in DOMAIN Opened(a, opens, b) : Follows(Opened(a, opens, b)[j], Afters)
  <2> DEFINE x == Return(b)
             y == Merge(defs[heap[a].ref.name], Now.depth + 1)
             z == Return(a)
  <2>1. /\ FollowsCall(<<x, y>>, Afters) /\ FollowsCall(<<z>>, Afters)
        /\ IsSequence(<<x, y>>) /\ IsSequence(<<z>>)
    BY FollowedCalls, Tuples
  <2>2. Follows(x, Afters) /\ Follows(y, Afters) /\ Follows(z, Afters)
    BY NothingToFollow DEF Return, Merge
  <2> HIDE DEF x, y, z
  <2>3. /\ \A j \in DOMAIN <<x, y>> : Follows(<<x, y>>[j], Afters)
        /\ \A j \in DOMAIN <<z>> : Follows(<<z>>[j], Afters)
    BY <2>2, FollowedPrograms
  <2> DEFINE two == <<x, y>>
             one == <<z>>
  <2>4. Opened(a, opens, b) = IF opens THEN two ELSE one
    BY DEF x, y, z
  <2>5. /\ FollowsCall(two, Afters) /\ FollowsCall(one, Afters) /\ IsSequence(two) /\ IsSequence(one)
        /\ \A j \in DOMAIN two : Follows(two[j], Afters)
        /\ \A j \in DOMAIN one : Follows(one[j], Afters)
    BY <2>1, <2>3
  <2> HIDE DEF one, two
  <2>6. QED
    BY <2>4, <2>5
<1>8. /\ IsSequence(p) /\ FollowsCall(c, Afters)
      /\ \A j \in DOMAIN p : Follows(p[j], Afters)
  BY <1>7
<1>9. Follows(i, Afters)
  <2>1. i.do = "and" /\ i.calls = c
    BY DEF And
  <2> HIDE DEF i, c
  <2>2. QED
    BY <2>1, <1>8, NothingToFollow
<1>10. IsSequence(r)
  BY Tuples
<1>11. \A j \in DOMAIN r : Follows(r[j], Afters)
  <2> HIDE DEF i
  <2>1. QED
    BY <1>9, FollowedPrograms
<1> HIDE DEF p, r
<1>12. QED
  BY <1>1, <1>6, <1>8, <1>10, <1>11, FollowedInARow, PathsStayFollowed, CutsStayInPlace

\* as do those for properties of one name.)
LEMMA JoinDictsFollows ==
    ASSUME IInv, PathsFollowed, CutOnlyInPlace, JoinDicts
    PROVE  PathsFollowed' /\ CutOnlyInPlace'
<1> DEFINE base == heap[Now.base]
           over == heap[result]
           d == Joined(base, over)
           todo == [f \in Merges(base, over) |->
                       <<Return(over.props[f]), Merge(base.props[f], Now.depth + 1)>>]
           i == Build(New, None, todo)
<1>1. /\ place # None /\ program # <<>> /\ Now.do = "join" /\ document' = document
      /\ heap' = WithKey(heap, New, d) /\ Then(<<i>>)
  BY DEF JoinDicts, Doing, CopyOf
<1>2. /\ IsInstruction(Now, Ready, Made, DOMAIN defs) /\ HeapSound /\ Ready \subseteq Made
      /\ ~Returns(Now) => result \in Ready
  BY <1>1, Begins
<1>3. Now.base \in Made /\ result \in Made
  BY <1>1, <1>2 DEF IsInstruction, IsSimple, Returns
<1>4. d.mark = "cut" => base.mark = "cut" \/ over.mark = "cut"
  BY DEF Joined
<1>5. \A f \in DOMAIN todo : FollowsCall(todo[f], Afters)
  BY FollowedCalls
<1>6. i.do = "build" /\ i.todo = todo
  BY DEF Build
<1> HIDE DEF d, i, todo
<1>7. Follows(i, Afters)
  BY <1>5, <1>6, NothingToFollow
<1>8. NoneCut
  <2>1. \A a \in Made' : heap'[a] = IF a = New THEN d ELSE heap[a]
    BY <1>1 DEF WithKey, Made
  <2>2. \A a \in Made' : a = New \/ a \in Made
    BY <1>1 DEF WithKey, Made
  <2>3. QED
    BY <1>1, <1>3, <1>4, <2>1, <2>2 DEF NoneCut
<1>9. QED
  BY <1>1, <1>7, <1>8, PathsFew, CutsStayInPlace

\* A place begins with no path to follow.
LEMMA PlacesFollow ==
    ASSUME IInv, PathsFollowed, CutOnlyInPlace,
           (\E p \in Places : ExpandPlace(p)) \/ PlaceDone \/ MergeTooDeep \/ UNCHANGED vars
    PROVE  PathsFollowed' /\ CutOnlyInPlace'
<1>1. document' = document /\ heap' = heap /\ Afters' = Afters
  BY DEF ExpandPlace, PlaceDone, MergeTooDeep, vars, Afters, After, Resolve
<1>2. CutOnlyInPlace'
  BY <1>1, NoneCutUnchanged, CutsStayInPlace
<1>3. CASE program' = program
  BY <1>1, <1>2, <1>3 DEF PathsFollowed
<1>4. ASSUME NEW p \in Places, ExpandPlace(p)
      PROVE  PathsFollowed'
  <2> DEFINE s == document.places[p].schema
             i == IF document.places[p].body THEN Inline(s, {}) ELSE Expand(s, {})
  <2>1. program' = <<i>>
    BY <1>4 DEF ExpandPlace
  <2>2. Follows(i, Afters)
    BY NothingToFollow
  <2> HIDE DEF i
  <2>3. \A j \in DOMAIN <<i>> : Follows(<<i>>[j], Afters)
    BY <2>2, FollowedPrograms
  <2>4. QED
    BY <1>1, <2>1, <2>3 DEF PathsFollowed
<1>5. QED
  BY <1>2, <1>3, <1>4 DEF PlaceDone, MergeTooDeep, vars

\* All that is cut, at any time, is cut at a pointer that leads in place to itself.
THEOREM CutsAlwaysInPlace == Spec => []CutOnlyInPlace
<1>1. Init => PathsFollowed /\ CutOnlyInPlace
  <2> SUFFICES ASSUME Init PROVE PathsFollowed /\ CutOnlyInPlace
    OBVIOUS
  <2>1. program = <<>> /\ DOMAIN program = {}
    BY DEF Init
  <2>2. Made = {}
    <3>1. heap = <<Sentinel>> /\ DOMAIN heap = {1}
      BY DEF Init
    <3>2. QED
      BY <3>1 DEF Made, Expanding
  <2>3. QED
    BY <2>1, <2>2 DEF PathsFollowed, CutOnlyInPlace
<1>2. IInv /\ PathsFollowed /\ CutOnlyInPlace /\ [Next]_vars => PathsFollowed' /\ CutOnlyInPlace'
  <2> SUFFICES ASSUME IInv, PathsFollowed, CutOnlyInPlace, [Next]_vars
               PROVE  PathsFollowed' /\ CutOnlyInPlace'
    OBVIOUS
  <2>1. CASE (\E p \in Places : ExpandPlace(p)) \/ PlaceDone \/ UNCHANGED vars
    BY <2>1, PlacesFollow
  <2>2. CASE ExpandSchema
    BY <2>2, ExpandFollows, MadeOnlyFollows, BranchesFollow DEF ExpandSchema
  <2>3. CASE Fill
    BY <2>3, ExpandFollows, NextFieldFollows, MadeOnlyFollows DEF Fill
  <2>4. CASE InPlace
    BY <2>4, InlineFollows, ThenCombineFollows, MadeOnlyFollows DEF InPlace
  <2>5. CASE DeepMerge
    BY <2>5, MergeOpensFollows, MadeOnlyFollows, PlacesFollow, JoinDictsFollows DEF DeepMerge
  <2>6. QED
    BY <2>1, <2>2, <2>3, <2>4, <2>5 DEF Next
<1>3. QED
  BY Inductive, <1>1, <1>2, PTL DEF Spec
=============================================================================
