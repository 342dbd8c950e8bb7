-------------------------- MODULE SharedDefsProofs --------------------------
(***************************************************************************)
(* Proofs about SharedDefs: counting meets exactly what the root reaches,  *)
(* and inlining writes exactly that, each component once, however the      *)
(* components refer to each other.                                         *)
(***************************************************************************)
EXTENDS SharedDefs, TLAPS

USE SharedDefsAssumption

\* The texts counting has entered, and the places it has walked.
Met == {c \in Components : counts[c] > 0} \cup {Root}
Walked == {p \in Places : In(p) \in Met} \ pending

\* The texts rewriting has entered, and the places it is done with.
Out == {c \in Components : written[c] > 0} \cup {Root}
Handled == {p \in Places : In(p) \in Out} \ todo

\* Counting: what is pending lies in texts met, and what is counted was walked.
PendingIsMet == \A p \in pending : In(p) \in Met
CountedWasWalked == \A c \in Components : counts[c] > 0 => \E p \in Walked : To(p) = c
WalkedIsCounted == \A p \in Walked : counts[To(p)] > 0
TwiceIsCountedTwice ==
    \A p, q \in Walked : p # q /\ To(p) = To(q) => counts[To(p)] > 1
CountedTwiceIsTwice ==
    \A c \in Components : counts[c] > 1 => \E p, q \in Walked : p # q /\ To(p) = c /\ To(q) = c

\* Nothing is met that some closed set does without.
MetIsReached == \A S \in SUBSET Components : Holds(S) => Met \subseteq S \cup {Root}

Counting ==
    /\ PendingIsMet /\ CountedWasWalked /\ WalkedIsCounted
    /\ TwiceIsCountedTwice /\ CountedTwiceIsTwice
    /\ MetIsReached
    /\ phase # "count" => pending = {}

\* Naming: only what is shared has a key, and long names came last.
Naming ==
    /\ phase = "count" => DOMAIN key = {}
    /\ phase # "count" => DOMAIN key \subseteq Shared
    /\ DOMAIN key \cap Long # {} => Shared \ Long \subseteq DOMAIN key

\* Rewriting: what is written was met and is shared or named by a place that is
\* done, and what a place that is done names is written.
Rewriting ==
    /\ phase # "inline" => \A c \in Components : written[c] = 0
    /\ phase = "inline" =>
          /\ \A p \in todo : In(p) \in Out
          /\ \A c \in Shared : written[c] > 0
          /\ \A c \in Components : written[c] > 0 => counts[c] > 0
          /\ \A c \in Components \ Shared : written[c] > 0 => \E p \in Handled : To(p) = c
          /\ \A p \in Handled : written[To(p)] > 0

IInv == TypeOK /\ Counting /\ Naming /\ KeysIdentify /\ Rewriting /\ WrittenOnce

-----------------------------------------------------------------------------
\* Nothing is counted, named or written at the start.
LEMMA TypeInit == Init => TypeOK
  BY DEF Init, TypeOK, Text, In, Texts

\* A step writes into the state what its type allows.
LEMMA TypeStep == TypeOK /\ [Next]_vars => TypeOK'
<1> SUFFICES ASSUME TypeOK, [Next]_vars PROVE TypeOK'
  OBVIOUS
<1>1. ASSUME NEW p \in Places, Count(p) PROVE TypeOK'
  <2>1. To(p) \in Components
    BY DEF To, TypeOK
  <2> QED
    BY <1>1, <2>1 DEF Count, TypeOK, Text, In, Keys
<1>2. ASSUME NEW p \in Places, Inline(p) PROVE TypeOK'
  <2>1. To(p) \in Components
    BY DEF To, TypeOK
  <2> QED
    BY <1>2, <2>1 DEF Inline, TypeOK, Text, In, Keys
<1>3. ASSUME NEW c \in Components, NEW n \in 1..(Cardinality(Components) + 1), ClaimKey(c, n)
      PROVE TypeOK'
  <2>1. n \in Nat /\ n >= 1
    BY <1>3 DEF ClaimKey, FreeKey
  <2>2. WithNumber(c, n) \in Keys
    BY <2>1 DEF WithNumber, Keys
  <2> QED
    BY <1>3, <2>2 DEF ClaimKey, TypeOK, Keys
<1>4. ASSUME Counted PROVE TypeOK'
  BY <1>4 DEF Counted, TypeOK, Keys
<1>5. ASSUME Named PROVE TypeOK'
  BY <1>5 DEF Named, TypeOK, Keys
<1>6. CASE UNCHANGED vars
  BY <1>6 DEF vars, TypeOK, Keys
<1> QED
  BY <1>1, <1>2, <1>3, <1>4, <1>5, <1>6 DEF Next

-----------------------------------------------------------------------------
\* At the start only the root is met, and nothing else to show.
LEMMA InInit == Init => IInv
<1> SUFFICES ASSUME Init PROVE IInv
  OBVIOUS
<1> USE DEF Init
<1>1. TypeOK
  BY TypeInit
<1>2. Met = {Root} /\ Walked = {}
  BY DEF Met, Walked, Text, In, TypeOK
<1>3. Counting
  BY <1>1, <1>2 DEF Counting, PendingIsMet, CountedWasWalked, WalkedIsCounted, TwiceIsCountedTwice,
     CountedTwiceIsTwice, MetIsReached, Text, Shared
<1>4. Naming /\ KeysIdentify /\ Rewriting /\ WrittenOnce
  BY DEF Naming, KeysIdentify, Rewriting, WrittenOnce
<1> QED
  BY <1>1, <1>3, <1>4 DEF IInv

\* Walking a place: it joins the walked, and the text it names is met.
LEMMA CountStep ==
    ASSUME IInv, TypeOK', NEW p \in Places, Count(p)
    PROVE  Counting'
<1> DEFINE c == To(p)
<1>1. c \in Components /\ In(p) \in Met
  BY DEF IInv, TypeOK, To, Counting, PendingIsMet, Count
<1>2. /\ counts'[c] = counts[c] + 1 /\ counts[c] \in Nat
      /\ \A d \in Components \ {c} : counts'[d] = counts[d]
      /\ \A d \in Components : counts[d] \in Nat /\ counts'[d] \in Nat
  BY <1>1 DEF Count, IInv, TypeOK
<1>3. \A q \in Places : In(q)' = In(q) /\ To(q)' = To(q) /\ To(q) \in Components /\ In(q) \in Texts
  BY DEF Count, In, To, IInv, TypeOK
<1>4. Met' = Met \cup {c}
  BY <1>1, <1>2 DEF Met
<1>5. Walked' = Walked \cup {p}
  <2>1. CASE counts[c] = 0
    <3>1. pending' = (pending \ {p}) \cup Text(c)
      BY <2>1 DEF Count
    <3>2. c \notin Met
      BY <2>1, <1>1, SharedDefsAssumption DEF Met
    <3>3. p \notin Text(c)
      BY <3>2, <1>1 DEF Text
    <3> QED
      BY <3>1, <3>2, <3>3, <1>1, <1>3, <1>4 DEF Walked, Text, Count
  <2>2. CASE counts[c] # 0
    <3>1. pending' = pending \ {p}
      BY <2>2 DEF Count
    <3>2. c \in Met
      BY <2>2, <1>1, <1>2 DEF Met
    <3> QED
      BY <3>1, <3>2, <1>1, <1>3, <1>4 DEF Walked, Count
  <2> QED
    BY <2>1, <2>2
<1>6. p \notin Walked
  BY DEF Walked, Count
<1>7. PendingIsMet'
  <2>1. pending' \subseteq pending \cup Text(c)
    BY DEF Count
  <2>2. \A q \in pending' : q \in Places /\ In(q) \in Met \cup {c}
    BY <2>1 DEF PendingIsMet, IInv, Counting, TypeOK, Text
  <2> QED
    BY <2>2, <1>3, <1>4 DEF PendingIsMet
<1>8. WalkedIsCounted'
  BY <1>1, <1>2, <1>3, <1>5 DEF WalkedIsCounted, IInv, Counting, Walked
<1>9. TwiceIsCountedTwice'
  <2> SUFFICES ASSUME NEW q \in Walked', NEW r \in Walked', q # r, To(q)' = To(r)'
               PROVE  counts'[To(q)'] > 1
    BY DEF TwiceIsCountedTwice
  <2>1. CASE q = p \/ r = p
    BY <2>1, <1>1, <1>2, <1>3, <1>5, <1>6 DEF WalkedIsCounted, IInv, Counting, Walked
  <2>2. CASE q # p /\ r # p
    BY <2>2, <1>1, <1>2, <1>3, <1>5 DEF TwiceIsCountedTwice, IInv, Counting, Walked
  <2> QED
    BY <2>1, <2>2
<1>10. CountedTwiceIsTwice'
  <2> SUFFICES ASSUME NEW d \in Components, counts'[d] > 1
               PROVE  \E q, r \in Walked' : q # r /\ To(q)' = d /\ To(r)' = d
    BY DEF CountedTwiceIsTwice
  <2>1. CASE d = c /\ counts[c] = 1
    <3>1. PICK q \in Walked : To(q) = c
      BY <2>1 DEF IInv, Counting, CountedWasWalked
    <3> QED
      BY <3>1, <2>1, <1>3, <1>5, <1>6 DEF Walked
  <2>2. CASE counts[d] > 1
    BY <2>2, <1>3, <1>5 DEF CountedTwiceIsTwice, IInv, Counting, Walked
  <2> QED
    BY <2>1, <2>2, <1>2
<1>11. CountedWasWalked'
  BY <1>1, <1>2, <1>3, <1>5 DEF CountedWasWalked, IInv, Counting, Walked
<1>12. MetIsReached'
  BY <1>1, <1>3, <1>4 DEF MetIsReached, Holds, IInv, Counting, Met, Texts, Count
<1> QED
  BY <1>7, <1>8, <1>9, <1>10, <1>11, <1>12 DEF Counting, Count

-----------------------------------------------------------------------------
\* Rewriting a place.  A text that is written in place was named by this place
\* alone: another place that named it would have made it shared.
LEMMA InlineStep ==
    ASSUME IInv, TypeOK', NEW p \in Places, Inline(p)
    PROVE  Rewriting' /\ WrittenOnce'
<1> DEFINE c == To(p)
<1> USE DEF IInv
<1>1. c \in Components /\ phase = "inline" /\ phase' = "inline" /\ p \in todo /\ pending = {}
  BY DEF TypeOK, To, Inline, Counting
<1>2. \A q \in Places : In(q)' = In(q) /\ To(q)' = To(q) /\ To(q) \in Components /\ In(q) \in Texts
  BY DEF Inline, In, To, TypeOK
<1>3. Out \subseteq Met
  BY <1>1 DEF Rewriting, Out, Met
<1>4. \A q \in Places : In(q) \in Out => q \in Walked
  BY <1>1, <1>3 DEF Walked
<1>5. \A d \in Components : written[d] \in Nat /\ written'[d] \in Nat /\ counts[d] \in Nat
  BY DEF TypeOK
<1>6. Shared' = Shared /\ counts' = counts
  BY DEF Inline, Shared
<1>7. CASE c \in Shared
  <2>1. todo' = todo \ {p} /\ written' = written
    BY <1>7 DEF Inline
  <2>2. Out' = Out /\ Handled' = Handled \cup {p}
    BY <2>1, <1>1, <1>2 DEF Out, Handled, Rewriting
  <2>3. Rewriting'
    <3>1. \A q \in todo' : In(q)' \in Out'
      BY <2>1, <2>2, <1>1, <1>2 DEF Rewriting, TypeOK
    <3>2. /\ \A d \in Shared' : written'[d] > 0
          /\ \A d \in Components : written'[d] > 0 => counts'[d] > 0
      BY <2>1, <1>1, <1>6 DEF Rewriting
    <3>3. \A d \in Components \ Shared' : written'[d] > 0 => \E q \in Handled' : To(q)' = d
      BY <2>1, <2>2, <1>1, <1>2, <1>6 DEF Rewriting, Handled
    <3>4. \A q \in Handled' : written'[To(q)'] > 0
      BY <2>1, <2>2, <1>1, <1>2, <1>7 DEF Rewriting, Handled
    <3> QED
      BY <3>1, <3>2, <3>3, <3>4, <1>1 DEF Rewriting
  <2> QED
    BY <2>1, <2>3 DEF WrittenOnce
<1>8. CASE c \notin Shared
  <2>1. todo' = (todo \ {p}) \cup Text(c) /\ written' = [written EXCEPT ![c] = @ + 1]
    BY <1>8 DEF Inline
  <2>2. written[c] = 0
    <3>1. SUFFICES ASSUME written[c] # 0 PROVE FALSE
      OBVIOUS
    <3>2. PICK q \in Handled : To(q) = c
      BY <3>1, <1>1, <1>5, <1>8 DEF Rewriting
    <3>3. q \in Walked /\ p \in Walked /\ p # q
      BY <3>2, <1>1, <1>4 DEF Handled, Rewriting
    <3>4. counts[c] > 1
      BY <3>2, <3>3 DEF Counting, TwiceIsCountedTwice
    <3> QED
      BY <3>4, <1>1, <1>8 DEF Shared
  <2>3. counts[c] > 0
    BY <1>1, <1>4 DEF Counting, WalkedIsCounted, Rewriting
  <2>4. /\ written'[c] = 1
        /\ \A d \in Components \ {c} : written'[d] = written[d]
    BY <2>1, <2>2, <1>1 DEF TypeOK
  <2>5. Out' = Out \cup {c} /\ c \notin Out
    BY <2>2, <2>4, <1>1, <1>5, SharedDefsAssumption DEF Out
  <2>6. Handled' = Handled \cup {p}
    <3>1. p \notin Text(c)
      BY <1>1, <2>5 DEF Text, Rewriting
    <3> QED
      BY <2>1, <2>5, <3>1, <1>1, <1>2 DEF Handled, Text, Rewriting
  <2>7. Rewriting'
    <3>1. \A q \in todo' : In(q)' \in Out'
      BY <2>1, <2>5, <1>1, <1>2 DEF Rewriting, Text, TypeOK
    <3>2. \A d \in Shared' : written'[d] > 0
      BY <2>4, <1>1, <1>6, <1>8 DEF Rewriting, Shared
    <3>3. \A d \in Components : written'[d] > 0 => counts'[d] > 0
      BY <2>3, <2>4, <1>1, <1>6 DEF Rewriting
    <3>4. \A d \in Components \ Shared' : written'[d] > 0 => \E q \in Handled' : To(q)' = d
      <4> SUFFICES ASSUME NEW d \in Components \ Shared, written'[d] > 0
                   PROVE  \E q \in Handled' : To(q)' = d
        BY <1>6
      <4>1. CASE d = c
        BY <4>1, <2>6, <1>2
      <4>2. CASE d # c
        <5>1. PICK q \in Handled : To(q) = d
          BY <4>2, <2>4, <1>1 DEF Rewriting
        <5> QED
          BY <5>1, <2>6, <1>2 DEF Handled
      <4> QED
        BY <4>1, <4>2
    <3>5. \A q \in Handled' : written'[To(q)'] > 0
      <4> SUFFICES ASSUME NEW q \in Handled' PROVE written'[To(q)'] > 0
        OBVIOUS
      <4>1. CASE q = p
        BY <4>1, <2>4, <1>2
      <4>2. CASE q # p
        <5>1. q \in Handled /\ q \in Places
          BY <4>2, <2>6 DEF Handled
        <5>2. written[To(q)] > 0 /\ To(q) \in Components /\ To(q)' = To(q)
          BY <5>1, <1>1, <1>2 DEF Rewriting
        <5> QED
          BY <5>2, <2>4
      <4> QED
        BY <4>1, <4>2
    <3> QED
      BY <3>1, <3>2, <3>3, <3>4, <3>5, <1>1 DEF Rewriting
  <2>8. WrittenOnce'
    BY <2>4, <1>5 DEF WrittenOnce
  <2> QED
    BY <2>7, <2>8
<1> QED
  BY <1>7, <1>8

\* Claiming a key.  A short name's own key is free, for names that clients
\* accept are keys of one component only and nothing longer is named before.
LEMMA ClaimStep ==
    ASSUME IInv, NEW c \in Components, NEW n \in Nat, ClaimKey(c, n)
    PROVE  Naming' /\ KeysIdentify'
<1> USE DEF IInv
<1>1. /\ phase = "name" /\ phase' = "name"
      /\ c \in Shared \ DOMAIN key
      /\ DOMAIN key' = DOMAIN key \cup {c}
      /\ key'[c] = WithNumber(c, n)
      /\ \A d \in DOMAIN key : key'[d] = key[d]
      /\ Shared' = Shared
  BY DEF ClaimKey, Shared
<1>2. Naming'
  BY <1>1 DEF Naming, ClaimKey, ShortFirst
<1>3. \A d \in DOMAIN key : key[d] # WithNumber(c, n)
  BY DEF ClaimKey, FreeKey, Taken
<1>4. c \notin Long => WithNumber(c, n) = KeyFor[c]
  <2> SUFFICES ASSUME c \notin Long PROVE n = 1
    BY DEF WithNumber
  <2>1. DOMAIN key \cap Long = {}
    BY <1>1 DEF Naming, Shared
  <2>2. ~Taken(KeyFor[c])
    <3> SUFFICES ASSUME NEW d \in DOMAIN key PROVE key[d] # KeyFor[c]
      BY DEF Taken
    <3>1. key[d] = KeyFor[d] /\ d \in Components \ Long /\ d # c
      BY <2>1, <1>1 DEF KeysIdentify, TypeOK
    <3> QED
      BY <3>1, SharedDefsAssumption
  <2>3. ~(n > 1)
    <3> SUFFICES ASSUME n > 1 PROVE FALSE
      OBVIOUS
    <3>1. 1 \in 1..(n - 1)
      OBVIOUS
    <3>2. Taken(WithNumber(c, 1))
      BY <3>1 DEF ClaimKey, FreeKey
    <3> QED
      BY <3>2, <2>2 DEF WithNumber
  <2> QED
    BY <2>3 DEF ClaimKey, FreeKey
<1>5. KeysIdentify'
  BY <1>1, <1>3, <1>4 DEF KeysIdentify
<1> QED
  BY <1>2, <1>5

\* What a step leaves alone keeps its part of the invariant.
LEMMA CountingKept ==
    ASSUME IInv, UNCHANGED <<place, pending, counts>>, phase = "count" => pending' = {} \/ phase' = "count"
    PROVE  Counting'
<1>1. Met' = Met /\ Walked' = Walked /\ \A p \in Places : In(p)' = In(p) /\ To(p)' = To(p)
  BY DEF Met, Walked, In, To
<1> QED
  BY <1>1 DEF IInv, Counting, PendingIsMet, CountedWasWalked, WalkedIsCounted,
     TwiceIsCountedTwice, CountedTwiceIsTwice, MetIsReached, Holds, Walked, TypeOK

\* ... of the keys,
LEMMA NamingKept ==
    ASSUME IInv, UNCHANGED key, phase' # "count" => Shared' = Shared,
           phase' = "count" => phase = "count"
    PROVE  Naming' /\ KeysIdentify'
BY DEF IInv, Naming, KeysIdentify

\* ... and of what is written.
LEMMA RewritingKept ==
    ASSUME IInv, UNCHANGED written, phase # "inline", phase' # "inline"
    PROVE  Rewriting' /\ WrittenOnce'
BY DEF IInv, Rewriting, WrittenOnce

\* Each step keeps the invariant: one lemma per part it disturbs.
LEMMA InStep == IInv /\ [Next]_vars => IInv'
<1> SUFFICES ASSUME IInv, [Next]_vars PROVE IInv'
  OBVIOUS
<1>0. TypeOK'
  BY TypeStep DEF IInv
<1>1. ASSUME NEW p \in Places, Count(p) PROVE IInv'
  <2>1. Counting'
    BY <1>0, <1>1, CountStep
  <2>2. Naming' /\ KeysIdentify'
    BY <1>1, NamingKept DEF Count
  <2>3. Rewriting' /\ WrittenOnce'
    BY <1>1, RewritingKept DEF Count
  <2> QED
    BY <1>0, <2>1, <2>2, <2>3 DEF IInv
<1>2. ASSUME NEW p \in Places, Inline(p) PROVE IInv'
  <2>1. Counting'
    BY <1>2, CountingKept DEF Inline
  <2>2. Naming' /\ KeysIdentify'
    BY <1>2, NamingKept DEF Inline, Shared
  <2>3. Rewriting' /\ WrittenOnce'
    BY <1>0, <1>2, InlineStep
  <2> QED
    BY <1>0, <2>1, <2>2, <2>3 DEF IInv
<1>3. ASSUME NEW c \in Components, NEW n \in 1..(Cardinality(Components) + 1), ClaimKey(c, n)
      PROVE IInv'
  <2>1. Counting'
    BY <1>3, CountingKept DEF ClaimKey
  <2>2. Naming' /\ KeysIdentify'
    BY <1>3, ClaimStep
  <2>3. Rewriting' /\ WrittenOnce'
    BY <1>3, RewritingKept DEF ClaimKey
  <2> QED
    BY <1>0, <2>1, <2>2, <2>3 DEF IInv
<1>4. ASSUME Counted PROVE IInv'
  <2>1. Counting'
    BY <1>4, CountingKept DEF Counted
  <2>2. Naming' /\ KeysIdentify'
    BY <1>4 DEF Counted, IInv, Naming, KeysIdentify
  <2>3. Rewriting' /\ WrittenOnce'
    BY <1>4, RewritingKept DEF Counted
  <2> QED
    BY <1>0, <2>1, <2>2, <2>3 DEF IInv
<1>5. ASSUME Named PROVE IInv'
  <2>1. Counting'
    BY <1>5, CountingKept DEF Named
  <2>2. Naming' /\ KeysIdentify'
    BY <1>5, NamingKept DEF Named, Shared
  <2>3. /\ phase' = "inline" /\ Shared' = Shared /\ counts' = counts
        /\ \A c \in Components : written'[c] = (IF c \in Shared THEN 1 ELSE 0)
        /\ \A p \in Places : In(p)' = In(p) /\ To(p)' = To(p)
    BY <1>5 DEF Named, Entries, Shared, In, To
  <2>4. Out' = Shared \cup {Root}
    BY <2>3 DEF Out, Shared
  <2>5. todo' = {p \in Places : In(p) \in Shared \cup {Root}} /\ Handled' = {}
    BY <1>5, <2>3, <2>4 DEF Named, Entries, Handled
  <2>6. Rewriting' /\ WrittenOnce'
    BY <2>3, <2>4, <2>5, <1>0 DEF Rewriting, WrittenOnce, Shared, TypeOK, IInv
  <2> QED
    BY <1>0, <2>1, <2>2, <2>6 DEF IInv
<1>6. CASE UNCHANGED vars
  <2>1. Counting' /\ Naming' /\ KeysIdentify'
    BY <1>6, CountingKept, NamingKept DEF vars, Shared
  <2>2. \A p \in Places : In(p)' = In(p) /\ To(p)' = To(p)
    BY <1>6 DEF vars, In, To
  <2>3. Out' = Out /\ Handled' = Handled /\ Shared' = Shared
    BY <1>6, <2>2 DEF vars, Out, Handled, Shared
  <2>4. Rewriting' /\ WrittenOnce'
    BY <1>6, <2>2, <2>3 DEF vars, IInv, Rewriting, WrittenOnce, Handled, TypeOK
  <2> QED
    BY <1>0, <2>1, <2>4 DEF IInv
<1> QED
  BY <1>1, <1>2, <1>3, <1>4, <1>5, <1>6 DEF Next

\* The strengthened invariant, from which the rest follows.
THEOREM Inductive == Spec => []IInv
  BY InInit, InStep, PTL DEF Spec

-----------------------------------------------------------------------------
\* Once nothing is pending, what was met is closed under reference: it is the
\* least such set, which the reference definition calls reached.
LEMMA MetOnceCounted ==
    ASSUME IInv, phase # "count"
    PROVE  /\ Reached = {c \in Components : counts[c] > 0}
           /\ Walked = {p \in Places : In(p) \in Reached \cup {Root}}
<1> USE DEF IInv
<1> DEFINE Seen == {c \in Components : counts[c] > 0}
<1>1. Walked = {p \in Places : In(p) \in Met}
  BY DEF Counting, Walked
<1>2. \A p \in Places : To(p) \in Components
  BY DEF TypeOK, To
<1>3. Holds(Seen)
  BY <1>1, <1>2 DEF Holds, Met, Counting, WalkedIsCounted
<1>4. Seen \subseteq Reached
  BY SharedDefsAssumption DEF Reached, Counting, MetIsReached, Met
<1>5. Reached \subseteq Seen
  BY <1>3 DEF Reached
<1> QED
  BY <1>1, <1>4, <1>5 DEF Met

\* Counting is exact.
LEMMA ExactCounts == IInv => CountsAreExact
<1> SUFFICES ASSUME IInv, phase # "count", NEW c \in Components
             PROVE  /\ counts[c] > 0 <=> c \in Reached
                    /\ counts[c] > 1 <=> \E p, q \in Places :
                           /\ p # q /\ To(p) = c /\ To(q) = c
                           /\ {In(p), In(q)} \subseteq Reached \cup {Root}
  BY DEF CountsAreExact
<1>1. counts[c] > 0 <=> c \in Reached
  BY MetOnceCounted
<1>2. ASSUME counts[c] > 1
      PROVE  \E p, q \in Places : /\ p # q /\ To(p) = c /\ To(q) = c
                                  /\ {In(p), In(q)} \subseteq Reached \cup {Root}
  <2>1. PICK p \in Walked, q \in Walked : p # q /\ To(p) = c /\ To(q) = c
    BY <1>2 DEF IInv, Counting, CountedTwiceIsTwice
  <2> QED
    BY <2>1, MetOnceCounted
<1>3. ASSUME NEW p \in Places, NEW q \in Places, p # q, To(p) = c, To(q) = c,
             {In(p), In(q)} \subseteq Reached \cup {Root}
      PROVE  counts[c] > 1
  <2>1. p \in Walked /\ q \in Walked
    BY <1>3, MetOnceCounted
  <2> QED
    BY <1>3, <2>1 DEF IInv, Counting, TwiceIsCountedTwice
<1> QED
  BY <1>1, <1>2, <1>3

\* The finished schema is complete: what is written is closed under reference,
\* and nothing closed does without what was met.
LEMMA Complete == IInv => NothingMissing
<1> SUFFICES ASSUME IInv, Finished
             PROVE  /\ \A c \in Components : written[c] = 1 <=> counts[c] > 0
                    /\ \A p \in Places :
                           (In(p) = Root \/ written[In(p)] = 1) => written[To(p)] = 1
  BY DEF NothingMissing
<1> USE DEF IInv
<1> DEFINE S == {c \in Components : written[c] = 1}
<1>1. \A c \in Components : written[c] \in Nat /\ (written[c] > 0 <=> written[c] = 1)
  BY DEF TypeOK, WrittenOnce
<1>2. \A p \in Places : To(p) \in Components /\ In(p) \in Texts
  BY DEF TypeOK, To, In
<1>3. Out = S \cup {Root}
  BY <1>1 DEF Out
<1>4. \A p \in Places : In(p) \in S \cup {Root} => To(p) \in S
  BY <1>1, <1>2, <1>3 DEF Finished, Handled, Rewriting
<1>5. Met \subseteq S \cup {Root}
  BY <1>4 DEF Holds, Counting, MetIsReached
<1>6. \A c \in Components : counts[c] > 0 => c \in S
  BY <1>5, SharedDefsAssumption DEF Met
<1>7. \A c \in Components : written[c] = 1 => counts[c] > 0
  BY <1>1 DEF Finished, Rewriting
<1>8. ASSUME NEW p \in Places, In(p) = Root \/ written[In(p)] = 1 PROVE written[To(p)] = 1
  <2>1. In(p) \in S \cup {Root}
    BY <1>2, <1>8 DEF Texts
  <2> QED
    BY <2>1, <1>4
<1> QED
  BY <1>6, <1>7, <1>8

\* The schema's state keeps its type.
THEOREM TypeCorrect == Spec => []TypeOK
<1>1. IInv => TypeOK
  BY DEF IInv
<1> QED
  BY <1>1, Inductive, PTL

\* count_defs_references counts every component reached, as often as it is named.
THEOREM CountsAreAlwaysExact == Spec => []CountsAreExact
  BY Inductive, ExactCounts, PTL

\* _inline_single_use ends on recursive components: nothing is written twice.
THEOREM NothingIsWrittenTwice == Spec => []WrittenOnce
<1>1. IInv => WrittenOnce
  BY DEF IInv
<1> QED
  BY <1>1, Inductive, PTL

\* _with_shared_defs loses nothing that the schema refers to.
THEOREM NothingIsEverMissing == Spec => []NothingMissing
  BY Inductive, Complete, PTL

\* _defs_keys gives every entry a key of its own and keeps the short names.
THEOREM KeysAlwaysIdentify == Spec => []KeysIdentify
<1>1. IInv => KeysIdentify
  BY DEF IInv
<1> QED
  BY <1>1, Inductive, PTL
=============================================================================
