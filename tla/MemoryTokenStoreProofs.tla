----------------------- MODULE MemoryTokenStoreProofs -----------------------
EXTENDS MemoryTokenStore, TLAPS

Inv == TypeOK /\ DeadlinesHaveData

\* Both dicts are empty at the start.
LEMMA InvInit == Init => Inv
BY DEF Init, Inv, TypeOK, DeadlinesHaveData

\* Every operation leaves the two dicts typed and consistent.
LEMMA InvStep == Inv /\ [Next]_vars => Inv'
<1>. SUFFICES ASSUME Inv, [Next]_vars PROVE Inv'
  OBVIOUS
<1>. USE MemoryAssumption DEF Inv, TypeOK, DeadlinesHaveData
<1>1. ASSUME NEW k \in Keys, GetExpired(k) PROVE Inv'
  BY <1>1 DEF GetExpired, Without
<1>2. ASSUME NEW k \in Keys, GetCurrent(k) PROVE Inv'
  BY <1>2 DEF GetCurrent, Lookup
<1>3. ASSUME NEW k \in Keys, Delete(k) PROVE Inv'
  BY <1>3 DEF Delete, Without
<1>4. ASSUME NEW k \in Keys, NEW v \in Values, SetForever(k, v) PROVE Inv'
  BY <1>4 DEF SetForever, With, Without
<1>5. ASSUME NEW k \in Keys, NEW v \in Values, NEW ttl \in TTLs, SetWithTTL(k, v, ttl)
      PROVE  Inv'
  BY <1>5 DEF SetWithTTL, With
<1>6. CASE Close
  BY <1>6 DEF Close
<1>7. CASE ClockMoves
  BY <1>7 DEF ClockMoves
<1>8. CASE UNCHANGED vars
  BY <1>8 DEF vars
<1>9. QED
  BY <1>1, <1>2, <1>3, <1>4, <1>5, <1>6, <1>7, <1>8 DEF Next

-----------------------------------------------------------------------------
\* How the two dicts and their contract's view change together.
LEMMA LookupWith ==
    ASSUME NEW f, NEW k, NEW v, NEW d, NEW x
    PROVE  Lookup(With(f, k, v), x, d) = IF x = k THEN v ELSE Lookup(f, x, d)
BY DEF Lookup, With

\* ... and after a del.
LEMMA LookupWithout ==
    ASSUME NEW f, NEW k, NEW d, NEW x
    PROVE  Lookup(Without(f, k), x, d) = IF x = k THEN d ELSE Lookup(f, x, d)
BY DEF Lookup, Without

Held == [k \in Keys |-> Lookup(data, k, Absent)]
Deadline == [k \in Keys |-> Lookup(expiry, k, Unlimited)]

\* A lookup changed at one key is the contract's held changed there,
LEMMA HeldAfter ==
    ASSUME NEW k \in Keys, NEW v,
           \A x \in Keys : Lookup(data', x, Absent) = IF x = k THEN v ELSE Lookup(data, x, Absent)
    PROVE  Held' = [Held EXCEPT ![k] = v]
BY DEF Held

\* and likewise for its deadline.
LEMMA DeadlineAfter ==
    ASSUME NEW k \in Keys, NEW d,
           \A x \in Keys : Lookup(expiry', x, Unlimited) =
                             IF x = k THEN d ELSE Lookup(expiry, x, Unlimited)
    PROVE  Deadline' = [Deadline EXCEPT ![k] = d]
BY DEF Deadline

\* Deleting from both dicts is dropping the entry.
LEMMA DropsBoth ==
    ASSUME NEW k \in Keys, data' = Without(data, k), expiry' = Without(expiry, k)
    PROVE  /\ Held' = [Held EXCEPT ![k] = Absent]
           /\ Deadline' = [Deadline EXCEPT ![k] = Unlimited]
<1>1. \A x \in Keys : Lookup(data', x, Absent) =
                        IF x = k THEN Absent ELSE Lookup(data, x, Absent)
  BY LookupWithout
<1>2. \A x \in Keys : Lookup(expiry', x, Unlimited) =
                        IF x = k THEN Unlimited ELSE Lookup(expiry, x, Unlimited)
  BY LookupWithout
<1>3. QED
  BY <1>1, <1>2, HeldAfter, DeadlineAfter

\* The empty dicts are the empty store.
LEMMA ImplementsInit == Init => Contract!Init
BY DEF Init, Contract!Init, Lookup

\* Every operation of the dicts is one of the store, or none.
LEMMA ImplementsNext == Inv /\ [Next]_vars => [Contract!Next]_(Contract!vars)
<1>. SUFFICES ASSUME Inv, [Next]_vars PROVE Contract!Next \/ UNCHANGED Contract!vars
  BY DEF Contract!vars
<1>1. ASSUME NEW k \in Keys, GetExpired(k) PROVE Contract!GetLapsed(k)
  <2>1. Deadline[k] = expiry[k] /\ expiry[k] \in Int /\ now \in Int /\ now > expiry[k]
    BY <1>1, MemoryAssumption DEF GetExpired, PastDeadline, Deadline, Lookup, Inv, TypeOK
  <2>2. Contract!DeadlineReached(k)
    BY <2>1, MemoryAssumption DEF Contract!DeadlineReached, Deadline
  <2>3. QED
    BY <1>1, <2>2, DropsBoth DEF GetExpired, Contract!GetLapsed, Held, Deadline
<1>2. ASSUME NEW k \in Keys, GetCurrent(k) PROVE Contract!Get(k)
  BY <1>2 DEF GetCurrent, PastDeadline, Lookup, Contract!Get, Contract!DeadlinePassed
<1>3. ASSUME NEW k \in Keys, Delete(k) PROVE Contract!Delete(k)
  BY <1>3, DropsBoth DEF Delete, Contract!Delete, Held, Deadline
<1>4. ASSUME NEW k \in Keys, NEW v \in Values, SetForever(k, v) PROVE Contract!SetForever(k, v)
  <2>1. \A x \in Keys : Lookup(data', x, Absent) = IF x = k THEN v ELSE Lookup(data, x, Absent)
    BY <1>4, LookupWith DEF SetForever
  <2>2. \A x \in Keys : Lookup(expiry', x, Unlimited) =
                          IF x = k THEN Unlimited ELSE Lookup(expiry, x, Unlimited)
    BY <1>4, LookupWithout DEF SetForever
  <2>3. QED
    BY <1>4, <2>1, <2>2, HeldAfter, DeadlineAfter
    DEF SetForever, Contract!SetForever, Contract!Set, Held, Deadline
<1>5. ASSUME NEW k \in Keys, NEW v \in Values, NEW ttl \in TTLs, SetWithTTL(k, v, ttl)
      PROVE  Contract!SetWithTTL(k, v, ttl)
  <2>1. \A x \in Keys : Lookup(data', x, Absent) = IF x = k THEN v ELSE Lookup(data, x, Absent)
    BY <1>5, LookupWith DEF SetWithTTL
  <2>2. \A x \in Keys : Lookup(expiry', x, Unlimited) =
                          IF x = k THEN now + ttl ELSE Lookup(expiry, x, Unlimited)
    BY <1>5, LookupWith DEF SetWithTTL
  <2>3. QED
    BY <1>5, <2>1, <2>2, HeldAfter, DeadlineAfter
    DEF SetWithTTL, Contract!SetWithTTL, Contract!Set, Held, Deadline
<1>6. CASE Close
  <2>1. \A k \in Keys : Lookup(data', k, Absent) = Absent /\ Lookup(expiry', k, Unlimited) = Unlimited
    BY <1>6 DEF Close, Lookup
  <2>2. Held' = [k \in Keys |-> Absent] /\ Deadline' = [k \in Keys |-> Unlimited]
    BY <2>1 DEF Held, Deadline
  <2>3. QED
    BY <1>6, <2>2 DEF Contract!Next, Close, Contract!Close, Held, Deadline
<1>7. CASE ClockMoves
  <2>1. Held' = Held /\ Deadline' = Deadline
    BY <1>7 DEF ClockMoves, Held, Deadline
  <2>2. QED
    BY <1>7, <2>1 DEF Contract!Next, ClockMoves, Contract!ClockMoves, Held, Deadline
<1>8. CASE UNCHANGED vars
  BY <1>8 DEF vars, Contract!vars
<1>9. QED
  BY <1>1, <1>2, <1>3, <1>4, <1>5, <1>6, <1>7, <1>8 DEF Next, Contract!Next

-----------------------------------------------------------------------------
\* The two dicts keep their types: keys with values, keys with deadlines.
THEOREM TypeCorrect == Spec => []TypeOK
<1>1. Inv => TypeOK
  BY DEF Inv
<1>2. QED
  BY <1>1, InvInit, InvStep, PTL DEF Spec

\* get() deletes from both dicts without asking whether the key is in both: it
\* always is.
THEOREM DeadlinesAlwaysHaveData == Spec => []DeadlinesHaveData
<1>1. Inv => DeadlinesHaveData
  BY DEF Inv
<1>2. QED
  BY <1>1, InvInit, InvStep, PTL DEF Spec

\* The in-process backend is a store in the sense of stores/base.py.
THEOREM MemoryKeepsContract == Spec => KeepsContract
<1>1. QED
  BY InvInit, InvStep, ImplementsInit, ImplementsNext, PTL DEF Spec, KeepsContract, Contract!Spec

=============================================================================
