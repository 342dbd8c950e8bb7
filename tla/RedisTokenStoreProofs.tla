------------------------ MODULE RedisTokenStoreProofs ------------------------
EXTENDS RedisTokenStore, TLAPS

\* The keyspace is typed at the start.
LEMMA TypeInit == Init => TypeOK
BY DEF Init, TypeOK

\* Every command, lapse and tick keeps it typed.
LEMMA TypeStep == TypeOK /\ [Next]_vars => TypeOK'
<1>. SUFFICES ASSUME TypeOK, [Next]_vars PROVE TypeOK'
  OBVIOUS
<1>. USE RedisAssumption DEF TypeOK, Entries
<1>1. ASSUME NEW k \in Keys, GetNil(k) \/ GetValue(k) \/ Delete(k) \/ Expire(k)
      PROVE  TypeOK'
  BY <1>1 DEF GetNil, GetValue, Delete, Expire, Without
<1>2. ASSUME NEW k \in Keys, NEW v \in Values, SetForever(k, v) PROVE TypeOK'
  BY <1>2 DEF SetForever, Put
<1>3. ASSUME NEW k \in Keys, NEW v \in Values, NEW ttl \in TTLs, SetWithTTL(k, v, ttl)
      PROVE  TypeOK'
  BY <1>3 DEF SetWithTTL, Put
<1>4. CASE ClockMoves \/ UNCHANGED vars
  BY <1>4 DEF ClockMoves, vars
<1>5. QED
  BY <1>1, <1>2, <1>3, <1>4 DEF Next

-----------------------------------------------------------------------------
\* How the keyspace and its contract's view change together.
HeldView == [k \in Keys |-> Held(k)]
UntilView == [k \in Keys |-> Until(k)]

\* A dropped entry is absent and has no deadline.
LEMMA Dropped ==
    ASSUME NEW k \in Keys, entries' = Without(k)
    PROVE  /\ HeldView' = [HeldView EXCEPT ![k] = Absent]
           /\ UntilView' = [UntilView EXCEPT ![k] = Unlimited]
<1>1. \A x \in Keys : Held(x)' = IF x = k THEN Absent ELSE Held(x)
  BY DEF Held, Without
<1>2. \A x \in Keys : Until(x)' = IF x = k THEN Unlimited ELSE Until(x)
  BY DEF Until, Without
<1>3. QED
  BY <1>1, <1>2 DEF HeldView, UntilView

\* A stored one has its value and its deadline.
LEMMA Stored ==
    ASSUME NEW k \in Keys, NEW v, NEW t, entries' = Put(k, v, t)
    PROVE  /\ HeldView' = [HeldView EXCEPT ![k] = v]
           /\ UntilView' = [UntilView EXCEPT ![k] = t]
<1>1. \A x \in Keys : Held(x)' = IF x = k THEN v ELSE Held(x)
  BY DEF Held, Put
<1>2. \A x \in Keys : Until(x)' = IF x = k THEN t ELSE Until(x)
  BY DEF Until, Put
<1>3. QED
  BY <1>1, <1>2 DEF HeldView, UntilView

\* The server expires an entry only at or after its deadline.
LEMMA Reached ==
    ASSUME TypeOK, NEW k \in Keys, Expired(k)
    PROVE  Contract!DeadlineReached(k)
BY DEF Expired, Contract!DeadlineReached, Until

\* The empty keyspace is the empty store.
LEMMA ImplementsInit == Init => Contract!Init
BY DEF Init, Contract!Init, Held, Until

\* Every command of Redis's is an operation of the store, or none.
LEMMA ImplementsNext == TypeOK /\ [Next]_vars => [Contract!Next]_(Contract!vars)
<1>. SUFFICES ASSUME TypeOK, [Next]_vars PROVE Contract!Next \/ UNCHANGED Contract!vars
  BY DEF Contract!vars
<1>. USE DEF HeldView, UntilView
<1>1. ASSUME NEW k \in Keys, GetNil(k) PROVE Contract!GetLapsed(k) \/ Contract!Get(k)
  <2>1. CASE Expired(k)
    BY <1>1, <2>1, Dropped, Reached DEF GetNil, Contract!GetLapsed
  <2>2. CASE k \notin DOMAIN entries
    <3>1. Held(k) = Absent /\ Until(k) = Unlimited
      BY <2>2 DEF Held, Until
    <3>2. HeldView' = HeldView /\ UntilView' = UntilView
      BY <1>1, <3>1, Dropped DEF GetNil
    <3>3. QED
      BY <1>1, <3>1, <3>2 DEF GetNil, Contract!Get, Contract!DeadlinePassed
  <2>3. QED
    BY <1>1, <2>1, <2>2 DEF GetNil
<1>2. ASSUME NEW k \in Keys, GetValue(k) PROVE Contract!Get(k)
  <2>1. HeldView' = HeldView /\ UntilView' = UntilView
    BY <1>2 DEF GetValue, Held, Until
  <2>2. ~Contract!DeadlinePassed(k) /\ Held(k) = entries[k].value
    BY <1>2, RedisAssumption DEF GetValue, Expired, Contract!DeadlinePassed, Held, Until, TypeOK,
       Entries
  <2>3. QED
    BY <1>2, <2>1, <2>2 DEF GetValue, Contract!Get
<1>3. ASSUME NEW k \in Keys, Delete(k) PROVE Contract!Delete(k)
  BY <1>3, Dropped DEF Delete, Contract!Delete
<1>4. ASSUME NEW k \in Keys, Expire(k) PROVE Contract!Lapse(k)
  BY <1>4, Dropped, Reached DEF Expire, Contract!Lapse
<1>5. ASSUME NEW k \in Keys, NEW v \in Values, SetForever(k, v) PROVE Contract!SetForever(k, v)
  BY <1>5, Stored DEF SetForever, Contract!SetForever, Contract!Set
<1>6. ASSUME NEW k \in Keys, NEW v \in Values, NEW ttl \in TTLs, SetWithTTL(k, v, ttl)
      PROVE  Contract!SetWithTTL(k, v, ttl)
  BY <1>6, Stored DEF SetWithTTL, Contract!SetWithTTL, Contract!Set
<1>7. CASE ClockMoves
  <2>1. HeldView' = HeldView /\ UntilView' = UntilView
    BY <1>7 DEF ClockMoves, Held, Until
  <2>2. QED
    BY <1>7, <2>1 DEF ClockMoves, Contract!Next, Contract!ClockMoves
<1>8. CASE UNCHANGED vars
  BY <1>8 DEF vars, Contract!vars, Held, Until
<1>9. QED
  BY <1>1, <1>2, <1>3, <1>4, <1>5, <1>6, <1>7, <1>8 DEF Next, Contract!Next

-----------------------------------------------------------------------------
\* Redis's keyspace keeps its type, whatever the commands and the clock do.
THEOREM TypeCorrect == Spec => []TypeOK
<1>1. QED
  BY TypeInit, TypeStep, PTL DEF Spec

\* The shared backend is a store in the sense of stores/base.py, however many
\* replicas send it commands.
THEOREM RedisKeepsContract == Spec => KeepsContract
<1>1. QED
  BY TypeInit, TypeStep, ImplementsInit, ImplementsNext, PTL
  DEF Spec, KeepsContract, Contract!Spec

=============================================================================
