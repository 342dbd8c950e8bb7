-------------------------- MODULE MemoryTokenStore --------------------------
(***************************************************************************)
(* The in-process backend, stores/memory.py: one dict of values and one of *)
(* deadlines.  Nothing sweeps expired entries; a read that finds one past  *)
(* its deadline deletes it from both dicts.  No method suspends, so each   *)
(* runs as one step of the event loop.                                     *)
(***************************************************************************)
EXTENDS Integers

CONSTANTS Keys, Values, TTLs, Times, Absent, Unlimited

ASSUME MemoryAssumption ==
    /\ TTLs \subseteq Int /\ Times \subseteq Int
    /\ Absent \notin Values /\ Unlimited \notin Int

VARIABLES data,     \* _data
          expiry,   \* _expiry
          now,      \* time.time()
          reply     \* the last read and its answer

vars == <<data, expiry, now, reply>>

Without(f, k) == [x \in DOMAIN f \ {k} |-> f[x]]
With(f, k, v) == [x \in DOMAIN f \cup {k} |-> IF x = k THEN v ELSE f[x]]
Lookup(f, k, default) == IF k \in DOMAIN f THEN f[k] ELSE default

TypeOK ==
    /\ DOMAIN data \subseteq Keys /\ \A k \in DOMAIN data : data[k] \in Values
    /\ DOMAIN expiry \subseteq Keys /\ \A k \in DOMAIN expiry : expiry[k] \in Int
    /\ data = [k \in DOMAIN data |-> data[k]]
    /\ expiry = [k \in DOMAIN expiry |-> expiry[k]]
    /\ now \in Times
    /\ reply \in [key: Keys, value: Values \cup {Absent}]

Init ==
    /\ data = [k \in {} |-> Absent]
    /\ expiry = [k \in {} |-> 0]
    /\ now \in Times
    /\ \E k \in Keys : reply = [key |-> k, value |-> Absent]

PastDeadline(k) == k \in DOMAIN expiry /\ now > expiry[k]

GetExpired(k) ==
    /\ PastDeadline(k)
    /\ data' = Without(data, k)
    /\ expiry' = Without(expiry, k)
    /\ reply' = [key |-> k, value |-> Absent]
    /\ UNCHANGED now

GetCurrent(k) ==
    /\ ~PastDeadline(k)
    /\ reply' = [key |-> k, value |-> Lookup(data, k, Absent)]
    /\ UNCHANGED <<data, expiry, now>>

SetWithTTL(k, v, ttl) ==
    /\ data' = With(data, k, v)
    /\ expiry' = With(expiry, k, now + ttl)
    /\ UNCHANGED <<now, reply>>

\* (A definition marked "variant" is a slip of the one after it, kept to show
\* which property notices.)
SetForeverEndless(k, v) ==      \* variant
    /\ data' = With(data, k, v)
    /\ expiry' = With(expiry, k, Unlimited)
    /\ UNCHANGED <<now, reply>>

SetForeverKeepsDeadline(k, v) ==      \* variant
    /\ data' = With(data, k, v)
    /\ UNCHANGED <<expiry, now, reply>>

SetForever(k, v) ==
    /\ data' = With(data, k, v)
    /\ expiry' = Without(expiry, k)
    /\ UNCHANGED <<now, reply>>

DeleteData(k) ==      \* variant
    /\ data' = Without(data, k)
    /\ UNCHANGED <<expiry, now, reply>>

Delete(k) ==
    /\ data' = Without(data, k)
    /\ expiry' = Without(expiry, k)
    /\ UNCHANGED <<now, reply>>

Close ==
    /\ data' = [k \in {} |-> Absent]
    /\ expiry' = [k \in {} |-> 0]
    /\ UNCHANGED <<now, reply>>

ClockMoves ==
    /\ now' \in Times
    /\ UNCHANGED <<data, expiry, reply>>

Next ==
    \/ \E k \in Keys : GetExpired(k) \/ GetCurrent(k) \/ Delete(k)
    \/ \E k \in Keys, v \in Values :
          SetForever(k, v) \/ \E ttl \in TTLs : SetWithTTL(k, v, ttl)
    \/ Close
    \/ ClockMoves

Spec == Init /\ [][Next]_vars

-----------------------------------------------------------------------------
\* Every deadline belongs to an entry that is still in _data, so the pair of
\* del statements in get() never raises KeyError: the two dicts are updated
\* together by get, set, delete and close.
DeadlinesHaveData == DOMAIN expiry \subseteq DOMAIN data

\* The backend keeps the promises of the store interface: TTLs are honoured on
\* both sides of the deadline, rewriting a key without ttl lifts its deadline,
\* and an entry once reported gone is not seen again even if the clock is set
\* back.
Contract == INSTANCE TokenStore WITH
    held <- [k \in Keys |-> Lookup(data, k, Absent)],
    deadline <- [k \in Keys |-> Lookup(expiry, k, Unlimited)]
KeepsContract == Contract!Spec

=============================================================================
