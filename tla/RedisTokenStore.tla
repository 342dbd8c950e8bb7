-------------------------- MODULE RedisTokenStore ---------------------------
(***************************************************************************)
(* The shared backend, stores/redis.py.  Entries live in a Redis server    *)
(* (external) that several gateway replicas use at once, and the server    *)
(* expires them by its own clock.  Each method is one command, hence one   *)
(* step; what a handler does between two commands is not atomic.           *)
(***************************************************************************)
EXTENDS Integers

CONSTANTS Keys, Values, TTLs, Times, Absent, Unlimited

ASSUME RedisAssumption ==
    /\ TTLs \subseteq Int /\ Times \subseteq Int
    /\ Absent \notin Values /\ Unlimited \notin Int

VARIABLES entries,  \* the server's keyspace: key -> [value, until]
          now,      \* the server's clock
          reply     \* the last read and its answer

vars == <<entries, now, reply>>

Entries == [value: Values, until: Int \cup {Unlimited}]

TypeOK ==
    /\ DOMAIN entries \subseteq Keys
    /\ \A k \in DOMAIN entries : entries[k] \in Entries
    /\ now \in Times
    /\ reply \in [key: Keys, value: Values \cup {Absent}]

Init ==
    /\ entries = [k \in {} |-> Absent]
    /\ now \in Times
    /\ \E k \in Keys : reply = [key |-> k, value |-> Absent]

Expired(k) ==
    /\ k \in DOMAIN entries
    /\ entries[k].until # Unlimited
    /\ now >= entries[k].until

Without(k) == [x \in DOMAIN entries \ {k} |-> entries[x]]
Put(k, v, t) ==
    [x \in DOMAIN entries \cup {k} |->
        IF x = k THEN [value |-> v, until |-> t] ELSE entries[x]]

\* GET: an entry past its deadline is dropped and answered with nil.
GetNil(k) ==
    /\ Expired(k) \/ k \notin DOMAIN entries
    /\ entries' = Without(k)
    /\ reply' = [key |-> k, value |-> Absent]
    /\ UNCHANGED now

\* (A definition marked "variant" is a slip of the one after it, kept to show
\* which property notices.)
GetEntry(k) ==      \* variant
    /\ k \in DOMAIN entries /\ ~Expired(k)
    /\ reply' = [key |-> k, value |-> entries[k]]
    /\ UNCHANGED <<entries, now>>

GetValue(k) ==
    /\ k \in DOMAIN entries /\ ~Expired(k)
    /\ reply' = [key |-> k, value |-> entries[k].value]
    /\ UNCHANGED <<entries, now>>

\* set() without ttl is SET, which lifts any deadline the key had.
SetKeepsTTL(k, v) ==      \* variant
    /\ entries' = Put(k, v, IF k \in DOMAIN entries THEN entries[k].until ELSE Unlimited)
    /\ UNCHANGED <<now, reply>>

SetForever(k, v) ==
    /\ entries' = Put(k, v, Unlimited)
    /\ UNCHANGED <<now, reply>>

\* set() with ttl is SETEX.  The server rejects a ttl below one second, set()
\* raises, and nothing is stored: a rejected command changes no state here.
SetWithTTL(k, v, ttl) ==
    /\ ttl >= 1
    /\ entries' = Put(k, v, now + ttl)
    /\ UNCHANGED <<now, reply>>

Delete(k) ==
    /\ entries' = Without(k)
    /\ UNCHANGED <<now, reply>>

\* The server's own sweep.
Expire(k) ==
    /\ Expired(k)
    /\ entries' = Without(k)
    /\ UNCHANGED <<now, reply>>

ClockMoves ==
    /\ now' \in Times
    /\ UNCHANGED <<entries, reply>>

Next ==
    \/ \E k \in Keys : GetNil(k) \/ GetValue(k) \/ Delete(k) \/ Expire(k)
    \/ \E k \in Keys, v \in Values :
          SetForever(k, v) \/ \E ttl \in TTLs : SetWithTTL(k, v, ttl)
    \/ ClockMoves

Spec == Init /\ [][Next]_vars

-----------------------------------------------------------------------------
Held(k) == IF k \in DOMAIN entries THEN entries[k].value ELSE Absent
Until(k) == IF k \in DOMAIN entries THEN entries[k].until ELSE Unlimited

\* The shared backend keeps the promises of the store interface, so a handler
\* reasons about either backend through the same contract.
Contract == INSTANCE TokenStore WITH
    held <- [k \in Keys |-> Held(k)], deadline <- [k \in Keys |-> Until(k)]
KeepsContract == Contract!Spec

=============================================================================
