----------------------------- MODULE TokenStore -----------------------------
(***************************************************************************)
(* What stores/base.py promises its callers: a key-value store whose       *)
(* entries may carry a time-to-live.  A read answers with the last value   *)
(* written; an entry with a deadline answers until the deadline is reached *)
(* and is gone once it has passed; and an entry a reader was told is gone  *)
(* stays gone until somebody writes it again, whatever the wall clock      *)
(* does in between.  Backends differ on the instant of the deadline        *)
(* itself, so the contract allows either answer there.                     *)
(***************************************************************************)
EXTENDS Integers

CONSTANTS Keys,       \* namespaced keys
          Values,     \* JSON values
          TTLs,       \* time-to-live arguments callers pass
          Times,      \* instants the wall clock shows
          Absent,     \* the answer None
          Unlimited   \* the deadline of an entry written without ttl

VARIABLES held,       \* what each key holds
          deadline,   \* when each held key lapses
          now,        \* the wall clock
          reply       \* the last read and its answer

vars == <<held, deadline, now, reply>>

Deadlines == Int \cup {Unlimited}
Replies == [key: Keys, value: Values \cup {Absent}]

TypeOK ==
    /\ held \in [Keys -> Values \cup {Absent}]
    /\ deadline \in [Keys -> Deadlines]
    /\ now \in Times
    /\ reply \in Replies

Init ==
    /\ held = [k \in Keys |-> Absent]
    /\ deadline = [k \in Keys |-> Unlimited]
    /\ now \in Times
    /\ \E k \in Keys : reply = [key |-> k, value |-> Absent]

DeadlineReached(k) == deadline[k] # Unlimited /\ now >= deadline[k]
DeadlinePassed(k) == deadline[k] # Unlimited /\ now > deadline[k]

Set(k, v, d) ==
    /\ held' = [held EXCEPT ![k] = v]
    /\ deadline' = [deadline EXCEPT ![k] = d]
    /\ UNCHANGED <<now, reply>>

SetForever(k, v) == Set(k, v, Unlimited)
SetWithTTL(k, v, ttl) == Set(k, v, now + ttl)

Delete(k) ==
    /\ held' = [held EXCEPT ![k] = Absent]
    /\ deadline' = [deadline EXCEPT ![k] = Unlimited]
    /\ UNCHANGED <<now, reply>>

Get(k) ==
    /\ ~DeadlinePassed(k)
    /\ reply' = [key |-> k, value |-> held[k]]
    /\ UNCHANGED <<held, deadline, now>>

\* The store may drop an entry on its own once the deadline is reached ...
Lapse(k) ==
    /\ DeadlineReached(k)
    /\ held' = [held EXCEPT ![k] = Absent]
    /\ deadline' = [deadline EXCEPT ![k] = Unlimited]
    /\ UNCHANGED <<now, reply>>

\* ... or while answering the read that finds it lapsed.
GetLapsed(k) ==
    /\ DeadlineReached(k)
    /\ held' = [held EXCEPT ![k] = Absent]
    /\ deadline' = [deadline EXCEPT ![k] = Unlimited]
    /\ reply' = [key |-> k, value |-> Absent]
    /\ UNCHANGED now

\* Everything is forgotten when the backend closes or restarts empty.
Close ==
    /\ held' = [k \in Keys |-> Absent]
    /\ deadline' = [k \in Keys |-> Unlimited]
    /\ UNCHANGED <<now, reply>>

\* time.time() is a wall clock: it advances, and an adjustment may set it back.
ClockMoves ==
    /\ now' \in Times
    /\ UNCHANGED <<held, deadline, reply>>

Next ==
    \/ \E k \in Keys, v \in Values :
          SetForever(k, v) \/ \E ttl \in TTLs : SetWithTTL(k, v, ttl)
    \/ \E k \in Keys : Delete(k) \/ Get(k) \/ Lapse(k) \/ GetLapsed(k)
    \/ Close
    \/ ClockMoves

Spec == Init /\ [][Next]_vars

=============================================================================
