----------------------------- MODULE TokenSource -----------------------------
(***************************************************************************)
(* auth/token_source.py: bearer tokens the gateway fetches for itself      *)
(* (ClientCredentialsTokenSource) or in exchange for its caller's token    *)
(* (TokenExchangeTokenSource).  Both keep what they fetched until shortly  *)
(* before its expiry and let one fetch at a time go out, behind an         *)
(* asyncio.Lock; the exchange keeps one token per subject token, the       *)
(* client credentials one token altogether, i.e. for a single subject.     *)
(*                                                                         *)
(* Callers are tasks of one event loop; a task runs until it awaits the    *)
(* lock or the issuer's answer.  Times count from one monotonic clock.     *)
(***************************************************************************)
EXTENDS Integers, Sequences, SequencesExt

CONSTANTS Subjects,     \* subject tokens, or the one service identity
          Callers,      \* tasks that want a token
          MaxTokens,    \* bound on the tokens the issuer hands out
          Skew,         \* refresh_skew_seconds
          DefaultLife,  \* DEFAULT_TOKEN_LIFETIME_SECONDS
          Lifetimes,    \* how long the issuer's tokens are good for
          MaxDelay,     \* how long an answer may be under way (httpx's timeouts)
          MaxTime,      \* bound on the clock
          ClearsOnClose, \* does aclose() drop the cache?
          None

ASSUME TokenSourceAssumption ==
    /\ Skew \in Nat /\ DefaultLife \in Nat /\ MaxTime \in Nat /\ MaxTokens \in Nat
    /\ Lifetimes \subseteq Nat
    /\ MaxDelay \in Nat /\ MaxDelay <= Skew
    /\ ClearsOnClose \in BOOLEAN
    /\ None \notin Subjects \cup Callers /\ None \notin Nat

VARIABLES
    now,        \* time.monotonic()
    cache,      \* _cache, or _access_token and _expires_at_monotonic
    lock,       \* who holds _lock
    queue,      \* who waits for it, first come first served
    pc, subject, got,   \* the callers' progress, argument and result
    transit,    \* the answer to a caller's request, while under way
    issued,     \* the issuer's record of its tokens
    closed      \* aclose() has run

callers == <<pc, subject, got>>
vars == <<now, cache, lock, queue, callers, transit, issued, closed>>

Tokens == 1..MaxTokens
CacheEntry == [token: Tokens, until: Nat]
TokenRecord == [subject: Subjects, at: Nat, until: Nat, told: BOOLEAN, expires_in: Nat]

ASSUME NoneIsNoRecord == None \notin CacheEntry \cup TokenRecord

TypeOK ==
    /\ now \in Nat
    /\ cache \in [Subjects -> CacheEntry \cup {None}]
    /\ lock \in Callers \cup {None}
    /\ queue \in Seq(Callers)
    /\ pc \in [Callers -> {"idle", "waiting", "fetching", "holding"}]
    /\ subject \in [Callers -> Subjects \cup {None}]
    /\ got \in [Callers -> Tokens \cup {None}]
    /\ transit \in [Callers -> Tokens \cup {None}]
    /\ issued \in [Tokens -> TokenRecord \cup {None}]
    /\ closed \in BOOLEAN

Init ==
    /\ now = 0
    /\ cache = [s \in Subjects |-> None]
    /\ lock = None /\ queue = <<>>
    /\ pc = [c \in Callers |-> "idle"]
    /\ subject = [c \in Callers |-> None]
    /\ got = [c \in Callers |-> None]
    /\ transit = [c \in Callers |-> None]
    /\ issued = [t \in Tokens |-> None]
    /\ closed = FALSE

-----------------------------------------------------------------------------
\* _is_token_valid and _cached: the skew is kept from the declared lifetime.
\* (A definition marked "variant" is a slip of the one after it, kept to show
\* which property notices.)
FreshUntilExpiry(s) == cache[s] # None /\ now < cache[s].until      \* variant
Fresh(s) == cache[s] # None /\ now < cache[s].until - Skew

Return(c, t) ==
    /\ pc' = [pc EXCEPT ![c] = "holding"]
    /\ got' = [got EXCEPT ![c] = t]

GiveUp(c) ==
    /\ pc' = [pc EXCEPT ![c] = "idle"]
    /\ subject' = [subject EXCEPT ![c] = None]

\* get_token and exchange, up to the first await: a fresh token is returned
\* without taking the lock.
AskHit(c, s) ==
    /\ pc[c] = "idle" /\ ~closed
    /\ Fresh(s)
    /\ Return(c, cache[s].token)
    /\ subject' = [subject EXCEPT ![c] = s]
    /\ UNCHANGED <<now, cache, lock, queue, transit, issued, closed>>

\* The lock is free and nobody waits for it: the request goes out at once.
AskFetch(c, s) ==
    /\ pc[c] = "idle" /\ ~closed
    /\ ~Fresh(s)
    /\ lock = None /\ queue = <<>>
    /\ lock' = c
    /\ pc' = [pc EXCEPT ![c] = "fetching"]
    /\ subject' = [subject EXCEPT ![c] = s]
    /\ UNCHANGED <<now, cache, queue, got, transit, issued, closed>>

AskWait(c, s) ==
    /\ pc[c] = "idle" /\ ~closed
    /\ ~Fresh(s)
    /\ lock # None \/ queue # <<>>
    /\ queue' = Append(queue, c)
    /\ pc' = [pc EXCEPT ![c] = "waiting"]
    /\ subject' = [subject EXCEPT ![c] = s]
    /\ UNCHANGED <<now, cache, lock, got, transit, issued, closed>>

\* The released lock wakes the first waiter, which looks at the cache again.
WakeFetchAnyway(c) ==      \* variant
    /\ pc[c] = "waiting" /\ lock = None
    /\ queue # <<>> /\ c = Head(queue)
    /\ queue' = Tail(queue)
    /\ lock' = c
    /\ pc' = [pc EXCEPT ![c] = "fetching"]
    /\ UNCHANGED <<now, cache, subject, got, transit, issued, closed>>

Wake(c) ==
    /\ pc[c] = "waiting" /\ lock = None
    /\ queue # <<>> /\ c = Head(queue)
    /\ queue' = Tail(queue)
    /\ \/ /\ Fresh(subject[c])
          /\ Return(c, cache[subject[c]].token)
          /\ UNCHANGED lock
       \/ /\ ~Fresh(subject[c])
          /\ lock' = c
          /\ pc' = [pc EXCEPT ![c] = "fetching"]
          /\ UNCHANGED got
    /\ UNCHANGED <<now, cache, subject, transit, issued, closed>>

-----------------------------------------------------------------------------
\* _fetch_token and _request_exchange.  The issuer makes a token for the
\* request's subject; it may leave out how long the token lasts.
Issue(c, t, life, told) ==
    /\ pc[c] = "fetching" /\ transit[c] = None
    /\ issued[t] = None /\ \A o \in 1..(t - 1) : issued[o] # None
    /\ issued' = [issued EXCEPT ![t] =
          [subject |-> subject[c], at |-> now, until |-> now + life, told |-> told,
           expires_in |-> IF told THEN life ELSE DefaultLife]]
    /\ transit' = [transit EXCEPT ![c] = t]
    /\ UNCHANGED <<now, cache, lock, queue, callers, closed>>

\* Where the answer is kept: under the subject of the request.
KeepForAll(c, t) ==      \* variant
    cache' = [s \in Subjects |-> [token |-> t, until |-> now + issued[t].expires_in]]
KeepLessSkew(c, t) ==      \* variant
    cache' = [cache EXCEPT ![subject[c]] =
                 [token |-> t, until |-> now + issued[t].expires_in - Skew]]
Keep(c, t) ==
    cache' = [cache EXCEPT ![subject[c]] =
                 [token |-> t, until |-> now + issued[t].expires_in]]

Arrive(c) ==
    /\ pc[c] = "fetching" /\ transit[c] # None
    /\ now <= issued[transit[c]].at + MaxDelay
    /\ Keep(c, transit[c])
    /\ Return(c, transit[c])
    /\ lock' = None
    /\ transit' = [transit EXCEPT ![c] = None]
    /\ UNCHANGED <<now, queue, subject, issued, closed>>

\* The issuer refuses, answers without a token, or the request times out.  The
\* error goes to this caller alone.
FailHoldingLock(c) ==      \* variant
    /\ pc[c] = "fetching"
    /\ GiveUp(c)
    /\ transit' = [transit EXCEPT ![c] = None]
    /\ UNCHANGED <<now, cache, lock, queue, got, issued, closed>>

Fail(c) ==
    /\ pc[c] = "fetching"
    /\ GiveUp(c)
    /\ lock' = None
    /\ transit' = [transit EXCEPT ![c] = None]
    /\ UNCHANGED <<now, cache, queue, got, issued, closed>>

\* The task is cancelled while it awaits: its MCP client went away.
CancelWait(c) ==
    /\ pc[c] = "waiting"
    /\ GiveUp(c)
    /\ \E i \in DOMAIN queue : queue[i] = c /\ queue' = RemoveAt(queue, i)
    /\ UNCHANGED <<now, cache, lock, got, transit, issued, closed>>

\* The resolver has put the token into its header.
Use(c) ==
    /\ pc[c] = "holding"
    /\ GiveUp(c)
    /\ got' = [got EXCEPT ![c] = None]
    /\ UNCHANGED <<now, cache, lock, queue, transit, issued, closed>>

\* aclose(), a shutdown hook: it runs when no caller is left.
Close ==
    /\ ~closed
    /\ \A c \in Callers : pc[c] = "idle"
    /\ closed' = TRUE
    /\ cache' = IF ClearsOnClose THEN [s \in Subjects |-> None] ELSE cache
    /\ UNCHANGED <<now, lock, queue, callers, transit, issued>>

Tick ==
    /\ now < MaxTime
    /\ now' = now + 1
    /\ UNCHANGED <<cache, lock, queue, callers, transit, issued, closed>>

Ask(c) == \E s \in Subjects : AskHit(c, s) \/ AskFetch(c, s) \/ AskWait(c, s)
Answer(c) == Arrive(c) \/ Fail(c)

Next ==
    \/ \E c \in Callers :
          \/ Ask(c) \/ Wake(c) \/ Answer(c) \/ CancelWait(c) \/ Use(c)
          \/ \E t \in Tokens, life \in Lifetimes, told \in BOOLEAN : Issue(c, t, life, told)
    \/ Close
    \/ Tick

\* The event loop runs every task that is ready, and httpx's timeouts end
\* every request.
Fairness == \A c \in Callers : WF_vars(Wake(c)) /\ WF_vars(Answer(c))

Spec == Init /\ [][Next]_vars
FairSpec == Spec /\ Fairness

-----------------------------------------------------------------------------
\* A caller is handed a token that its issuer still accepts, although the
\* source counts the lifetime from the arrival of the answer, the token waits
\* in a cache, and the caller may have queued while others fetched.  Not
\* covered: a token too short-lived to survive its own delivery, and one whose
\* issuer did not tell its lifetime, for which the source assumes an hour.
ReturnedTokensAreLive ==
    [][\A c \in Callers : pc[c] # "holding" /\ pc'[c] = "holding" =>
          LET t == issued[got'[c]] IN
          now < t.until \/ t.until <= t.at + MaxDelay \/ ~t.told]_vars

\* A caller is never handed, and the cache never offers, a token that stands
\* for somebody else, whoever fetched it and whoever was queueing.
TokensStayWithTheirSubject ==
    /\ \A s \in Subjects : cache[s] # None => issued[cache[s].token].subject = s
    /\ \A c \in Callers : pc[c] = "holding" => issued[got[c]].subject = subject[c]

\* A request goes out only if there is no fresh token for its subject at that
\* moment: callers that queued before it arrived use it, too.
CallersShareFetches ==
    [][\A c \in Callers : pc[c] # "fetching" /\ pc'[c] = "fetching" =>
          ~Fresh(subject'[c])]_vars

\* Failures, timeouts and cancellations of others never leave a caller behind
\* on the lock: whoever asks gets a token or an error.
EveryCallerAnswered ==
    \A c \in Callers :
       pc[c] \in {"waiting", "fetching"} ~> pc[c] \in {"idle", "holding"}

=============================================================================
