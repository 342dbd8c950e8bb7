-------------------------- MODULE TokenSourceProofs --------------------------
EXTENDS TokenSource, TLAPS, SequenceTheorems

\* The types the argument needs; the order of the waiters plays no part in it.
Types ==
    /\ now \in Nat
    /\ cache \in [Subjects -> CacheEntry \cup {None}]
    /\ lock \in Callers \cup {None}
    /\ pc \in [Callers -> {"idle", "waiting", "fetching", "holding"}]
    /\ subject \in [Callers -> Subjects \cup {None}]
    /\ got \in [Callers -> Tokens \cup {None}]
    /\ transit \in [Callers -> Tokens \cup {None}]
    /\ issued \in [Tokens -> TokenRecord \cup {None}]

\* What is kept was issued for the subject it is kept for, and outlives its
\* issuer's deadline by no more than the delay of its answer.
CacheSound ==
    \A s \in Subjects : cache[s] # None =>
       LET t == cache[s].token IN
       /\ issued[t] # None /\ issued[t].subject = s
       /\ issued[t].told => cache[s].until <= issued[t].until + MaxDelay

IssuedSound ==
    \A t \in Tokens : issued[t] # None /\ issued[t].told =>
       issued[t].until = issued[t].at + issued[t].expires_in

CallersSound ==
    \A c \in Callers :
       /\ pc[c] # "idle" => subject[c] \in Subjects
       /\ pc[c] = "fetching" => lock = c
       /\ transit[c] # None =>
             /\ pc[c] = "fetching"
             /\ issued[transit[c]] # None /\ issued[transit[c]].subject = subject[c]
       /\ pc[c] = "holding" =>
             /\ got[c] \in Tokens
             /\ issued[got[c]] # None /\ issued[got[c]].subject = subject[c]

IInv == Types /\ CacheSound /\ IssuedSound /\ CallersSound

-----------------------------------------------------------------------------
\* An empty cache and a free lock satisfy the invariant.
LEMMA InitInductive == Init => IInv
BY TokenSourceAssumption DEF Init, IInv, Types, CacheSound, IssuedSound, CallersSound

\* A fresh entry holds a token issued for its subject.
LEMMA FreshEntry ==
    ASSUME IInv, NEW s \in Subjects, Fresh(s)
    PROVE  /\ cache[s].token \in Tokens /\ issued[cache[s].token] # None
           /\ issued[cache[s].token].subject = s
BY DEF Fresh, IInv, Types, CacheSound, CacheEntry

\* Asking, with a fresh token, a free lock or a held one, keeps it.
LEMMA AskStep ==
    ASSUME IInv, NEW c \in Callers, Ask(c)
    PROVE  IInv'
<1>. USE DEF IInv
<1>1. ASSUME NEW s \in Subjects, AskHit(c, s) PROVE IInv'
  <2>1. Types' /\ CacheSound' /\ IssuedSound'
    BY <1>1, FreshEntry DEF AskHit, Return, Types, CacheSound, IssuedSound
  <2>2. CallersSound'
    BY <1>1, FreshEntry DEF AskHit, Return, Types, CallersSound
  <2>3. QED
    BY <2>1, <2>2
<1>2. ASSUME NEW s \in Subjects, AskFetch(c, s) PROVE IInv'
  <2>1. Types' /\ CacheSound' /\ IssuedSound'
    BY <1>2 DEF AskFetch, Types, CacheSound, IssuedSound
  <2>2. CallersSound'
    BY <1>2, TokenSourceAssumption DEF AskFetch, Types, CallersSound
  <2>3. QED
    BY <2>1, <2>2
<1>3. ASSUME NEW s \in Subjects, AskWait(c, s) PROVE IInv'
  <2>1. Types' /\ CacheSound' /\ IssuedSound'
    BY <1>3 DEF AskWait, Types, CacheSound, IssuedSound
  <2>2. CallersSound'
    BY <1>3 DEF AskWait, Types, CallersSound
  <2>3. QED
    BY <2>1, <2>2
<1>4. QED
  BY <1>1, <1>2, <1>3 DEF Ask

\* A woken waiter finds a fresh token or takes the lock.
LEMMA WakeStep ==
    ASSUME IInv, NEW c \in Callers, Wake(c)
    PROVE  IInv'
<1>. USE DEF IInv
<1>1. subject[c] \in Subjects
  BY DEF Wake, CallersSound
<1>2. Types' /\ CacheSound' /\ IssuedSound'
  BY <1>1, FreshEntry DEF Wake, Return, Types, CacheSound, IssuedSound
<1>3. CallersSound'
  BY <1>1, FreshEntry, TokenSourceAssumption DEF Wake, Return, Types, CallersSound
<1>4. QED
  BY <1>2, <1>3

\* The issuer's record of a new token disturbs no other token.
LEMMA IssueStep ==
    ASSUME IInv, NEW c \in Callers, NEW t \in Tokens, NEW life \in Lifetimes,
           NEW told \in BOOLEAN, Issue(c, t, life, told)
    PROVE  IInv'
<1>. USE DEF IInv
<1>. DEFINE rec == [subject |-> subject[c], at |-> now, until |-> now + life, told |-> told,
                    expires_in |-> IF told THEN life ELSE DefaultLife]
<1>1. subject[c] \in Subjects /\ issued[t] = None /\ pc[c] = "fetching"
  BY DEF Issue, CallersSound
<1>2. rec \in TokenRecord
  BY <1>1, TokenSourceAssumption DEF TokenRecord, Types
<1>3. rec # None
  BY <1>2, NoneIsNoRecord
<1>4. /\ issued'[t] = rec /\ \A o \in Tokens : o # t => issued'[o] = issued[o]
      /\ transit'[c] = t /\ \A d \in Callers : d # c => transit'[d] = transit[d]
  BY DEF Issue, Types
<1>5. Types'
  BY <1>2 DEF Issue, callers, Types
<1>6. CacheSound'
  BY <1>1, <1>4, FreshEntry DEF Issue, CacheSound, Types, CacheEntry
<1>7. rec.told => rec.until = rec.at + rec.expires_in
  OBVIOUS
<1>8. rec.subject = subject[c]
  OBVIOUS
<1>. HIDE DEF rec
<1>9. IssuedSound'
  BY <1>3, <1>4, <1>7 DEF IssuedSound
<1>10. CallersSound'
  BY <1>1, <1>3, <1>4, <1>8 DEF Issue, callers, CallersSound, Types
<1>11. QED
  BY <1>5, <1>6, <1>9, <1>10

\* An answer is cached for the subject it was asked for, or nothing is.
LEMMA AnswerStep ==
    ASSUME IInv, NEW c \in Callers, Answer(c)
    PROVE  IInv'
<1>. USE DEF IInv
<1>1. CASE Arrive(c)
  <2>. DEFINE t == transit[c]
              entry == [token |-> t, until |-> now + issued[t].expires_in]
  <2>1. /\ t \in Tokens /\ issued[t] # None /\ issued[t].subject = subject[c]
        /\ subject[c] \in Subjects /\ issued[t] \in TokenRecord
        /\ pc[c] = "fetching" /\ lock = c
    BY <1>1 DEF Arrive, Types, CallersSound
  <2>2. entry \in CacheEntry
    BY <2>1 DEF CacheEntry, TokenRecord, Types
  <2>3. issued[t].told => entry.until <= issued[t].until + MaxDelay
    BY <1>1, <2>1, TokenSourceAssumption DEF Arrive, IssuedSound, TokenRecord, Types
  <2>4. /\ cache'[subject[c]] = entry /\ issued' = issued
        /\ \A s \in Subjects : s # subject[c] => cache'[s] = cache[s]
    BY <1>1, <2>1 DEF Arrive, Keep, Types
  <2>5. Types'
    BY <1>1, <2>1, <2>2 DEF Arrive, Keep, Return, Types
  <2>6. entry.token = t
    OBVIOUS
  <2>7. CallersSound'
    BY <1>1, <2>1, TokenSourceAssumption DEF Arrive, Return, CallersSound, Types
  <2>. HIDE DEF entry
  <2>8. CacheSound' /\ IssuedSound'
    BY <2>1, <2>3, <2>4, <2>6 DEF CacheSound, IssuedSound
  <2>9. QED
    BY <2>5, <2>7, <2>8
<1>2. CASE Fail(c)
  <2>1. Types' /\ CacheSound' /\ IssuedSound'
    BY <1>2 DEF Fail, GiveUp, Types, CacheSound, IssuedSound
  <2>2. CallersSound'
    BY <1>2 DEF Fail, GiveUp, Types, CallersSound
  <2>3. QED
    BY <2>1, <2>2
<1>3. QED
  BY <1>1, <1>2 DEF Answer

\* Cancelling, using, closing and waiting keep it.
LEMMA OtherSteps ==
    ASSUME IInv,
           (\E c \in Callers : CancelWait(c) \/ Use(c)) \/ Close \/ Tick \/ UNCHANGED vars
    PROVE  IInv'
<1>. USE DEF IInv
<1>1. ASSUME NEW c \in Callers, CancelWait(c) \/ Use(c) PROVE IInv'
  <2>1. Types' /\ CacheSound' /\ IssuedSound'
    BY <1>1 DEF CancelWait, Use, GiveUp, Types, CacheSound, IssuedSound
  <2>2. CallersSound'
    BY <1>1 DEF CancelWait, Use, GiveUp, Types, CallersSound
  <2>3. QED
    BY <2>1, <2>2
<1>2. CASE Close
  BY <1>2 DEF Close, callers, Types, CacheSound, IssuedSound, CallersSound
<1>3. CASE Tick
  BY <1>3 DEF Tick, callers, Types, CacheSound, IssuedSound, CallersSound
<1>4. CASE UNCHANGED vars
  BY <1>4 DEF vars, callers, Types, CacheSound, IssuedSound, CallersSound
<1>5. QED
  BY <1>1, <1>2, <1>3, <1>4

\* Every step keeps the inductive invariant.
LEMMA StepInductive == IInv /\ [Next]_vars => IInv'
BY AskStep, WakeStep, IssueStep, AnswerStep, OtherSteps DEF Next

-----------------------------------------------------------------------------
\* Whoever fetched it and whoever queues, a token is offered and handed out
\* only to the subject it was issued for.
THEOREM TokensAlwaysStayWithTheirSubject == Spec => []TokensStayWithTheirSubject
<1>1. IInv => TokensStayWithTheirSubject
  BY DEF IInv, CacheSound, CallersSound, TokensStayWithTheirSubject
<1>2. QED
  BY <1>1, InitInductive, StepInductive, PTL DEF Spec

\* At most one request is under way: it is its sender that holds the lock.
OneFetchAtATime ==
    \A c, d \in Callers : pc[c] = "fetching" /\ pc[d] = "fetching" => c = d

\* The lock serialises the fetches of all subjects.
THEOREM FetchesAreSerial == Spec => []OneFetchAtATime
<1>1. IInv => OneFetchAtATime
  BY DEF IInv, CallersSound, OneFetchAtATime
<1>2. QED
  BY <1>1, InitInductive, StepInductive, PTL DEF Spec

Live(t) == now < issued[t].until \/ issued[t].until <= issued[t].at + MaxDelay \/ ~issued[t].told

\* A token the source calls fresh is one its issuer accepts.
LEMMA FreshIsLive ==
    ASSUME IInv, NEW s \in Subjects, Fresh(s)
    PROVE  Live(cache[s].token)
<1>. DEFINE t == cache[s].token
<1>1. /\ t \in Tokens /\ issued[t] \in TokenRecord /\ cache[s] \in CacheEntry
      /\ issued[t].told => cache[s].until <= issued[t].until + MaxDelay
  BY FreshEntry DEF Fresh, IInv, Types, CacheSound
<1>2. now < cache[s].until - Skew
  BY DEF Fresh
<1>3. QED
  BY <1>1, <1>2, TokenSourceAssumption DEF Live, TokenRecord, CacheEntry, IInv, Types

\* A returned token is still accepted by its issuer: the skew makes up for the
\* delay of the answer from whose arrival the lifetime is counted.
THEOREM ReturnedTokensAreAlwaysLive == Spec => ReturnedTokensAreLive
<1>. DEFINE Returns(c) == pc[c] # "holding" /\ pc'[c] = "holding"
<1>1. ASSUME IInv, Next, NEW c \in Callers, Returns(c)
      PROVE  LET t == issued[got'[c]] IN
             now < t.until \/ t.until <= t.at + MaxDelay \/ ~t.told
  <2>1. ASSUME NEW d \in Callers, NEW s \in Subjects, AskHit(d, s)
        PROVE  Live(got'[c])
    <3>1. d = c /\ got'[c] = cache[s].token
      BY <1>1, <2>1 DEF AskHit, Return, IInv, Types
    <3>2. QED
      BY <1>1, <2>1, <3>1, FreshIsLive DEF AskHit
  <2>2. ASSUME NEW d \in Callers, Wake(d)
        PROVE  Live(got'[c])
    <3>1. subject[d] \in Subjects
      BY <1>1, <2>2 DEF Wake, IInv, CallersSound
    <3>2. d = c /\ got'[c] = cache[subject[d]].token /\ Fresh(subject[d])
      BY <1>1, <2>2 DEF Wake, Return, IInv, Types
    <3>3. QED
      BY <1>1, <3>1, <3>2, FreshIsLive
  <2>3. ASSUME NEW d \in Callers, Arrive(d)
        PROVE  Live(got'[c])
    <3>1. d = c /\ got'[c] = transit[c]
      BY <1>1, <2>3 DEF Arrive, Return, IInv, Types
    <3>2. transit[c] \in Tokens /\ issued[transit[c]] \in TokenRecord
      BY <1>1, <2>3, <3>1 DEF Arrive, IInv, Types, CallersSound
    <3>3. now <= issued[transit[c]].at + MaxDelay
      BY <2>3, <3>1 DEF Arrive
    <3>4. QED
      BY <1>1, <3>1, <3>2, <3>3, TokenSourceAssumption DEF Live, TokenRecord, IInv, Types
  <2>4. Live(got'[c])
    BY <1>1, <2>1, <2>2, <2>3 DEF Next, Ask, Answer, AskFetch, AskWait, Fail, CancelWait, Use,
       GiveUp, Issue, Close, Tick, callers, IInv, Types
  <2>5. QED
    BY <2>4 DEF Live
<1>2. IInv /\ [Next]_vars =>
         [\A c \in Callers : pc[c] # "holding" /\ pc'[c] = "holding" =>
             LET t == issued[got'[c]] IN
             now < t.until \/ t.until <= t.at + MaxDelay \/ ~t.told]_vars
  BY <1>1
<1>3. QED
  BY <1>2, InitInductive, StepInductive, PTL DEF Spec, ReturnedTokensAreLive

\* Whether it finds the lock free or was woken to take it, a caller looks at the
\* cache in the step in which its request goes out: what another one fetched in
\* the meantime is used.
THEOREM CallersAlwaysShareFetches == Spec => CallersShareFetches
<1>1. ASSUME IInv, Next, NEW c \in Callers, pc[c] # "fetching", pc'[c] = "fetching"
      PROVE  ~Fresh(subject'[c])
  <2>1. ASSUME NEW d \in Callers, NEW s \in Subjects, AskFetch(d, s) PROVE ~Fresh(subject'[c])
    <3>1. d = c /\ subject'[c] = s
      BY <1>1, <2>1 DEF AskFetch, IInv, Types
    <3>2. QED
      BY <2>1, <3>1 DEF AskFetch
  <2>2. ASSUME NEW d \in Callers, Wake(d) PROVE ~Fresh(subject'[c])
    <3>1. d = c /\ subject'[c] = subject[c]
      BY <1>1, <2>2 DEF Wake, Return, IInv, Types
    <3>2. pc'[d] # "holding"
      BY <1>1, <3>1
    <3>3. ~Fresh(subject[d])
      BY <1>1, <2>2, <3>2 DEF Wake, Return, IInv, Types
    <3>4. QED
      BY <3>1, <3>3 DEF Fresh
  <2>3. QED
    BY <1>1, <2>1, <2>2 DEF Next, Ask, Answer, AskHit, AskWait, Arrive, Fail, CancelWait, Use,
       Return, GiveUp, Issue, Close, Tick, callers, IInv, Types
<1>2. IInv /\ [Next]_vars =>
         [\A c \in Callers : pc[c] # "fetching" /\ pc'[c] = "fetching" => ~Fresh(subject'[c])]_vars
  BY <1>1
<1>3. QED
  BY <1>2, InitInductive, StepInductive, PTL DEF Spec, CallersShareFetches

\* The waiters stay a sequence of callers, also when one leaves from the middle.
LEMMA QueueStep ==
    ASSUME queue \in Seq(Callers), [Next]_vars
    PROVE  queue' \in Seq(Callers)
<1>1. ASSUME NEW c \in Callers, NEW s \in Subjects, AskWait(c, s) PROVE queue' \in Seq(Callers)
  BY <1>1 DEF AskWait
<1>2. ASSUME NEW c \in Callers, Wake(c) PROVE queue' \in Seq(Callers)
  BY <1>2, HeadTailProperties DEF Wake
<1>3. ASSUME NEW c \in Callers, CancelWait(c) PROVE queue' \in Seq(Callers)
  <2>1. PICK i \in 1..Len(queue) : queue' = RemoveAt(queue, i)
    BY <1>3, LenProperties DEF CancelWait
  <2>2. /\ Len(queue) \in Nat /\ i - 1 \in Int /\ i + 1 \in Int
        /\ \A k \in 1..(i - 1) : queue[k] \in Callers
        /\ \A k \in (i + 1)..Len(queue) : queue[k] \in Callers
    BY ElementOfSeq, LenProperties
  <2>3. SubSeq(queue, 1, i - 1) \in Seq(Callers)
    BY <2>2, SubSeqProperties
  <2>4. SubSeq(queue, i + 1, Len(queue)) \in Seq(Callers)
    BY <2>2, SubSeqProperties
  <2> QED
    BY <2>1, <2>3, <2>4, ConcatProperties DEF RemoveAt
<1>4. CASE UNCHANGED queue
  BY <1>4
<1> QED
  BY <1>1, <1>2, <1>3, <1>4
  DEF Next, vars, Ask, AskHit, AskFetch, Issue, Answer, Arrive, Fail, Use, Close, Tick

\* A token source's cache, lock, waiters and callers keep their types.
THEOREM TypeCorrect == Spec => []TypeOK
<1> DEFINE Rest == queue \in Seq(Callers) /\ closed \in BOOLEAN
<1>1. Init => IInv /\ Rest
  <2>1. Init => Rest
    BY EmptySeq DEF Init
  <2> QED
    BY <2>1, InitInductive
<1>2. Rest /\ [Next]_vars => Rest'
  <2> SUFFICES ASSUME Rest, [Next]_vars PROVE Rest'
    OBVIOUS
  <2>1. closed' \in BOOLEAN
    BY DEF Next, vars, Ask, AskHit, AskFetch, AskWait, Wake, Issue, Answer, Arrive, Fail,
       CancelWait, Use, Close, Tick
  <2> QED
    BY <2>1, QueueStep
<1>3. IInv /\ Rest => TypeOK
  BY DEF IInv, Types, TypeOK
<1> QED
  BY <1>1, <1>2, <1>3, StepInductive, PTL DEF Spec
=============================================================================
