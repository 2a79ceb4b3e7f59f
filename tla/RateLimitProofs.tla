--------------------------- MODULE RateLimitProofs ----------------------------
(***************************************************************************)
(* The bounds of the rate limiter for every number of accounts, routes,    *)
(* intervals and bursts.  Paced is inductive: RateBounded alone is not,    *)
(* since it forgets the entry that carries what the window used up.        *)
(***************************************************************************)
EXTENDS RateLimit, TLAPS

\* An interval is a positive number, a burst offset at least one interval.
LEMMA KeyParameters ==
    ASSUME NEW k \in Keys
    PROVE  /\ I(k) \in Nat \ {0}
           /\ BurstOffset(k) \in Nat
           /\ k[2] \in Routes
BY RateAssumption DEF Keys, I, BurstOffset

\* One admission more is one interval more.
LEMMA OneMore ==
    ASSUME NEW c \in Nat, NEW i \in Nat
    PROVE  (c + 1) * i = c * i + i /\ c * i \in Nat /\ 0 * i = 0
BY SMT

\* A burst of at least one offsets at least one interval.
LEMMA BurstCoversOne ==
    ASSUME NEW k \in Keys
    PROVE  I(k) <= BurstOffset(k)
<1>1. I(k) \in Nat /\ Burst[k[2]] \in Nat \ {0}
  BY KeyParameters, RateAssumption
<1>2. PICK c \in Nat : Burst[k[2]] = c + 1
  <2>1. Burst[k[2]] - 1 \in Nat /\ Burst[k[2]] = (Burst[k[2]] - 1) + 1
    BY <1>1
  <2> QED
    BY <2>1
<1>3. (c + 1) * I(k) = c * I(k) + I(k) /\ c * I(k) \in Nat
  BY <1>1, <1>2, OneMore
<1>4. BurstOffset(k) = (c + 1) * I(k)
  BY <1>1, <1>2 DEF BurstOffset
<1> QED
  BY <1>1, <1>3, <1>4

LEMMA InitPaced == Init => Paced
<1> SUFFICES ASSUME Init PROVE Paced
  OBVIOUS
<1>1. TypeOK /\ from <= now
  BY DEF Init, TypeOK, NoEntry
<1>2. ASSUME NEW k \in Keys
      PROVE  /\ count[k] * I(k) <= TAT(k) - from
             /\ TAT(k) <= now + BurstOffset(k)
             /\ retryAt[k] = 0
  <2>1. I(k) \in Nat /\ BurstOffset(k) \in Nat
    BY KeyParameters
  <2>2. count[k] = 0 /\ TAT(k) = 1 /\ retryAt[k] = 0 /\ now = 1 /\ from = 1
    BY DEF Init, TAT, NoEntry
  <2>3. 0 * I(k) = 0
    BY <2>1, OneMore
  <2> QED
    BY <2>1, <2>2, <2>3
<1> QED
  BY <1>1, <1>2 DEF Paced

LEMMA NextPaced == Paced /\ [Next]_vars => Paced'
<1> SUFFICES ASSUME Paced, [Next]_vars PROVE Paced'
  OBVIOUS
<1> USE DEF TypeOK
<1>0. TypeOK /\ from <= now
  BY DEF Paced
<1>a. ASSUME NEW k \in Keys
      PROVE  /\ I(k) \in Nat \ {0} /\ BurstOffset(k) \in Nat
             /\ TAT(k) \in Nat /\ now <= TAT(k) /\ entries[k] <= TAT(k)
             /\ count[k] * I(k) \in Nat
             /\ count[k] * I(k) <= TAT(k) - from
             /\ TAT(k) <= now + BurstOffset(k)
             /\ retryAt[k] # 0 => AllowAt(k) <= retryAt[k] \/ AllowAt(k) <= now
  <2>1. I(k) \in Nat \ {0} /\ BurstOffset(k) \in Nat
    BY KeyParameters
  <2>2. TAT(k) \in Nat /\ now <= TAT(k) /\ entries[k] <= TAT(k)
    BY <1>0 DEF TAT
  <2>3. count[k] * I(k) \in Nat
    BY <1>0, <2>1, OneMore
  <2> QED
    BY <2>1, <2>2, <2>3 DEF Paced
<1>1. ASSUME NEW a \in Keys, Refuse(a) PROVE Paced'
  <2>1. TypeOK' /\ (from <= now)'
    <3>1. AllowAt(a) \in Nat
      BY <1>0, <1>1, <1>a DEF Refuse, Denied, AllowAt, NewTAT
    <3> QED
      BY <1>0, <1>1, <3>1 DEF Refuse
  <2>2. ASSUME NEW k \in Keys
        PROVE (/\ count[k] * I(k) <= TAT(k) - from
               /\ TAT(k) <= now + BurstOffset(k)
               /\ retryAt[k] # 0 => AllowAt(k) <= retryAt[k] \/ AllowAt(k) <= now)'
    <3>1. I(k)' = I(k) /\ BurstOffset(k)' = BurstOffset(k)
      BY DEF I, BurstOffset
    <3>2. TAT(k)' = TAT(k) /\ AllowAt(k)' = AllowAt(k)
      BY <1>1, <3>1 DEF Refuse, TAT, AllowAt, NewTAT
    <3>3. retryAt'[k] = IF k = a THEN AllowAt(a) ELSE retryAt[k]
      BY <1>0, <1>1 DEF Refuse
    <3>4. AllowAt(k) \in Int
      BY <1>a DEF AllowAt, NewTAT
    <3> QED
      BY <1>1, <1>a, <3>1, <3>2, <3>3, <3>4 DEF Refuse
  <2> QED
    BY <2>1, <2>2 DEF Paced
<1>2. ASSUME NEW a \in Keys, Admit(a) PROVE Paced'
  <2>0. NewTAT(a) \in Nat
    BY <1>a DEF NewTAT
  <2>1. TypeOK' /\ (from <= now)'
    BY <1>0, <1>2, <2>0 DEF Admit, NoEntry
  <2>2. ASSUME NEW k \in Keys
        PROVE (/\ count[k] * I(k) <= TAT(k) - from
               /\ TAT(k) <= now + BurstOffset(k)
               /\ retryAt[k] # 0 => AllowAt(k) <= retryAt[k] \/ AllowAt(k) <= now)'
    <3>1. I(k)' = I(k) /\ BurstOffset(k)' = BurstOffset(k)
      BY DEF I, BurstOffset
    <3>2. CASE k = a
      <4>1. TAT(k)' = TAT(k) + I(k)
        BY <1>0, <1>2, <1>a, <2>0, <3>2 DEF Admit, TAT, NewTAT
      <4>2. count'[k] = count[k] + 1 /\ retryAt'[k] = 0 /\ now' = now /\ from' = from
        BY <1>0, <1>2, <3>2 DEF Admit
      <4>3. count'[k] * I(k) = count[k] * I(k) + I(k)
        BY <1>0, <1>a, <4>2, OneMore
      <4>4. (TAT(k) + I(k)) - BurstOffset(k) <= now
        BY <1>0, <1>2, <1>a, <3>2 DEF Admit, Denied, AllowAt, NewTAT
      <4>5. (count[k] * I(k))' <= TAT(k)' - from'
        BY <1>0, <1>a, <3>1, <4>1, <4>2, <4>3
      <4>6. TAT(k)' <= now' + BurstOffset(k)'
        BY <1>0, <1>a, <3>1, <4>1, <4>2, <4>4
      <4> QED
        BY <4>2, <4>5, <4>6
    <3>3. CASE k # a
      <4>1. TAT(k)' = TAT(k)
        BY <1>0, <1>2, <3>3 DEF Admit, TAT, NoEntry
      <4>2. AllowAt(k)' = AllowAt(k)
        BY <3>1, <4>1 DEF AllowAt, NewTAT
      <4>3. count'[k] = count[k] /\ retryAt'[k] = retryAt[k] /\ now' = now /\ from' = from
        BY <1>0, <1>2, <3>3 DEF Admit
      <4> QED
        BY <1>a, <3>1, <4>1, <4>2, <4>3
    <3> QED
      BY <3>2, <3>3
  <2> QED
    BY <2>1, <2>2 DEF Paced
<1>3. CASE Tick
  <2>1. TypeOK' /\ (from <= now)'
    BY <1>0, <1>3 DEF Tick
  <2>2. ASSUME NEW k \in Keys
        PROVE (/\ count[k] * I(k) <= TAT(k) - from
               /\ TAT(k) <= now + BurstOffset(k)
               /\ retryAt[k] # 0 => AllowAt(k) <= retryAt[k] \/ AllowAt(k) <= now)'
    <3>1. I(k)' = I(k) /\ BurstOffset(k)' = BurstOffset(k)
      BY DEF I, BurstOffset
    <3>2. TAT(k) <= TAT(k)' /\ TAT(k)' <= now' + BurstOffset(k) /\ TAT(k)' \in Nat
          /\ (TAT(k)' = TAT(k) \/ TAT(k)' = now')
      BY <1>0, <1>3, <1>a DEF Tick, TAT
    <3>3. I(k) <= BurstOffset(k)
      BY BurstCoversOne
    <3>4. AllowAt(k)' = (TAT(k)' + I(k)) - BurstOffset(k)
      BY <3>1 DEF AllowAt, NewTAT
    <3>5. AllowAt(k) = (TAT(k) + I(k)) - BurstOffset(k)
      BY DEF AllowAt, NewTAT
    <3>6. count' = count /\ from' = from /\ retryAt' = retryAt /\ now' = now + 1
      BY <1>3 DEF Tick
    <3>7. (count[k] * I(k))' = count[k] * I(k)
      BY <3>1, <3>6
    <3> QED
      BY <1>0, <1>a, <3>1, <3>2, <3>3, <3>4, <3>5, <3>6, <3>7
  <2> QED
    BY <2>1, <2>2 DEF Paced
<1>4. CASE Watch
  <2>1. TypeOK' /\ (from <= now)'
    BY <1>0, <1>4 DEF Watch
  <2>2. ASSUME NEW k \in Keys
        PROVE (/\ count[k] * I(k) <= TAT(k) - from
               /\ TAT(k) <= now + BurstOffset(k)
               /\ retryAt[k] # 0 => AllowAt(k) <= retryAt[k] \/ AllowAt(k) <= now)'
    <3>1. I(k)' = I(k) /\ BurstOffset(k)' = BurstOffset(k)
      BY DEF I, BurstOffset
    <3>2. TAT(k)' = TAT(k) /\ AllowAt(k)' = AllowAt(k)
      BY <1>4, <3>1 DEF Watch, TAT, AllowAt, NewTAT
    <3>3. count'[k] = 0 /\ from' = now /\ now' = now /\ retryAt' = retryAt
      BY <1>4 DEF Watch
    <3>4. 0 * I(k) = 0
      BY <1>a, OneMore
    <3> QED
      BY <1>0, <1>a, <3>1, <3>2, <3>3, <3>4
  <2> QED
    BY <2>1, <2>2 DEF Paced
<1>5. CASE UNCHANGED vars
  BY <1>5 DEF vars, Paced, TypeOK, TAT, AllowAt, NewTAT, I, BurstOffset
<1> QED
  BY <1>1, <1>2, <1>3, <1>4, <1>5 DEF Next, Bypass

\* Local.Allow and its cleanup keep every TAT between what the window has used
\* up and one burst ahead of the clock.
THEOREM Pacing == Spec => []Paced
<1> QED
  BY InitPaced, NextPaced, PTL DEF Spec

\* Whatever the requests, and wherever the window lies, a key gets at most its
\* burst and one request per interval.
THEOREM BoundedRate == Spec => []RateBounded
<1>1. Paced => RateBounded
  <2> SUFFICES ASSUME Paced, NEW k \in Keys
               PROVE  count[k] * I(k) <= now - from + BurstOffset(k)
    BY DEF RateBounded
  <2>1. I(k) \in Nat /\ BurstOffset(k) \in Nat
    BY KeyParameters
  <2>2. TAT(k) \in Nat /\ count[k] * I(k) \in Nat /\ now \in Nat /\ from \in Nat
    BY <2>1, OneMore DEF Paced, TypeOK, TAT
  <2> QED
    BY <2>1, <2>2 DEF Paced
<1> QED
  BY <1>1, Pacing, PTL

\* The Retry-After of a refusal is long enough.
THEOREM HonestRetry == Spec => []RetryHonest
<1>1. Paced => RetryHonest
  <2> SUFFICES ASSUME Paced, NEW k \in Keys, retryAt[k] # 0, retryAt[k] <= now
               PROVE  ~Denied(k)
    BY DEF RetryHonest
  <2>1. I(k) \in Nat /\ BurstOffset(k) \in Nat
    BY KeyParameters
  <2>2. TAT(k) \in Nat /\ now \in Nat /\ retryAt[k] \in Nat
    BY DEF Paced, TypeOK, TAT
  <2>3. AllowAt(k) \in Int
    BY <2>1, <2>2 DEF AllowAt, NewTAT
  <2>4. AllowAt(k) <= retryAt[k] \/ AllowAt(k) <= now
    BY DEF Paced
  <2> QED
    BY <2>2, <2>3, <2>4 DEF Denied
<1> QED
  BY <1>1, Pacing, PTL
===============================================================================
