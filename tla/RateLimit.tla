------------------------------ MODULE RateLimit -------------------------------
(***************************************************************************)
(* The rate limiter of seaplane-api: ratelimit.Limiter.Middleware over the *)
(* in-memory limiter of local.go.  A key is an account and the route its   *)
(* request falls under; an entry is the theoretical arrival time (TAT) of  *)
(* the generic cell rate algorithm.  The Redis limiter keeps the same      *)
(* number under the same key, so it is the same module with one entry per  *)
(* key for all the servers.                                                *)
(***************************************************************************)
EXTENDS Integers

CONSTANTS
    Accounts,   \* callers with an account
    Exempt,     \* those of exemptAccounts
    Routes,     \* the limits that findLimit returns
    Interval,   \* [Routes -> Nat]: Period \div Rate
    Burst,      \* [Routes -> Nat]
    MaxTime     \* bound: the clock

ASSUME RateAssumption ==
    /\ Interval \in [Routes -> Nat \ {0}]   \* a Rate above the Period's ticks divides by zero
    /\ Burst \in [Routes -> Nat \ {0}]
    /\ MaxTime \in Nat

VARIABLES
    now,
    entries,  \* [Keys -> Nat]: the TAT of a key, NoEntry when it has none
    from,     \* history: the start of a window, any moment
    count,    \* history: [Keys -> Nat]: requests of a key admitted since
    retryAt   \* history: [Keys -> Nat]: when the last refusal says to come back

vars == <<now, entries, from, count, retryAt>>

Keys == (Accounts \ Exempt) \X Routes
NoEntry == 0   \* before every time

I(k) == Interval[k[2]]
BurstOffset(k) == I(k) * Burst[k[2]]

\* A TAT in the past, or none, counts from now.
TAT(k) == IF entries[k] < now THEN now ELSE entries[k]

NewTAT(k) == TAT(k) + I(k)
AllowAt(k) == NewTAT(k) - BurstOffset(k)

\* Mutant of Denied: the burst is one larger.
Denied_OffByOne(k) == now < AllowAt(k) - I(k)

Denied(k) == now < AllowAt(k)

\* Allow refuses: nothing is stored; RetryAfter is AllowAt - now.
Refuse(k) ==
    /\ Denied(k)
    /\ retryAt' = [retryAt EXCEPT ![k] = AllowAt(k)]
    /\ UNCHANGED <<now, entries, from, count>>

\* Allow admits, and cleanup drops every entry that lies in the past.
Admit(k) ==
    /\ ~Denied(k)
    /\ entries' = [x \in Keys |-> IF x = k THEN NewTAT(k)
                                  ELSE IF entries[x] < now THEN NoEntry ELSE entries[x]]
    /\ count' = [count EXCEPT ![k] = @ + 1]
    /\ retryAt' = [retryAt EXCEPT ![k] = 0]
    /\ UNCHANGED <<now, from>>

\* The middleware lets a request pass unlimited: no account, an exempt one, or
\* an error of the backend (it fails open).
Bypass == UNCHANGED vars

Tick ==
    /\ now < MaxTime
    /\ now' = now + 1
    /\ UNCHANGED <<entries, from, count, retryAt>>

\* History: look at the window that starts now.
Watch ==
    /\ from' = now
    /\ count' = [k \in Keys |-> 0]
    /\ UNCHANGED <<now, entries, retryAt>>

Init ==
    /\ now = 1 /\ from = 1
    /\ entries = [k \in Keys |-> NoEntry]
    /\ count = [k \in Keys |-> 0]
    /\ retryAt = [k \in Keys |-> 0]

Next ==
    \/ \E k \in Keys : Refuse(k) \/ Admit(k)
    \/ Bypass
    \/ Tick
    \/ Watch

Spec == Init /\ [][Next]_vars

-------------------------------------------------------------------------------
TypeOK ==
    /\ now \in Nat \ {0} /\ from \in Nat
    /\ entries \in [Keys -> Nat]
    /\ count \in [Keys -> Nat]
    /\ retryAt \in [Keys -> Nat]

\* What the algorithm keeps: an admission moves the TAT one interval on, from
\* no earlier than the window's start, and never further ahead than the burst.
Paced ==
    /\ TypeOK
    /\ from <= now
    /\ \A k \in Keys : /\ count[k] * I(k) <= TAT(k) - from
                       /\ TAT(k) <= now + BurstOffset(k)
                       /\ retryAt[k] # 0 => AllowAt(k) <= retryAt[k] \/ AllowAt(k) <= now

\* In any window, however it lies and whatever cleanup dropped, a key is
\* admitted at most its burst and one request per interval.
RateBounded == \A k \in Keys : count[k] * I(k) <= now - from + BurstOffset(k)

\* A client that waits as long as its refusal says is not refused again, unless
\* another request of its account was admitted on the route meanwhile.
RetryHonest == \A k \in Keys : retryAt[k] # 0 /\ retryAt[k] <= now => ~Denied(k)
===============================================================================
