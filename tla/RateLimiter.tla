----------------------------- MODULE RateLimiter -----------------------------
(***************************************************************************)
(* core.rate_limit.RateLimiter for one key, as the dashboard's rate_limit  *)
(* dependency uses it: FastAPI runs it in a pool of threads, and a         *)
(* rejected client is sent a Retry-After header.  As in the token guard,   *)
(* the clock is read before the lock is taken.                             *)
(***************************************************************************)
EXTENDS Naturals, Sequences, FiniteSets, FiniteSetsExt

CONSTANTS
    Threads,
    MaxRequests,    \* max_requests; with 0, check() would raise IndexError
    Window,         \* window_seconds, in units of the clock
    Second,         \* units of the clock in a second
    MaxTime         \* bound on the clock

ASSUME LimiterAssumption ==
    /\ MaxRequests \in Nat \ {0} /\ Second \in Nat \ {0}
    /\ Window \in Nat /\ MaxTime \in Nat

VARIABLES
    clock,
    hits,           \* the deque of timestamps
    now,            \* per thread: the clock reading it holds, or Idle
    retryAfter,     \* RateDecision.retry_after of the newest rejection
    rejectedAt,     \* the clock reading of that rejection, Idle once allowed again
    granted         \* every hit ever registered, since the last reset

vars == <<clock, hits, now, retryAfter, rejectedAt, granted>>

Idle == MaxTime + 1

Init ==
    /\ clock = 0
    /\ hits = <<>>
    /\ now = [t \in Threads |-> Idle]
    /\ retryAfter = 0
    /\ rejectedAt = Idle
    /\ granted = <<>>

Tick ==
    /\ clock < MaxTime
    /\ clock' = clock + 1
    /\ UNCHANGED <<hits, now, retryAfter, rejectedAt, granted>>

ReadClock(t) ==
    /\ now[t] = Idle
    /\ now' = [now EXCEPT ![t] = clock]
    /\ UNCHANGED <<clock, hits, retryAfter, rejectedAt, granted>>

\* _trim
Trimmed_AtEdge(dq, at) ==
    LET live == {i \in DOMAIN dq : dq[i] + Window > at}
    IN  IF live = {} THEN <<>> ELSE SubSeq(dq, Min(live), Len(dq))
Trimmed(dq, at) ==
    LET live == {i \in DOMAIN dq : dq[i] + Window >= at}
    IN  IF live = {} THEN <<>> ELSE SubSeq(dq, Min(live), Len(dq))

\* max(0, window - (now - dq[0])), for a reading that may predate dq[0].
RetryAfter(dq, at) == IF dq[1] + Window > at THEN dq[1] + Window - at ELSE 0

\* The locked part of check(): a rejected hit is not registered.
Check(t) ==
    LET dq == Trimmed(hits, now[t]) IN
    /\ now[t] # Idle
    /\ IF Len(dq) >= MaxRequests
         THEN /\ hits' = dq
              /\ retryAfter' = RetryAfter(dq, now[t])
              /\ rejectedAt' = now[t]
              /\ UNCHANGED granted
         ELSE /\ hits' = Append(dq, now[t])
              /\ granted' = Append(granted, now[t])
              /\ retryAfter' = 0
              /\ rejectedAt' = Idle
    /\ now' = [now EXCEPT ![t] = Idle]
    /\ UNCHANGED clock

\* reset(key): the deque is dropped; what was granted before no longer counts.
Reset ==
    /\ hits' = <<>>
    /\ granted' = <<>>
    /\ UNCHANGED <<clock, now, retryAfter, rejectedAt>>

Next == Tick \/ Reset \/ \E t \in Threads : ReadClock(t) \/ Check(t)

Spec == Init /\ [][Next]_vars

-----------------------------------------------------------------------------
\* However threads overtake one another between clock and lock, no more hits
\* than max_requests are stamped within the window that ends now (check).
CurrentWindowRate ==
    Cardinality({i \in DOMAIN granted : clock <= granted[i] + Window}) <= MaxRequests

Rejected(t) == now[t] # Idle /\ now'[t] = Idle /\ rejectedAt' # Idle

\* The header the dashboard derives, in whole seconds: int(retry_after) + 1.
RetryAfterHeader_Truncated == Second * (retryAfter \div Second)
RetryAfterHeader == Second * (retryAfter \div Second + 1)

\* One client: if it waits as long as the Retry-After header of its newest
\* rejection said, it is not rejected again (server.py rate_limit).
HeaderWaitIsEnough ==
    [][\A t \in Threads :
         Rejected(t) => rejectedAt = Idle \/ now[t] < rejectedAt + RetryAfterHeader]_vars
=============================================================================
