---------------------------- MODULE TokenVelocity ----------------------------
(***************************************************************************)
(* guards.token_velocity.TokenVelocityGuard for one key.  check() reads    *)
(* the clock before it takes the guard's lock, so a thread may be overtaken*)
(* between the two and record a spend with an older timestamp than spends  *)
(* recorded before it: the deque is not always sorted.                     *)
(***************************************************************************)
EXTENDS Integers, Sequences, FiniteSets, FiniteSetsExt

CONSTANTS
    Threads,
    Costs,          \* the token counts a request may claim, of any sign
    MaxTokens,      \* max_tokens
    MaxEvents,      \* max_events; the pipeline sets none, a large number here
    Window,         \* window_seconds
    MaxTime         \* bound on the clock

ASSUME GuardAssumption ==
    /\ Costs \subseteq Int
    /\ {MaxTokens, MaxEvents, Window, MaxTime} \subseteq Nat

VARIABLES
    clock,
    events,         \* the deque of [at, tokens], oldest entry first
    now,            \* per thread: the clock reading it holds, or Idle
    cost,           \* per thread: the tokens it asks for
    granted         \* every spend ever allowed

vars == <<clock, events, now, cost, granted>>

Idle == MaxTime + 1

Init ==
    /\ clock = 0
    /\ events = <<>>
    /\ now = [t \in Threads |-> Idle]
    /\ cost = [t \in Threads |-> 0]
    /\ granted = <<>>

Tick ==
    /\ clock < MaxTime
    /\ clock' = clock + 1
    /\ UNCHANGED <<events, now, cost, granted>>

\* now = self._time(), before the lock.
ReadClock(t) ==
    /\ now[t] = Idle
    /\ now' = [now EXCEPT ![t] = clock]
    /\ \E c \in Costs : cost' = [cost EXCEPT ![t] = c]
    /\ UNCHANGED <<clock, events, granted>>

\* _trim: expired entries leave from the left, up to the first that is not.
Expired_AtEdge(e, at) == e.at + Window <= at
Expired_Never(e, at) == FALSE
Expired(e, at) == e.at + Window < at
Trimmed(dq, at) ==
    LET live == {i \in DOMAIN dq : ~ Expired(dq[i], at)}
    IN  IF live = {} THEN <<>> ELSE SubSeq(dq, Min(live), Len(dq))

\* The sum of a sequence of amounts.
Total(amounts) ==
    LET upTo[n \in 0 .. Len(amounts)] == IF n = 0 THEN 0 ELSE upTo[n - 1] + amounts[n]
    IN  upTo[Len(amounts)]

Tokens(dq) == Total([i \in DOMAIN dq |-> dq[i].tokens])

Fits(dq, c) == Tokens(dq) + c <= MaxTokens /\ Len(dq) + 1 <= MaxEvents

\* The locked part of check(): trim, then record the spend if it fits.
Check(t) ==
    LET dq == Trimmed(events, now[t])
        spend == [at |-> now[t], tokens |-> cost[t]]
    IN
    /\ now[t] # Idle
    /\ IF Fits(dq, cost[t])
         THEN events' = Append(dq, spend) /\ granted' = Append(granted, spend)
         ELSE events' = dq /\ UNCHANGED granted
    /\ now' = [now EXCEPT ![t] = Idle]
    /\ UNCHANGED <<clock, cost>>

\* usage() trims too.  An older clock reading would trim less, no more.
Usage(t) ==
    /\ now[t] = Idle
    /\ events' = Trimmed(events, clock)
    /\ UNCHANGED <<clock, now, cost, granted>>

Next == Tick \/ \E t \in Threads : ReadClock(t) \/ Check(t) \/ Usage(t)

Spec == Init /\ [][Next]_vars

-----------------------------------------------------------------------------
Spend == [at : 0 .. MaxTime, tokens : Costs]

TypeOK ==
    /\ clock \in 0 .. MaxTime
    /\ events \in Seq(Spend)
    /\ now \in [Threads -> 0 .. Idle]
    /\ cost \in [Threads -> Costs \cup {0}]
    /\ granted \in Seq(Spend)

\* What was allowed in the window that ends at a given time.
InWindow(e, at) == e.at <= at /\ at <= e.at + Window
TokensInWindow(at) ==
    Total([i \in DOMAIN granted |->
             IF InWindow(granted[i], at) THEN granted[i].tokens ELSE 0])
EventsInWindow(at) == Cardinality({i \in DOMAIN granted : InWindow(granted[i], at)})

\* check() takes any count; a negative one makes room for as much more, also for
\* spends that stay in the window when it has left.
NoneNegative == \A i \in DOMAIN granted : granted[i].tokens >= 0

\* However threads overtake one another between clock and lock, the spends
\* stamped within the window that ends now stay within the rate, and, unless a
\* negative count was ever allowed, within the budget ("It enforces ... a rate
\* (events per window) and a budget").
CurrentWindowBudget ==
    /\ EventsInWindow(clock) <= MaxEvents
    /\ NoneNegative => TokensInWindow(clock) <= MaxTokens

\* No reading newer than thread t's was recorded, and the deque is sorted.
NotOvertaken(t) ==
    \A i \in DOMAIN events :
        events[i].at <= now[t] /\ \A j \in 1 .. i : events[j].at <= events[i].at

Rejected(t) == now[t] # Idle /\ now'[t] = Idle /\ granted' = granted

\* A request that was not overtaken is only turned away if it would have
\* exceeded the budget or the rate of the window that ends at its time: nothing
\* rejected, expired or trimmed counts ("A rejected request is not recorded (it
\* did not spend)").  Where a negative count was allowed, one that another
\* thread's trimming dropped may be missing from the sum.
RejectionsAreJustified ==
    [][\A t \in Threads :
         Rejected(t) /\ NotOvertaken(t) /\ NoneNegative
           => \/ TokensInWindow(now[t]) + cost[t] > MaxTokens
              \/ EventsInWindow(now[t]) + 1 > MaxEvents]_vars
=============================================================================
