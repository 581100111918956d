--------------------------- MODULE CircuitBreaker ---------------------------
(***************************************************************************)
(* guards.circuit_breaker.CircuitBreaker, called by the threads that run   *)
(* AuditPipeline.process: each runs the trifecta through call().           *)
(*                                                                         *)
(* Every method holds the breaker's lock, so it is one step; but call()    *)
(* holds it only in allow(), and again in record_success() or              *)
(* record_failure(): between them the protected function runs unlocked.    *)
(*                                                                         *)
(* Time is what _opened_at is read for: the time since the breaker last    *)
(* opened, in units of which ResetTimeout is a whole number, and no longer *)
(* counted beyond ResetTimeout.  The failure counter is only compared with *)
(* max_failures and is not counted beyond it.                              *)
(***************************************************************************)
EXTENDS Naturals

CONSTANTS
    Callers,        \* the threads
    MaxFailures,    \* max_failures
    ResetTimeout    \* reset_timeout

ASSUME LimitsAssumption == MaxFailures \in Nat \ {0} /\ ResetTimeout \in Nat

VARIABLES
    state,          \* _state
    failures,       \* _failures, up to MaxFailures
    elapsed,        \* time since _opened_at, up to ResetTimeout
    pc,             \* per thread: outside call() or running func
    outcome         \* how the newest call to end ended

vars == <<state, failures, elapsed, pc, outcome>>

Init ==
    /\ state = "closed"
    /\ failures = 0
    /\ elapsed = ResetTimeout
    /\ pc = [c \in Callers |-> "outside"]
    /\ outcome = "returned"

\* _maybe_half_open: what _state is once it has been looked at.
Looked_Stuck == state
Looked ==
    IF state = "open" /\ elapsed >= ResetTimeout THEN "half_open" ELSE state

\* The state property, snapshot(), and allow() as the pipeline's first guard:
\* they look and admit nobody.
Look ==
    /\ state' = Looked
    /\ UNCHANGED <<failures, elapsed, pc, outcome>>

\* call() when allow() lets it through; otherwise it raises CircuitOpenError
\* and has done no more than Look.
Enter(c) ==
    /\ pc[c] = "outside"
    /\ state' = Looked
    /\ state' # "open"
    /\ pc' = [pc EXCEPT ![c] = "running"]
    /\ UNCHANGED <<failures, elapsed, outcome>>

Leave(c, how) ==
    /\ pc[c] # "outside"
    /\ pc' = [pc EXCEPT ![c] = "outside"]
    /\ outcome' = how

\* func returns: record_success.
Succeed_KeepsCount(c) ==
    /\ Leave(c, "returned")
    /\ state' = "closed"
    /\ UNCHANGED <<failures, elapsed>>
Succeed_KeepsState(c) ==
    /\ Leave(c, "returned")
    /\ failures' = 0
    /\ UNCHANGED <<state, elapsed>>
Succeed(c) ==
    /\ Leave(c, "returned")
    /\ failures' = 0
    /\ state' = "closed"
    /\ UNCHANGED elapsed

\* func raises an Exception: record_failure, which stamps _opened_at whenever
\* it sets OPEN, also when the breaker was open already.
Count == IF failures < MaxFailures THEN failures + 1 ELSE failures
Fail_NeverTrips(c) ==
    /\ Leave(c, "raised")
    /\ failures' = failures + 1
    /\ UNCHANGED <<state, elapsed>>
Fail(c) ==
    /\ Leave(c, "raised")
    /\ failures' = Count
    /\ IF state = "half_open" \/ failures' >= MaxFailures
         THEN state' = "open" /\ elapsed' = 0
         ELSE UNCHANGED <<state, elapsed>>

\* func is left by a KeyboardInterrupt or the like, which `except Exception'
\* does not catch: nothing is recorded.
Abandon(c) ==
    /\ Leave(c, "interrupted")
    /\ UNCHANGED <<state, failures, elapsed>>

Tick ==
    /\ elapsed < ResetTimeout
    /\ elapsed' = elapsed + 1
    /\ UNCHANGED <<state, failures, pc, outcome>>

CallerStep(c) == Enter(c) \/ Succeed(c) \/ Fail(c) \/ Abandon(c)

Next == Look \/ Tick \/ \E c \in Callers : CallerStep(c)

Spec == Init /\ [][Next]_vars

\* Time passes, requests keep coming, and the trifecta always comes back.
Fairness ==
    /\ WF_vars(Tick)
    /\ \A c \in Callers :
         WF_vars(Enter(c)) /\ WF_vars(Succeed(c) \/ Fail(c) \/ Abandon(c))

FairSpec == Spec /\ Fairness

-----------------------------------------------------------------------------
TypeOK ==
    /\ state \in {"closed", "open", "half_open"}
    /\ failures \in 0 .. MaxFailures
    /\ elapsed \in 0 .. ResetTimeout
    /\ pc \in [Callers -> {"outside", "running"}]
    /\ outcome \in {"returned", "raised", "interrupted"}

\* The state and the failure counter agree, also when calls that overlap
\* report in any order: calls run freely exactly while the failures in a row
\* are below the limit (record_success, record_failure).
TrippedIffExhausted == state = "closed" <=> failures < MaxFailures

\* "after max_failures consecutive failures it trips OPEN and short-circuits
\* calls for reset_timeout seconds" (circuit_breaker.py).
OpenLastsItsTimeout ==
    [][state = "open" /\ state' # "open" => elapsed >= ResetTimeout]_vars

\* However long the outage, the breaker tries again and again: it never stays
\* open for good (_maybe_half_open).
AlwaysTriesAgain == []<>(state # "open")

\* Once calls stop failing the breaker closes for good, whatever overlapped
\* before (record_success).
ClosesAfterOutage == <>[](outcome = "returned") => <>[](state = "closed")
=============================================================================
