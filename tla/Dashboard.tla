------------------------------ MODULE Dashboard ------------------------------
(***************************************************************************)
(* The dashboard process.  The requests of one client run in the server's  *)
(* threads: each is counted by the RateLimiter, then authenticated, and    *)
(* then reads the decision store, to whose file the service, a process of  *)
(* its own, keeps committing decisions.                                    *)
(*                                                                         *)
(* recent() and stats() hold the store's lock, which only the dashboard's  *)
(* threads share.  /events calls both, and stats() runs two SELECTs; no    *)
(* transaction spans any two of the three, so a commit of the service may  *)
(* come between them.  A page is built and sent after the lock is released *)
(* again, so pages may overtake one another on their way out.              *)
(***************************************************************************)
EXTENDS RateLimiter

CONSTANTS
    Verdicts,       \* OBSERVE counts as ALLOW does
    Tokens,         \* the bearer tokens a client may send
    Secret,         \* the dashboard's own
    Nothing,        \* no token, no verdict filter, no thread
    MaxDecisions    \* bound on the decisions committed

ASSUME DashboardAssumption ==
    /\ "BLOCK" \in Verdicts
    /\ Secret \in Tokens
    /\ Nothing \notin Tokens \cup Verdicts \cup Threads
    /\ MaxDecisions \in Nat

VARIABLES
    rows,           \* verdicts of the committed decisions, oldest first
    expected,       \* cfg.dashboard_token
    step,           \* per thread: how far its request has come
    read,           \* per thread: the rows there were at its SELECTs so far
    lock,           \* the thread that holds the store's lock
    shown           \* history: the highest total and total_blocked on a page sent

limiterVars == <<clock, hits, now, retryAfter, rejectedAt, granted>>
storeVars == <<rows, expected, step, read, lock, shown>>
dashboardVars == <<limiterVars, storeVars>>

NotRead == [recent |-> 0, total |-> 0, verdicts |-> 0]

DashboardInit ==
    /\ Init
    /\ rows = <<>>
    /\ expected \in {Secret, Nothing}
    /\ step = [t \in Threads |-> "idle"]
    /\ read = [t \in Threads |-> NotRead]
    /\ lock = Nothing
    /\ shown = [total |-> 0, blocked |-> 0]

-----------------------------------------------------------------------------
(* The dependencies of both endpoints, in their order.                     *)

Arrive(t) ==
    /\ step[t] = "idle"
    /\ ReadClock(t)
    /\ step' = [step EXCEPT ![t] = "counted"]
    /\ UNCHANGED <<rows, expected, read, lock, shown>>

\* rate_limit: 429 if the limiter does not allow it.
RateLimit(t) ==
    /\ step[t] = "counted"
    /\ Check(t)
    /\ step' = [step EXCEPT ![t] = IF rejectedAt' = Idle THEN "allowed" ELSE "idle"]
    /\ UNCHANGED <<rows, expected, read, lock, shown>>

\* authenticate: 503 without a token of its own, 401 without the right one;
\* then the endpoint, /events or /stats.
Authenticate(t) ==
    /\ step[t] = "allowed"
    /\ \E provided \in Tokens \cup {Nothing}, first \in {"recent", "total"} :
         step' = [step EXCEPT ![t] =
                    IF provided # Nothing /\ provided = expected THEN first ELSE "idle"]
    /\ UNCHANGED <<limiterVars, rows, expected, read, lock, shown>>

-----------------------------------------------------------------------------
(* The store.                                                              *)

\* How many of the n oldest rows have a verdict.
CountOf(n, v) == Cardinality({i \in 1 .. n : rows[i] = v})

\* recent(): ORDER BY id DESC LIMIT ?, with or without a verdict filter; the
\* positions of the rows it returns when there are n.
Newest(n, limit, verdict) ==
    LET matching == {i \in 1 .. n : verdict \in {Nothing, rows[i]}}
    IN  {i \in matching : Cardinality({j \in matching : j > i}) < limit}

Recent(t) ==
    /\ step[t] = "recent" /\ lock = Nothing
    /\ read' = [read EXCEPT ![t].recent = Len(rows)]
    /\ step' = [step EXCEPT ![t] = "total"]
    /\ UNCHANGED <<limiterVars, rows, expected, lock, shown>>

\* stats() takes the lock, and its first SELECT counts all rows.
CountAll_Unlocked(t) ==
    /\ step[t] = "total"
    /\ read' = [read EXCEPT ![t].total = Len(rows)]
    /\ step' = [step EXCEPT ![t] = "verdicts"]
    /\ UNCHANGED <<limiterVars, rows, expected, lock, shown>>
CountAll(t) ==
    /\ step[t] = "total" /\ lock = Nothing
    /\ lock' = t
    /\ read' = [read EXCEPT ![t].total = Len(rows)]
    /\ step' = [step EXCEPT ![t] = "verdicts"]
    /\ UNCHANGED <<limiterVars, rows, expected, shown>>

\* Its second SELECT, GROUP BY verdict; the lock is released.
CountVerdicts(t) ==
    /\ step[t] = "verdicts"
    /\ lock' = Nothing
    /\ read' = [read EXCEPT ![t].verdicts = Len(rows)]
    /\ step' = [step EXCEPT ![t] = "sending"]
    /\ UNCHANGED <<limiterVars, rows, expected, shown>>

\* What stats() returned: rows are only ever added to the table, so the rows of
\* a SELECT are the oldest ones now.
Stats_Swapped(t) ==
    LET blocked == CountOf(read[t].total, "BLOCK")
    IN  [total |-> read[t].verdicts, blocked |-> blocked,
         through |-> read[t].verdicts - blocked]
Stats(t) ==
    LET blocked == CountOf(read[t].verdicts, "BLOCK")
    IN  [total |-> read[t].total, blocked |-> blocked,
         through |-> read[t].total - blocked]

\* The events of /events, which recent() read before stats() ran.
Events_Last(t, limit, verdict) == Newest(read[t].verdicts, limit, verdict)
Events(t, limit, verdict) == Newest(read[t].recent, limit, verdict)

Leave(t) ==
    /\ step' = [step EXCEPT ![t] = "idle"]
    /\ read' = [read EXCEPT ![t] = NotRead]

Higher(m, n) == IF m < n THEN n ELSE m

\* The page, or the JSON, is built from what was read, and sent.
Send(t) ==
    /\ step[t] = "sending"
    /\ shown' = [total |-> Higher(shown.total, Stats(t).total),
                 blocked |-> Higher(shown.blocked, Stats(t).blocked)]
    /\ Leave(t)
    /\ UNCHANGED <<limiterVars, rows, expected, lock>>

\* A SELECT raises: the `with' releases the lock, and the client gets a 500.
ReadFails_KeepsLock(t) ==
    /\ step[t] \in {"recent", "total", "verdicts"} /\ lock \in {Nothing, t}
    /\ Leave(t)
    /\ UNCHANGED <<limiterVars, rows, expected, lock, shown>>
ReadFails(t) ==
    /\ step[t] \in {"recent", "total", "verdicts"} /\ lock \in {Nothing, t}
    /\ lock' = Nothing
    /\ Leave(t)
    /\ UNCHANGED <<limiterVars, rows, expected, shown>>

\* Another process commits a decision (DecisionStore.record).
Commit ==
    /\ Len(rows) < MaxDecisions
    /\ \E v \in Verdicts : rows' = Append(rows, v)
    /\ UNCHANGED <<limiterVars, expected, step, read, lock, shown>>

-----------------------------------------------------------------------------
ThreadStep(t) ==
    \/ RateLimit(t) \/ Authenticate(t)
    \/ Recent(t) \/ CountAll(t) \/ CountVerdicts(t) \/ ReadFails(t) \/ Send(t)

DashboardNext ==
    \/ (Tick \/ Reset) /\ UNCHANGED storeVars
    \/ Commit
    \/ \E t \in Threads : Arrive(t) \/ ThreadStep(t)

\* A request that was accepted goes on; nobody has to send one.
DashboardSpec ==
    /\ DashboardInit /\ [][DashboardNext]_dashboardVars
    /\ \A t \in Threads : WF_dashboardVars(ThreadStep(t))

-----------------------------------------------------------------------------
Answering(t) == step[t] = "sending"

\* However many decisions are committed between the SELECTs of stats(), a page
\* never shows more requests as let through than were when they were counted, and
\* no more too few than were blocked in between ("the dashboard reports
\* total-through vs total-blocked", server.py).
ThroughIsNeverOverstated ==
    \A t \in Threads : Answering(t) =>
        LET blocked == CountOf(read[t].total, "BLOCK")
            since == CountOf(read[t].verdicts, "BLOCK") - blocked
        IN  /\ Stats(t).through <= read[t].total - blocked
            /\ Stats(t).through >= read[t].total - blocked - since

\* Every decision that /events lists is counted in the statistics it shows above
\* them, also if decisions were committed while it answered (server.py events).
EventsAreCounted ==
    \A t \in Threads, limit \in 1 .. MaxDecisions, v \in Verdicts \cup {Nothing} :
        Answering(t) =>
            LET listed == Events(t, limit, v) IN
            /\ Cardinality(listed) <= Stats(t).total
            /\ Cardinality({i \in listed : rows[i] = "BLOCK"}) <= Stats(t).blocked

\* When stats() returns, neither its total nor its number of blocks is below
\* that of a page that was sent before, whichever threads computed the two (the
\* lock of stats()).  Sent pages may still arrive in another order: two threads
\* that have both left stats() send theirs as they are scheduled.
TotalsNeverGoBack ==
    [][\A t \in Threads : step[t] = "verdicts" /\ step'[t] = "sending" =>
           /\ shown.total <= Stats(t)'.total
           /\ shown.blocked <= Stats(t)'.blocked]_dashboardVars

\* The store's lock is released again and again, whatever raises under it: one
\* failing request never blocks the others (decisions.py `with self._lock').
LockIsReleased == []<>(lock = Nothing)
=============================================================================
