------------------------------- MODULE Pipeline -------------------------------
(***************************************************************************)
(* AuditPipeline.process in one service process: every request goes        *)
(* through the circuit breaker, the token guard, the two authority gates,  *)
(* the trifecta (under the breaker) and its principal's swarm detector,    *)
(* and, with the verdict they make, through _finalize.                     *)
(*                                                                         *)
(* The parts are the modules ReceiptLedger, CircuitBreaker, SwarmDetector  *)
(* and Authority; a step of process() is a step of one of them.  The token *)
(* guard and the trifecta are known here by the answers they may give.     *)
(***************************************************************************)
EXTENDS Integers, Sequences, FiniteSets

CONSTANTS
    Service,        \* the process
    Workers, MaxFaults, MaxCrashes,                 \* as in ReceiptLedger
    MaxFailures, ResetTimeout,                      \* as in CircuitBreaker
    IncPos, IncNeg, Upper, Lower,                   \* as in SwarmDetector
    Resources, Patterns, Star, Covers, Agents, AnyPrincipal,    \* as in Authority
    Grants,         \* the manifest's grant table
    Requests,       \* [principal, requested, declared, flaws]
    MaxRequests     \* bound on the requests submitted

\* What process() converts, looks up or encodes where nothing catches an exception.
Flaws == {"fields",         \* agent, action or resources: the fingerprint of submit()
          "tokens",         \* the count, the action or the agent: the token guard
          "resources",      \* declared or requested: the sets of the two gates
          "principal",      \* on_behalf_of: the grants, the swarm detectors
          "receipt"}        \* request_id, or a text that a violation quotes: issue

ASSUME RequestsAssumption ==
    /\ MaxRequests \in Nat
    /\ Requests \subseteq [principal : Agents, requested : SUBSET Resources,
                           declared : SUBSET Resources, flaws : SUBSET Flaws]

ASSUME PartsAssumption ==
    /\ IsFiniteSet(Workers) /\ MaxFaults \in Nat /\ MaxCrashes \in Nat
    /\ MaxFailures \in Nat \ {0} /\ ResetTimeout \in Nat
    /\ {IncPos, IncNeg, Upper, Lower} \subseteq Nat \ {0}

VARIABLES
    ledger, decisions, auditTxn, decisionTxn, head, up, finalizing, rcpt,
    issued, answered, faults, crashes,              \* ReceiptLedger
    state, failures, elapsed, calling, outcome,     \* CircuitBreaker
    logLR, streak,                                  \* SwarmDetector
    run,            \* per worker: the locals of process()
    requestOf,      \* the request the n-th receipt issued is about
    submitted,      \* number of requests submitted
    raised          \* number of them whose own content raised

ledgerVars == <<ledger, decisions, auditTxn, decisionTxn, head, up, finalizing,
                rcpt, issued, answered, faults, crashes>>
breakerVars == <<state, failures, elapsed, calling, outcome>>
swarmVars == <<logLR, streak>>
ghostVars == <<requestOf, submitted, raised>>
vars == <<ledgerVars, breakerVars, swarmVars, run, ghostVars>>

Ledger == INSTANCE ReceiptLedger WITH
    Processes <- {Service}, Home <- [w \in Workers |-> Service],
    MaxReceipts <- MaxRequests, pc <- finalizing
Breaker == INSTANCE CircuitBreaker WITH Callers <- Workers, pc <- calling
Swarm == INSTANCE SwarmDetector WITH Principals <- Agents
Gate == INSTANCE Authority

NoRequest == CHOOSE r \in Requests : TRUE
Idle == [step |-> "idle", id |-> 0, request |-> NoRequest, violations |-> {},
         forced |-> FALSE, judged |-> "none", verdict |-> "none"]

Init ==
    /\ Ledger!Init /\ Breaker!Init /\ Swarm!Init
    /\ run = [w \in Workers |-> Idle]
    /\ requestOf = <<>>
    /\ submitted = 0
    /\ raised = 0

At(w, step) == run[w].step = step

-----------------------------------------------------------------------------
(* The process.  The guards' state lives in memory.                        *)

Construct ==
    /\ Ledger!Start(Service)
    /\ state' = "closed" /\ failures' = 0 /\ elapsed' = ResetTimeout
    /\ logLR' = [p \in Agents |-> 0] /\ streak' = [p \in Agents |-> 0]
    /\ UNCHANGED <<calling, outcome, run, ghostVars>>

Close ==
    /\ \A w \in Workers : At(w, "idle")
    /\ Ledger!Close(Service)
    /\ UNCHANGED <<breakerVars, swarmVars, run, ghostVars>>

Crash ==
    /\ Ledger!Crash(Service)
    /\ run' = [w \in Workers |-> Idle]
    /\ calling' = [w \in Workers |-> "outside"]
    /\ UNCHANGED <<state, failures, elapsed, outcome, swarmVars, ghostVars>>

Tick ==
    /\ up[Service]
    /\ Breaker!Tick
    /\ UNCHANGED <<ledgerVars, swarmVars, run, ghostVars>>

-----------------------------------------------------------------------------
(* The gates.                                                              *)

Submit(w) ==
    /\ up[Service] /\ At(w, "idle") /\ submitted < MaxRequests
    /\ submitted' = submitted + 1
    /\ \E r \in Requests :
         run' = [run EXCEPT ![w] =
                   [Idle EXCEPT !.step = "submitted", !.id = submitted', !.request = r]]
    /\ UNCHANGED <<ledgerVars, breakerVars, swarmVars, requestOf, raised>>

\* self._finalize(request, Verdict.BLOCK, [], gate_violations, ...)
Blocked(w, source) ==
    run' = [run EXCEPT ![w].step = "finalizing", ![w].verdict = "BLOCK",
                       ![w].violations = @ \cup {source}]

\* Where the content of a request raises an exception that nothing catches: in
\* canonicalize; in int(), the token guard's table, set() or the grant tables; in
\* _swarm_detector_for; in issue, before the chain moves.
RaisesAt(r, step) ==
    \/ step = "submitted" /\ "fields" \in r.flaws
    \/ step = "admitted" /\ "tokens" \in r.flaws
    \/ step = "admitted" /\ r.requested # {} /\ {"resources", "principal"} \cap r.flaws # {}
    \/ step = "judged" /\ "principal" \in r.flaws
    \/ step = "finalizing" /\ "receipt" \in r.flaws

\* process() is left as it is, with what it changed so far.
Raises(w) ==
    /\ RaisesAt(run[w].request, run[w].step)
    /\ run' = [run EXCEPT ![w] = Idle]
    /\ raised' = raised + 1
    /\ UNCHANGED <<ledgerVars, breakerVars, swarmVars, requestOf, submitted>>

\* Guard 1: breaker.allow().
GuardBreaker(w) ==
    /\ At(w, "submitted") /\ ~ RaisesAt(run[w].request, "submitted")
    /\ Breaker!Look
    /\ IF state' = "open" THEN Blocked(w, "circuit_breaker")
                          ELSE run' = [run EXCEPT ![w].step = "admitted"]
    /\ UNCHANGED <<ledgerVars, swarmVars, ghostVars>>

\* The guards 2 and 3 and Gate C1, none of which stops at a violation.
Violations(r, overBudget) ==
    {source \in {"token_velocity", "zsp", "confused_deputy"} :
        \/ source = "token_velocity" /\ overBudget
        \/ source = "zsp" /\ r.requested # {}
            /\ ~ Gate!ZSPAllows(Grants, r.principal, r.declared, r.requested)
        \/ source = "confused_deputy" /\ r.requested # {}
            /\ ~ Gate!DeputyAllows(Grants, r.principal, r.requested)}

GuardRequest(w) ==
    /\ At(w, "admitted") /\ ~ RaisesAt(run[w].request, "admitted")
    /\ \E overBudget \in BOOLEAN :
         LET found == Violations(run[w].request, overBudget) IN
         run' = [run EXCEPT ![w].step = "cleared", ![w].violations = found,
                            ![w].forced = found # {}]
    /\ UNCHANGED <<ledgerVars, breakerVars, swarmVars, ghostVars>>

\* breaker.call(self.trifecta.evaluate, ...)
CallTrifecta(w) ==
    /\ At(w, "cleared")
    /\ Breaker!Enter(w)
    /\ run' = [run EXCEPT ![w].step = "evaluating"]
    /\ UNCHANGED <<ledgerVars, swarmVars, ghostVars>>

\* ... raises CircuitOpenError.
CallRefused_Waits(w) == FALSE
CallRefused(w) ==
    /\ At(w, "cleared")
    /\ Breaker!Look /\ state' = "open"
    /\ Blocked(w, "circuit_breaker")
    /\ UNCHANGED <<ledgerVars, swarmVars, ghostVars>>

TrifectaReturns(w) ==
    /\ At(w, "evaluating")
    /\ Breaker!Succeed(w)
    /\ \E v \in {"ALLOW", "OBSERVE", "BLOCK"} :
         run' = [run EXCEPT ![w].step = "judged", ![w].judged = v,
                            ![w].verdict = IF run[w].forced THEN "BLOCK" ELSE v]
    /\ UNCHANGED <<ledgerVars, swarmVars, ghostVars>>

\* Any detector error: fail closed.
TrifectaRaises_NotRecorded(w) ==
    /\ At(w, "evaluating")
    /\ Breaker!Fail(w)
    /\ run' = [run EXCEPT ![w] = Idle]
    /\ UNCHANGED <<ledgerVars, swarmVars, ghostVars>>
TrifectaRaises(w) ==
    /\ At(w, "evaluating")
    /\ Breaker!Fail(w)
    /\ Blocked(w, "pipeline")
    /\ UNCHANGED <<ledgerVars, swarmVars, ghostVars>>

\* Guard 4: a swarm is blocked whatever the verdict was.
ObserveSwarm_KeepsVerdict(w) ==
    LET p == run[w].request.principal
        suspicious == run[w].verdict # "ALLOW"
        swarm == Swarm!Decision(Swarm!Evidence(p, suspicious)) = "swarm"
    IN
    /\ At(w, "judged") /\ ~ RaisesAt(run[w].request, "judged")
    /\ Swarm!Observe(p, suspicious)
    /\ IF swarm THEN run' = [run EXCEPT ![w].step = "finalizing",
                                        ![w].violations = @ \cup {"swarm_detector"}]
                ELSE run' = [run EXCEPT ![w].step = "finalizing"]
    /\ UNCHANGED <<ledgerVars, breakerVars, ghostVars>>
ObserveSwarm_NotListed(w) ==
    LET p == run[w].request.principal
        suspicious == run[w].verdict # "ALLOW"
        swarm == Swarm!Decision(Swarm!Evidence(p, suspicious)) = "swarm"
    IN
    /\ At(w, "judged") /\ ~ RaisesAt(run[w].request, "judged")
    /\ Swarm!Observe(p, suspicious)
    /\ run' = [run EXCEPT ![w].step = "finalizing",
                          ![w].verdict = IF swarm THEN "BLOCK" ELSE @]
    /\ UNCHANGED <<ledgerVars, breakerVars, ghostVars>>
ObserveSwarm(w) ==
    LET p == run[w].request.principal
        suspicious == run[w].verdict # "ALLOW"
        swarm == Swarm!Decision(Swarm!Evidence(p, suspicious)) = "swarm"
    IN
    /\ At(w, "judged") /\ ~ RaisesAt(run[w].request, "judged")
    /\ Swarm!Observe(p, suspicious)
    /\ IF swarm THEN Blocked(w, "swarm_detector")
                ELSE run' = [run EXCEPT ![w].step = "finalizing"]
    /\ UNCHANGED <<ledgerVars, breakerVars, ghostVars>>

-----------------------------------------------------------------------------
(* _finalize                                                               *)

\* What of the request a receipt takes over depends on the findings, so that one
\* that may raise in issue may also pass.
Issue(w) ==
    /\ At(w, "finalizing")
    /\ Ledger!ReadHead(w)
    /\ requestOf' = Append(requestOf, run[w].id)
    /\ run' = [run EXCEPT ![w].step = "storing"]
    /\ UNCHANGED <<breakerVars, swarmVars, submitted, raised>>

Store(w) ==
    /\ At(w, "storing")
    /\ \/ Ledger!WriteHead(w)
       \/ Ledger!AppendAudit(w) \/ Ledger!InsertAuditFails(w) \/ Ledger!CommitAuditFails(w)
       \/ Ledger!RecordDecision(w) \/ Ledger!InsertDecisionFails(w)
       \/ Ledger!CommitDecisionFails(w)
       \/ Ledger!Answer(w)
    /\ run' = IF finalizing'[w] = "idle" THEN [run EXCEPT ![w] = Idle] ELSE run
    /\ UNCHANGED <<breakerVars, swarmVars, ghostVars>>

-----------------------------------------------------------------------------
RequestStep(w) ==
    \/ Raises(w) \/ GuardBreaker(w) \/ GuardRequest(w)
    \/ CallTrifecta(w) \/ CallRefused(w) \/ TrifectaReturns(w) \/ TrifectaRaises(w)
    \/ ObserveSwarm(w) \/ Issue(w) \/ Store(w)

Next ==
    \/ Construct \/ Close \/ Crash \/ Tick
    \/ \E w \in Workers : Submit(w) \/ RequestStep(w)

Spec == Init /\ [][Next]_vars

\* A request that is being processed goes on: nothing in process() waits for
\* another request, or for time to pass.
FairSpec == Spec /\ \A w \in Workers : WF_vars(RequestStep(w))

-----------------------------------------------------------------------------
TypeOK ==
    /\ Ledger!TypeOK /\ Breaker!TypeOK /\ Swarm!TypeOK
    /\ \A w \in Workers : run[w].id \in 0 .. submitted
    /\ requestOf \in Seq(1 .. submitted) /\ Len(requestOf) = issued
    /\ raised \in 0 .. submitted

Finalized(w) == run[w].step \in {"finalizing", "storing"}

\* A request that is recorded and answered as not blocked passed every gate: it
\* was granted what it named, the trifecta returned this very verdict, and no
\* guard objected, in whatever order other requests tripped the breaker or fed
\* the swarm detector (process).
PassesEveryGate ==
    \A w \in Workers :
        LET r == run[w].request IN
        Finalized(w) /\ run[w].verdict # "BLOCK" =>
            /\ Gate!Authorized(Grants, r.principal, r.declared, r.requested)
            /\ run[w].judged = run[w].verdict
            /\ run[w].violations = {}

\* Every block is recorded with its reason: a gate's violation, or the
\* trifecta's own verdict (gate_violations).
BlocksAreExplained ==
    \A w \in Workers :
        Finalized(w) /\ run[w].verdict = "BLOCK" =>
            run[w].violations # {} \/ run[w].judged = "BLOCK"

InProgress == {run[w].id : w \in Workers}
Recorded == {requestOf[h] : h \in decisions \cap Ledger!Stored}
Unrecorded == (1 .. submitted) \ (InProgress \cup Recorded)

\* "writes both the audit ledger and the decision store - for every request"
\* (pipeline.py): a storage error costs at most the one request it hits, and a
\* crash the requests being processed.
EveryRequestRecorded ==
    Cardinality(Unrecorded) <= faults + crashes * Cardinality(Workers)

\* The same, but for the requests whose own content raised where nothing catches
\* it: an exception of the trifecta, an open breaker, a swarm or an overlapping
\* request costs none its record.
WellFormedRequestsRecorded ==
    Cardinality(Unrecorded) <= faults + crashes * Cardinality(Workers) + raised

\* Load is only shed while the breaker is tripped and its timeout runs, whatever
\* overlaps and however often the service restarts (breaker.allow).
Shed(w) == "circuit_breaker" \in run'[w].violations \ run[w].violations

ShedsOnlyWhenTripped ==
    [][\A w \in Workers :
         Shed(w) => failures = MaxFailures /\ elapsed < ResetTimeout]_vars

\* Every request comes to an end, answered or with an exception: an open
\* breaker, a swarm or a failing store never leaves its caller waiting
\* ("if any gate raises, the request is blocked").
EveryRequestEnds ==
    \A w \in Workers : []<> At(w, "idle")
=============================================================================
