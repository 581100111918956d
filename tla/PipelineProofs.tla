---------------------------- MODULE PipelineProofs ----------------------------
(***************************************************************************)
(* Theorems about Pipeline: what passes passed every gate, and a block has *)
(* its reason; no request goes unrecorded but for a counted cause; load is *)
(* shed only while the breaker is tripped.  For any number of overlapping  *)
(* requests, any grants, limits and rates, and any storage errors, crashes *)
(* and restarts.                                                           *)
(***************************************************************************)
EXTENDS Pipeline, FiniteSetTheorems, TLAPS

Verdicts == {"ALLOW", "OBSERVE", "BLOCK"}
Steps == {"idle", "submitted", "admitted", "cleared", "evaluating", "judged",
          "finalizing", "storing"}
Sources == {"circuit_breaker", "token_velocity", "zsp", "confused_deputy", "pipeline",
            "swarm_detector"}

\* What process() knows of its request at each step: from the gates on the
\* request is forced to a block exactly when a gate objected, the verdict
\* follows, and it stays that way until it is recorded.
Sound(r) ==
    /\ r.step \in {"cleared", "evaluating", "judged"} =>
         /\ r.forced = (r.violations # {})
         /\ r.violations = {} =>
              Gate!Authorized(Grants, r.request.principal, r.request.declared,
                              r.request.requested)
    /\ r.step = "judged" =>
         r.judged \in Verdicts /\ r.verdict = IF r.forced THEN "BLOCK" ELSE r.judged
    /\ r.step \in {"finalizing", "storing"} =>
         /\ r.verdict # "BLOCK" =>
              /\ Gate!Authorized(Grants, r.request.principal, r.request.declared,
                                 r.request.requested)
              /\ r.judged = r.verdict
              /\ r.violations = {}
         /\ r.verdict = "BLOCK" => r.violations # {} \/ r.judged = "BLOCK"

RunType ==
    [step : Steps, id : Int, request : Requests \cup {NoRequest},
     violations : SUBSET Sources, forced : BOOLEAN,
     judged : Verdicts \cup {"none"}, verdict : Verdicts \cup {"none"}]

RunInv ==
    /\ submitted \in Nat
    /\ run \in [Workers -> RunType]
    /\ \A w \in Workers : Sound(run[w])

LEMMA IdleIsSound == Idle \in RunType /\ Sound(Idle) /\ Idle.step = "idle"
  <1>1. Idle \in RunType
    BY DEF Idle, RunType, Steps, Sources, Verdicts
  <1>2. Sound(Idle)
    BY DEF Idle, Sound
  <1> QED BY <1>1, <1>2 DEF Idle

\* A request's locals as Submit makes them.
LEMMA SubmittedIsSound ==
  ASSUME NEW n \in Int, NEW r \in Requests
  PROVE  LET new == [Idle EXCEPT !.step = "submitted", !.id = n, !.request = r] IN
         new \in RunType /\ Sound(new)
  <1> DEFINE first == [Idle EXCEPT !.step = "submitted"]
             second == [first EXCEPT !.id = n]
             new == [second EXCEPT !.request = r]
  <1>1. first \in RunType /\ first.step = "submitted"
    BY IdleIsSound DEF RunType, Steps
  <1> HIDE DEF first
  <1>2. second \in RunType /\ second.step = "submitted"
    BY <1>1 DEF RunType
  <1> HIDE DEF second
  <1>3. new \in RunType /\ new.step = "submitted"
    BY <1>2 DEF RunType
  <1> HIDE DEF new
  <1>4. Sound(new)
    BY <1>3 DEF Sound
  <1> QED BY <1>3, <1>4 DEF first, second, new

\* One worker's locals change, to something sound.
LEMMA OneRunChanges ==
  ASSUME RunInv, submitted' \in Nat, NEW w \in Workers, NEW r \in RunType, Sound(r),
         run' = [run EXCEPT ![w] = r]
  PROVE  RunInv'
  BY DEF RunInv, Sound, RunType, Steps, Sources, Verdicts

LEMMA GatesAuthorize ==
  ASSUME NEW r, NEW overBudget \in BOOLEAN, Violations(r, overBudget) = {}
  PROVE  Gate!Authorized(Grants, r.principal, r.declared, r.requested)
  BY DEF Violations, Gate!Authorized

LEMMA InitRunInv == Init => RunInv
  BY IdleIsSound DEF Init, RunInv

LEMMA StepRunInv == RunInv /\ [Next]_vars => RunInv'
  <1> SUFFICES ASSUME RunInv, [Next]_vars PROVE RunInv'
    OBVIOUS
  <1> USE DEF RunInv
  <1>1. CASE Construct \/ Close \/ Tick \/ UNCHANGED vars
    <2>1. run' = run /\ submitted' = submitted
      BY <1>1 DEF Construct, Close, Tick, vars, ghostVars
    <2> QED BY <2>1 DEF Sound, RunType, Steps, Sources, Verdicts
  <1>2. CASE Crash
    <2>1. run' = [w \in Workers |-> Idle] /\ submitted' = submitted
      BY <1>2 DEF Crash, ghostVars
    <2> QED BY <2>1, IdleIsSound DEF Sound, RunType, Steps, Sources, Verdicts
  <1>3. ASSUME NEW w \in Workers, Submit(w) PROVE RunInv'
    <2>1. submitted' \in Nat
      BY <1>3 DEF Submit
    <2>2. PICK r \in Requests :
            run' = [run EXCEPT ![w] =
                      [Idle EXCEPT !.step = "submitted", !.id = submitted', !.request = r]]
      BY <1>3 DEF Submit
    <2> DEFINE n == submitted'
               new == [Idle EXCEPT !.step = "submitted", !.id = n, !.request = r]
    <2>3. n \in Int
      BY <2>1
    <2>4. run' = [run EXCEPT ![w] = new]
      BY <2>2
    <2> HIDE DEF n
    <2>5. new \in RunType /\ Sound(new)
      BY <2>3, SubmittedIsSound
    <2> HIDE DEF new
    <2> QED BY <2>1, <2>4, <2>5, OneRunChanges
  <1>4. ASSUME NEW w \in Workers, RequestStep(w) PROVE RunInv'
    <2>0. submitted' = submitted /\ run[w] \in RunType /\ Sound(run[w])
      <3>1. run[w] \in RunType /\ Sound(run[w])
        OBVIOUS
      <3>2. UNCHANGED ghostVars \/ Raises(w) \/ Issue(w)
        BY <1>4 DEF RequestStep, GuardBreaker, GuardRequest, CallTrifecta, CallRefused,
                    TrifectaReturns, TrifectaRaises, ObserveSwarm, Store
      <3>3. submitted' = submitted
        BY <3>2 DEF ghostVars, Raises, Issue
      <3> QED BY <3>1, <3>3
    \* a gate that ends the request at once: blocked, with its reason
    <2>1. ASSUME NEW source \in Sources, Blocked(w, source) PROVE RunInv'
      <3> DEFINE new == [run[w] EXCEPT !.step = "finalizing", !.verdict = "BLOCK",
                                       !.violations = @ \cup {source}]
      <3>1. run' = [run EXCEPT ![w] = new]
        BY <2>1, <2>0 DEF Blocked, RunType, Steps, Sources, Verdicts
      <3>2. new \in RunType /\ Sound(new)
        BY <2>0 DEF RunType, Steps, Sources, Verdicts, Sound
      <3> QED BY <2>0, <3>1, <3>2, OneRunChanges
    <2>2. CASE GuardBreaker(w)
      <3>1. CASE run' = [run EXCEPT ![w].step = "admitted"]
        <4> DEFINE new == [run[w] EXCEPT !.step = "admitted"]
        <4>1. run' = [run EXCEPT ![w] = new] /\ new \in RunType /\ Sound(new)
          BY <2>0, <3>1 DEF RunType, Steps, Sources, Verdicts, Sound
        <4> QED BY <2>0, <4>1, OneRunChanges
      <3>2. CASE Blocked(w, "circuit_breaker")
        BY <2>1, <3>2 DEF Sources
      <3> QED BY <2>2, <3>1, <3>2 DEF GuardBreaker
    <2>3. CASE Raises(w)
      BY <2>0, <2>3, IdleIsSound, OneRunChanges DEF Raises
    <2>4. CASE GuardRequest(w)
      <3>1. PICK overBudget \in BOOLEAN :
              LET found == Violations(run[w].request, overBudget) IN
              run' = [run EXCEPT ![w].step = "cleared", ![w].violations = found,
                                 ![w].forced = found # {}]
        BY <2>4 DEF GuardRequest
      <3> DEFINE found == Violations(run[w].request, overBudget)
                 new == [run[w] EXCEPT !.step = "cleared", !.violations = found,
                                       !.forced = found # {}]
      <3>2. found \in SUBSET Sources
        BY DEF Violations, Sources
      <3>3. found = {} => Gate!Authorized(Grants, run[w].request.principal,
                              run[w].request.declared, run[w].request.requested)
        BY GatesAuthorize
      <3> HIDE DEF found
      <3>4. run' = [run EXCEPT ![w] = new]
        BY <2>0, <3>1 DEF found, RunType, Steps, Sources, Verdicts
      <3>5. new \in RunType
        BY <2>0, <3>2 DEF RunType, Steps, Sources, Verdicts
      <3>6. /\ new.step = "cleared" /\ new.violations = found /\ new.forced = (found # {})
            /\ new.request = run[w].request
        BY <2>0 DEF RunType, Steps, Sources, Verdicts
      <3> HIDE DEF new
      <3>7. Sound(new)
        BY <3>3, <3>6 DEF Sound
      <3> QED BY <2>0, <3>4, <3>5, <3>7, OneRunChanges
    <2>5. CASE CallTrifecta(w)
      <3> DEFINE new == [run[w] EXCEPT !.step = "evaluating"]
      <3>1. run' = [run EXCEPT ![w] = new] /\ run[w].step = "cleared"
        BY <2>0, <2>5 DEF CallTrifecta, RunType, Steps, Sources, Verdicts, At
      <3>2. new \in RunType /\ Sound(new)
        BY <2>0, <3>1 DEF RunType, Steps, Sources, Verdicts, Sound
      <3> QED BY <2>0, <3>1, <3>2, OneRunChanges
    <2>6. CASE CallRefused(w)
      <3>1. Blocked(w, "circuit_breaker")
        BY <2>6 DEF CallRefused
      <3> QED BY <2>1, <3>1 DEF Sources
    <2>7. CASE TrifectaReturns(w)
      <3>1. PICK v \in Verdicts :
              run' = [run EXCEPT ![w].step = "judged", ![w].judged = v,
                                 ![w].verdict = IF run[w].forced THEN "BLOCK" ELSE v]
        BY <2>7 DEF TrifectaReturns, Verdicts
      <3> DEFINE new == [run[w] EXCEPT !.step = "judged", !.judged = v,
                                       !.verdict = IF run[w].forced THEN "BLOCK" ELSE v]
      <3>2. run' = [run EXCEPT ![w] = new] /\ run[w].step = "evaluating"
        BY <2>0, <2>7, <3>1 DEF TrifectaReturns, RunType, Steps, Sources, Verdicts, At
      <3>3. new \in RunType /\ Sound(new)
        BY <2>0, <3>2 DEF RunType, Steps, Sources, Sound, Verdicts
      <3> QED BY <2>0, <3>2, <3>3, OneRunChanges
    <2>8. CASE TrifectaRaises(w)
      <3>1. Blocked(w, "pipeline")
        BY <2>8 DEF TrifectaRaises
      <3> QED BY <2>1, <3>1 DEF Sources
    <2>9. CASE ObserveSwarm(w)
      <3>1. CASE run' = [run EXCEPT ![w].step = "finalizing"]
        <4> DEFINE new == [run[w] EXCEPT !.step = "finalizing"]
        <4>1. run' = [run EXCEPT ![w] = new] /\ run[w].step = "judged"
          BY <2>0, <2>9, <3>1 DEF ObserveSwarm, RunType, Steps, Sources, Verdicts, At
        <4>2. new \in RunType /\ Sound(new)
          BY <2>0, <4>1 DEF RunType, Steps, Sources, Sound, Verdicts
        <4> QED BY <2>0, <4>1, <4>2, OneRunChanges
      <3>2. CASE Blocked(w, "swarm_detector")
        BY <2>1, <3>2 DEF Sources
      <3> QED BY <2>9, <3>1, <3>2 DEF ObserveSwarm
    <2>10. CASE Issue(w)
      <3> DEFINE new == [run[w] EXCEPT !.step = "storing"]
      <3>1. run' = [run EXCEPT ![w] = new] /\ run[w].step = "finalizing"
        BY <2>0, <2>10 DEF Issue, RunType, Steps, Sources, Verdicts, At
      <3>2. new \in RunType /\ Sound(new)
        BY <2>0, <3>1 DEF RunType, Steps, Sources, Verdicts, Sound
      <3> QED BY <2>0, <3>1, <3>2, OneRunChanges
    <2>11. CASE Store(w)
      <3>1. CASE run' = run
        BY <2>0, <3>1 DEF Sound, RunType, Steps, Sources, Verdicts
      <3>2. CASE run' = [run EXCEPT ![w] = Idle]
        BY <2>0, <3>2, IdleIsSound, OneRunChanges
      <3> QED BY <2>11, <3>1, <3>2 DEF Store
    <2> QED BY <1>4, <2>2, <2>3, <2>4, <2>5, <2>6, <2>7, <2>8, <2>9, <2>10, <2>11
            DEF RequestStep
  <1> QED BY <1>1, <1>2, <1>3, <1>4 DEF Next

\* What is recorded and answered as not blocked passed every gate, whatever
\* other requests do to the breaker and the swarm detectors meanwhile.
THEOREM PassedEveryGate == Spec => []PassesEveryGate
  <1>1. RunInv => PassesEveryGate
    BY DEF RunInv, Sound, PassesEveryGate, Finalized
  <1> QED BY <1>1, InitRunInv, StepRunInv, PTL DEF Spec

\* Every block is recorded with its reason.
THEOREM BlocksAreAlwaysExplained == Spec => []BlocksAreExplained
  <1>1. RunInv => BlocksAreExplained
    BY DEF RunInv, Sound, BlocksAreExplained, Finalized
  <1> QED BY <1>1, InitRunInv, StepRunInv, PTL DEF Spec

-----------------------------------------------------------------------------
\* Every step of process() is a step of the ledger, or leaves it alone.
LEMMA LedgerStep == [Next]_vars => [Ledger!Next]_(Ledger!vars)
  <1> SUFFICES ASSUME [Next]_vars PROVE Ledger!Next \/ UNCHANGED ledgerVars
    BY DEF Ledger!vars, Ledger!stores, ledgerVars
  <1>1. CASE Construct
    BY <1>1 DEF Construct, Ledger!Next, Ledger!ProcessStep
  <1>2. CASE Close
    BY <1>2 DEF Close, Ledger!Next, Ledger!ProcessStep
  <1>3. CASE Crash
    BY <1>3 DEF Crash, Ledger!Next, Ledger!ProcessStep
  <1>4. CASE Tick
    BY <1>4 DEF Tick
  <1>5. ASSUME NEW w \in Workers, Submit(w) PROVE UNCHANGED ledgerVars
    BY <1>5 DEF Submit
  <1>6. ASSUME NEW w \in Workers, RequestStep(w)
        PROVE  Ledger!Next \/ UNCHANGED ledgerVars
    <2>1. CASE Issue(w)
      BY <2>1 DEF Issue, Ledger!Next, Ledger!WorkerStep
    <2>2. CASE Store(w)
      BY <2>2 DEF Store, Ledger!Next, Ledger!WorkerStep
    <2>3. CASE ~ Issue(w) /\ ~ Store(w)
      BY <1>6, <2>3 DEF RequestStep, GuardBreaker, Raises, GuardRequest, CallTrifecta,
                        CallRefused, TrifectaReturns, TrifectaRaises, ObserveSwarm
    <2> QED BY <2>1, <2>2, <2>3
  <1>7. CASE UNCHANGED vars
    BY <1>7 DEF vars
  <1> QED BY <1>1, <1>2, <1>3, <1>4, <1>5, <1>6, <1>7 DEF Next

\* The pipeline implements the ledger's module: what is proved of ReceiptLedger
\* for every way in which requests are finalized holds for the requests that the
\* gates let through to _finalize (AuditPipeline.process, _finalize).
THEOREM ImplementsReceiptLedger == Spec => Ledger!Spec
  <1>1. Init => Ledger!Init
    BY DEF Init
  <1> QED BY <1>1, LedgerStep, PTL DEF Spec, Ledger!Spec

-----------------------------------------------------------------------------
(* So the invariants proved of ReceiptLedger hold of the pipeline.  LP is    *)
(* the ledger again, with its theorems.                                      *)

LP == INSTANCE ReceiptLedgerProofs WITH
    Processes <- {Service}, Home <- [w \in Workers |-> Service],
    MaxReceipts <- MaxRequests, pc <- finalizing

LEMMA PartsHold == LP!HomeAssumption /\ LP!BoundsAssumption
  BY RequestsAssumption, PartsAssumption DEF LP!HomeAssumption, LP!BoundsAssumption

LEMMA SameLedgerInit == Ledger!Init => LP!Init
  BY DEF Ledger!Init, LP!Init, Ledger!NoReceipt, LP!NoReceipt, Ledger!GENESIS_HASH,
         LP!GENESIS_HASH, Ledger!HC!GENESIS_HASH, LP!HC!GENESIS_HASH

LEMMA SameLedgerStep == [Ledger!Next]_(Ledger!vars) => [LP!Next]_(LP!vars)
  BY DEF Ledger!Start, LP!Start, Ledger!Close, LP!Close, Ledger!Crash, LP!Crash,
         Ledger!DropTransactions, LP!DropTransactions, Ledger!ReadHead, LP!ReadHead,
         Ledger!WriteHead, LP!WriteHead, Ledger!AuditFree, LP!AuditFree, Ledger!AppendAudit,
         LP!AppendAudit, Ledger!Raise, LP!Raise, Ledger!AppendLocked, LP!AppendLocked,
         Ledger!InsertAuditFails, LP!InsertAuditFails, Ledger!CommitAuditFails,
         LP!CommitAuditFails, Ledger!DecisionsFree, LP!DecisionsFree, Ledger!RecordDecision,
         LP!RecordDecision, Ledger!RecordLocked, LP!RecordLocked, Ledger!InsertDecisionFails,
         LP!InsertDecisionFails, Ledger!CommitDecisionFails, LP!CommitDecisionFails,
         Ledger!Answer, LP!Answer, Ledger!ProcessStep, LP!ProcessStep, Ledger!WorkerStep,
         LP!WorkerStep, Ledger!Next, LP!Next, Ledger!stores, LP!stores, Ledger!vars, LP!vars,
         Ledger!AllIdle, LP!AllIdle, Ledger!WorkersOf, LP!WorkersOf, Ledger!TailHash,
         LP!TailHash, Ledger!NoReceipt, LP!NoReceipt, Ledger!GENESIS_HASH, LP!GENESIS_HASH,
         Ledger!HC!TailHash, LP!HC!TailHash, Ledger!HC!GENESIS_HASH, LP!HC!GENESIS_HASH

LedgerInv == LP!TypeOK /\ LP!StoreInv /\ LP!RowInv

\* The rows and the transactions of the stores keep what ReceiptLedger promises of
\* them, whatever the requests that reach _finalize went through.
THEOREM LedgerInvariant == Spec => []LedgerInv
  <1>1. LP!Spec => [](LP!TypeOK /\ LP!StoreInv)
    BY PartsHold, LP!StoreInvariant
  <1>2. LP!Spec => [](LP!TypeOK /\ LP!RowInv)
    BY PartsHold, LP!RowInvariant
  <1> QED BY <1>1, <1>2, SameLedgerInit, SameLedgerStep, ImplementsReceiptLedger, PTL
          DEF Ledger!Spec, LP!Spec, LedgerInv

\* The answer that a caller of process() holds is in both stores, every decision
\* is audited and no receipt is stored twice, whatever the gates, the breaker and
\* the detectors make of the requests.
THEOREM PipelineStoresAreSound ==
  Spec => [](Ledger!AnswersAreDurable /\ Ledger!DecisionsAreAudited /\ Ledger!NoRowTwice)
  <1>1. LP!StoreInv => Ledger!AnswersAreDurable /\ Ledger!DecisionsAreAudited
    BY DEF LP!StoreInv, Ledger!AnswersAreDurable, Ledger!DecisionsAreAudited,
           Ledger!Stored, LP!Stored, Ledger!HashesOf, LP!HashesOf,
           Ledger!HC!HashesOf, LP!HC!HashesOf
  <1>2. LP!RowInv => Ledger!NoRowTwice
    BY DEF LP!RowInv, LP!Distinct, Ledger!NoRowTwice
  <1> QED BY <1>1, <1>2, LedgerInvariant, PTL DEF LedgerInv

\* While nothing fails or dies the ledger that the pipeline leaves has no hole: a
\* row names a receipt that is stored or that some request is about to store.
THEOREM PipelineLinksResolve == Spec => []Ledger!LinksResolve
  <1>1. LP!Spec => []LP!LinksResolve
    BY PartsHold, LP!LinksAlwaysResolve
  <1>2. LP!LinksResolve => Ledger!LinksResolve
    BY DEF LP!LinksResolve, Ledger!LinksResolve, LP!MissingLinks, Ledger!MissingLinks,
           LP!InFlight, Ledger!InFlight, Ledger!Stored, LP!Stored, Ledger!HashesOf,
           LP!HashesOf, Ledger!HC!HashesOf, LP!HC!HashesOf, Ledger!GENESIS_HASH,
           LP!GENESIS_HASH, Ledger!HC!GENESIS_HASH, LP!HC!GENESIS_HASH
  <1> QED BY <1>1, <1>2, SameLedgerInit, SameLedgerStep, ImplementsReceiptLedger, PTL
          DEF Ledger!Spec, LP!Spec

\* A pipeline whose requests do not overlap implements the abstract hash chain
\* until the first storage error, through every gate, crash and restart.
THEOREM SerialPipelineImplementsHashChain ==
  ASSUME \A v, w \in Workers : v = w PROVE Spec => Ledger!ImplementsHashChain
  <1>1. LP!Spec => LP!ImplementsHashChain
    BY PartsHold, LP!SerialLedgerImplementsHashChain DEF LP!SerialService
  <1>2. LP!HC!Init => Ledger!HC!Init
    BY DEF LP!HC!Init, Ledger!HC!Init
  <1>3. [faults' = 0 => LP!HC!Next \/ UNCHANGED ledger]_(LP!vars)
          => [faults' = 0 => Ledger!HC!Next \/ UNCHANGED ledger]_(Ledger!vars)
    BY DEF LP!HC!Next, Ledger!HC!Next, LP!HC!Extend, Ledger!HC!Extend, LP!HC!TailHash,
           Ledger!HC!TailHash, LP!HC!HashesOf, Ledger!HC!HashesOf, LP!HC!GENESIS_HASH,
           Ledger!HC!GENESIS_HASH, LP!HC!ReceiptHashes, Ledger!HC!ReceiptHashes, LP!vars,
           Ledger!vars, LP!stores, Ledger!stores
  <1> QED BY <1>1, <1>2, <1>3, SameLedgerInit, SameLedgerStep, ImplementsReceiptLedger, PTL
          DEF Ledger!Spec, LP!Spec, LP!ImplementsHashChain, Ledger!ImplementsHashChain

-----------------------------------------------------------------------------
(* Which request is where.  A request that is being processed has a worker  *)
(* of its own; its worker's receipt is about it once a receipt is issued for *)
(* it, and before that no receipt is.                                        *)

Whereabouts(w) ==
    /\ run[w].id \in 0 .. submitted
    /\ run[w].step = "idle" <=> run[w].id = 0
    /\ run[w].step = "storing" <=> finalizing[w] # "idle"
    /\ run[w].step = "storing" =>
         rcpt[w].hash \in 1 .. issued /\ requestOf[rcpt[w].hash] = run[w].id
    /\ run[w].step # "storing" => \A n \in 1 .. issued : requestOf[n] # run[w].id

RequestInv ==
    /\ requestOf \in Seq(1 .. submitted) /\ Len(requestOf) = issued
    /\ \A w \in Workers : Whereabouts(w)
    /\ \A v, w \in Workers : run[v].id = run[w].id => v = w \/ run[v].id = 0

\* A step of a request before _finalize changes its locals alone.
Advances(w) ==
    /\ \E r : /\ run' = [run EXCEPT ![w] = r]
              /\ r.id = run[w].id /\ r.step \notin {"idle", "storing"}
    /\ run[w].step \notin {"idle", "storing"}
    /\ UNCHANGED <<ledgerVars, ghostVars>>

LEMMA RequestStepCases ==
  ASSUME RunInv, NEW w \in Workers, RequestStep(w)
  PROVE  Advances(w) \/ Raises(w) \/ Issue(w) \/ Store(w)
  <1>0. run[w] \in RunType /\ run \in [Workers -> RunType]
    BY DEF RunInv
  <1> USE DEF RunType, At
  <1>1. ASSUME NEW source, Blocked(w, source), UNCHANGED <<ledgerVars, ghostVars>>,
               run[w].step \notin {"idle", "storing"}
        PROVE  Advances(w)
    <2> DEFINE new == [run[w] EXCEPT !.step = "finalizing", !.verdict = "BLOCK",
                                     !.violations = @ \cup {source}]
    <2>1. run' = [run EXCEPT ![w] = new] /\ new.id = run[w].id /\ new.step = "finalizing"
      BY <1>0, <1>1 DEF Blocked
    <2> HIDE DEF new
    <2> QED BY <1>1, <2>1 DEF Advances
  <1>2. CASE GuardBreaker(w)
    <2>1. CASE run' = [run EXCEPT ![w].step = "admitted"]
      <3> DEFINE new == [run[w] EXCEPT !.step = "admitted"]
      <3>1. run' = [run EXCEPT ![w] = new] /\ new.id = run[w].id /\ new.step = "admitted"
        BY <1>0, <2>1
      <3> HIDE DEF new
      <3> QED BY <1>2, <3>1 DEF Advances, GuardBreaker
    <2> QED BY <1>1, <1>2, <2>1 DEF GuardBreaker
  <1>3. CASE GuardRequest(w)
    <2>1. PICK found : run' = [run EXCEPT ![w].step = "cleared", ![w].violations = found,
                                          ![w].forced = found # {}]
      BY <1>3 DEF GuardRequest
    <2> DEFINE new == [run[w] EXCEPT !.step = "cleared", !.violations = found,
                                     !.forced = found # {}]
    <2>2. run' = [run EXCEPT ![w] = new] /\ new.id = run[w].id /\ new.step = "cleared"
      BY <1>0, <2>1
    <2> HIDE DEF new
    <2> QED BY <1>3, <2>2 DEF Advances, GuardRequest
  <1>4. CASE CallTrifecta(w)
    <2> DEFINE new == [run[w] EXCEPT !.step = "evaluating"]
    <2>1. run' = [run EXCEPT ![w] = new] /\ new.id = run[w].id /\ new.step = "evaluating"
      BY <1>0, <1>4 DEF CallTrifecta
    <2> HIDE DEF new
    <2> QED BY <1>4, <2>1 DEF Advances, CallTrifecta
  <1>5. CASE TrifectaReturns(w)
    <2>1. PICK v : run' = [run EXCEPT ![w].step = "judged", ![w].judged = v,
                               ![w].verdict = IF run[w].forced THEN "BLOCK" ELSE v]
      BY <1>5 DEF TrifectaReturns
    <2> DEFINE new == [run[w] EXCEPT !.step = "judged", !.judged = v,
                                     !.verdict = IF run[w].forced THEN "BLOCK" ELSE v]
    <2>2. run' = [run EXCEPT ![w] = new] /\ new.id = run[w].id /\ new.step = "judged"
      BY <1>0, <2>1
    <2> HIDE DEF new
    <2> QED BY <1>5, <2>2 DEF Advances, TrifectaReturns
  <1>6. CASE CallRefused(w) \/ TrifectaRaises(w)
    BY <1>1, <1>6 DEF CallRefused, TrifectaRaises
  <1>7. CASE ObserveSwarm(w)
    <2>1. CASE run' = [run EXCEPT ![w].step = "finalizing"]
      <3> DEFINE new == [run[w] EXCEPT !.step = "finalizing"]
      <3>1. run' = [run EXCEPT ![w] = new] /\ new.id = run[w].id /\ new.step = "finalizing"
        BY <1>0, <2>1
      <3> HIDE DEF new
      <3> QED BY <1>7, <3>1 DEF Advances, ObserveSwarm
    <2> QED BY <1>1, <1>7, <2>1 DEF ObserveSwarm
  <1> QED BY <1>2, <1>3, <1>4, <1>5, <1>6, <1>7 DEF RequestStep

\* The elements of a sequence, and a sequence of a larger set.
LEMMA ElementsOfSeq ==
  ASSUME NEW S, NEW s \in Seq(S) PROVE \A n \in 1 .. Len(s) : s[n] \in S
  OBVIOUS

LEMMA WiderSeq ==
  ASSUME NEW S, NEW T, NEW s \in Seq(S), S \subseteq T PROVE s \in Seq(T)
  <1>1. Len(s) \in Nat /\ s \in [1 .. Len(s) -> S]
    OBVIOUS
  <1> DEFINE n == Len(s)
  <1>2. s \in [1 .. n -> T]
    BY <1>1
  <1> QED BY <1>1, <1>2

LEMMA InitRequestInv == Init => RequestInv
  <1> SUFFICES ASSUME Init PROVE RequestInv
    OBVIOUS
  <1>1. /\ \A w \in Workers : run[w].id = 0 /\ run[w].step = "idle" /\ finalizing[w] = "idle"
        /\ issued = 0 /\ submitted = 0 /\ requestOf = <<>>
    BY DEF Init, Ledger!Init, Idle
  <1>2. requestOf \in Seq(1 .. submitted) /\ Len(requestOf) = issued
    BY <1>1
  <1> QED BY <1>1, <1>2 DEF RequestInv, Whereabouts

LEMMA StepRequestInv == LedgerInv /\ RunInv /\ RequestInv /\ [Next]_vars => RequestInv'
  <1> SUFFICES ASSUME LedgerInv, RunInv, RequestInv, [Next]_vars PROVE RequestInv'
    OBVIOUS
  <1>0. /\ run \in [Workers -> RunType] /\ submitted \in Nat /\ issued \in Nat
        /\ finalizing \in [Workers -> LP!Steps] /\ DOMAIN rcpt = Workers
        /\ \A n \in 1 .. issued : requestOf[n] \in 1 .. submitted
    <2>1. issued \in Nat /\ finalizing \in [Workers -> LP!Steps] /\ DOMAIN rcpt = Workers
      BY PartsHold DEF LedgerInv, LP!TypeOK, LP!AnyHash, LP!BoundsAssumption
    <2>2. \A n \in 1 .. issued : requestOf[n] \in 1 .. submitted
      <3> DEFINE Known == 1 .. submitted
      <3>1. requestOf \in Seq(Known) /\ Len(requestOf) = issued
        BY DEF RequestInv
      <3> HIDE DEF Known
      <3>2. \A n \in 1 .. Len(requestOf) : requestOf[n] \in Known
        BY <3>1, ElementsOfSeq
      <3> QED BY <3>1, <3>2 DEF Known
    <2> QED BY <2>1, <2>2 DEF RunInv
  <1> USE DEF RequestInv
  <1>1. CASE Construct \/ Close \/ Tick \/ UNCHANGED vars
    <2>1. UNCHANGED <<run, requestOf, submitted, issued, rcpt, finalizing>>
      BY <1>1 DEF Construct, Close, Tick, Ledger!Start, Ledger!Close, vars, ghostVars, ledgerVars
    <2> QED BY <2>1 DEF Whereabouts
  <1>2. CASE Crash
    <2>1. /\ UNCHANGED <<requestOf, submitted, issued, rcpt>>
          /\ \A w \in Workers : run'[w].id = 0 /\ run'[w].step = "idle"
                                /\ finalizing'[w] = "idle"
      BY <1>2 DEF Crash, Ledger!Crash, ghostVars, Idle
    <2> QED BY <1>0, <2>1 DEF Whereabouts
  <1>3. ASSUME NEW w \in Workers, Submit(w) PROVE RequestInv'
    <2>1. PICK r \in Requests :
            run' = [run EXCEPT ![w] =
                      [Idle EXCEPT !.step = "submitted", !.id = submitted', !.request = r]]
      BY <1>3 DEF Submit
    <2> DEFINE new == [Idle EXCEPT !.step = "submitted", !.id = submitted', !.request = r]
    <2>2. run' = [run EXCEPT ![w] = new] /\ new.id = submitted' /\ new.step = "submitted"
      BY <2>1 DEF Idle
    <2> HIDE DEF new
    <2>3. /\ submitted' = submitted + 1 /\ run[w].step = "idle"
          /\ UNCHANGED <<requestOf, issued, rcpt, finalizing>>
      BY <1>3 DEF Submit, At, ledgerVars
    <2>4. requestOf \in Seq(1 .. submitted + 1)
      <3> DEFINE Known == 1 .. submitted
                 More == 1 .. submitted + 1
      <3>1. requestOf \in Seq(Known) /\ Known \subseteq More
        BY <1>0
      <3> HIDE DEF Known, More
      <3>2. requestOf \in Seq(More)
        BY <3>1, WiderSeq
      <3> QED BY <3>2 DEF More
    <2>5. ASSUME NEW v \in Workers PROVE Whereabouts(v)'
      <3>1. CASE v = w
        BY <1>0, <2>2, <2>3, <3>1 DEF Whereabouts
      <3>2. CASE v # w
        BY <1>0, <2>2, <2>3, <3>2 DEF Whereabouts
      <3> QED BY <3>1, <3>2
    <2>6. ASSUME NEW u \in Workers, NEW v \in Workers, run'[u].id = run'[v].id
          PROVE  u = v \/ run'[u].id = 0
      BY <1>0, <2>2, <2>3, <2>6 DEF Whereabouts
    <2> QED BY <2>3, <2>4, <2>5, <2>6
  <1>4. ASSUME NEW w \in Workers, Advances(w) PROVE RequestInv'
    <2>1. PICK r : /\ run' = [run EXCEPT ![w] = r]
                   /\ r.id = run[w].id /\ r.step \notin {"idle", "storing"}
      BY <1>4 DEF Advances
    <2>2. /\ run[w].step \notin {"idle", "storing"}
          /\ UNCHANGED <<requestOf, submitted, issued, rcpt, finalizing>>
      BY <1>4 DEF Advances, ledgerVars, ghostVars
    <2>3. ASSUME NEW v \in Workers PROVE run'[v].id = run[v].id /\ Whereabouts(v)'
      BY <1>0, <2>1, <2>2 DEF Whereabouts
    <2> QED BY <2>2, <2>3
  \* the request ends: its worker is idle, and finalizes nothing
  <1>5. ASSUME NEW w \in Workers, run' = [run EXCEPT ![w] = Idle], finalizing'[w] = "idle",
               \A v \in Workers \ {w} : finalizing'[v] = finalizing[v],
               UNCHANGED <<requestOf, submitted, issued, rcpt>>
        PROVE  RequestInv'
    <2>1. run'[w].id = 0 /\ run'[w].step = "idle"
      BY <1>0, <1>5 DEF Idle
    <2>2. ASSUME NEW v \in Workers, v # w
          PROVE  run'[v] = run[v] /\ finalizing'[v] = finalizing[v]
      BY <1>0, <1>5, <2>2
    <2>3. ASSUME NEW v \in Workers PROVE Whereabouts(v)'
      <3>1. CASE v = w
        BY <1>0, <1>5, <2>1, <3>1 DEF Whereabouts
      <3>2. CASE v # w
        BY <1>5, <2>2, <3>2 DEF Whereabouts
      <3> QED BY <3>1, <3>2
    <2>4. ASSUME NEW u \in Workers, NEW v \in Workers, run'[u].id = run'[v].id
          PROVE  u = v \/ run'[u].id = 0
      BY <2>1, <2>2, <2>4
    <2> QED BY <1>5, <2>3, <2>4
  <1>6. ASSUME NEW w \in Workers, Raises(w) PROVE RequestInv'
    <2>1. run[w].step \in {"submitted", "admitted", "judged", "finalizing"}
      BY <1>6 DEF Raises, RaisesAt
    <2>2. finalizing[w] = "idle"
      BY <2>1 DEF Whereabouts
    <2> QED BY <1>5, <1>6, <2>2 DEF Raises, ledgerVars
  <1>7. ASSUME NEW w \in Workers, Issue(w) PROVE RequestInv'
    <2> DEFINE new == [run[w] EXCEPT !.step = "storing"]
               id == run[w].id
               k == issued + 1
    <2>1. run' = [run EXCEPT ![w] = new] /\ new.id = id /\ new.step = "storing"
      BY <1>0, <1>7 DEF Issue, RunType
    <2> HIDE DEF new
    <2>2. /\ run[w].step = "finalizing" /\ id \in 1 .. submitted
          /\ \A n \in 1 .. issued : requestOf[n] # id
      BY <1>0, <1>7 DEF Issue, At, Whereabouts
    <2>3. /\ issued' = k /\ submitted' = submitted
          /\ requestOf' = Append(requestOf, id)
          /\ rcpt'[w].hash = k /\ \A v \in Workers \ {w} : rcpt'[v] = rcpt[v]
          /\ finalizing'[w] = "signed"
          /\ \A v \in Workers \ {w} : finalizing'[v] = finalizing[v]
      BY <1>0, <1>7 DEF Issue, Ledger!ReadHead
    <2>4. /\ requestOf' \in Seq(1 .. submitted) /\ Len(requestOf') = k
          /\ requestOf'[k] = id /\ \A n \in 1 .. issued : requestOf'[n] = requestOf[n]
      BY <1>0, <2>2, <2>3
    <2>5. ASSUME NEW v \in Workers PROVE run'[v].id = run[v].id
      BY <1>0, <2>1
    <2>6. \A n \in 1 .. k : n \in 1 .. issued \/ n = k
      BY <1>0
    <2>7. k \in 1 .. k /\ \A n \in 1 .. issued : n \in 1 .. k
      BY <1>0
    <2>8. ASSUME NEW v \in Workers PROVE Whereabouts(v)'
      <3>1. CASE v = w
        <4>1. run'[v].step = "storing" /\ run'[v].id = id
          BY <1>0, <2>1, <3>1
        <4> HIDE DEF id, k
        <4>2. id \in 0 .. submitted /\ id # 0
          BY <1>0, <2>2
        <4> QED BY <4>1, <4>2, <2>3, <2>4, <2>7, <3>1 DEF Whereabouts
      <3>2. CASE v # w
        <4>1. run'[v] = run[v] /\ finalizing'[v] = finalizing[v] /\ rcpt'[v] = rcpt[v]
          BY <1>0, <2>1, <2>3, <3>2
        <4>2. id # run[v].id
          BY <2>2, <3>2
        <4> HIDE DEF id, k
        <4>3. CASE run[v].step = "storing"
          BY <4>1, <4>3, <2>3, <2>4, <2>7 DEF Whereabouts
        <4>4. CASE run[v].step # "storing"
          <5>1. \A n \in 1 .. k : requestOf'[n] # run[v].id
            BY <4>2, <4>4, <2>4, <2>6 DEF Whereabouts
          <5>2. issued' = k /\ submitted' = submitted
            BY <2>3
          <5> QED BY <4>1, <4>4, <5>1, <5>2 DEF Whereabouts
        <4> QED BY <4>3, <4>4
      <3> QED BY <3>1, <3>2
    <2> QED BY <2>3, <2>4, <2>5, <2>8
  <1>8. ASSUME NEW w \in Workers, Store(w) PROVE RequestInv'
    <2>1. /\ UNCHANGED <<requestOf, submitted, issued, rcpt>>
          /\ \A v \in Workers \ {w} : finalizing'[v] = finalizing[v]
      BY <1>0, <1>8 DEF Store, ghostVars, Ledger!WriteHead, Ledger!AppendAudit, Ledger!Raise,
           Ledger!InsertAuditFails, Ledger!CommitAuditFails, Ledger!RecordDecision,
           Ledger!InsertDecisionFails, Ledger!CommitDecisionFails, Ledger!Answer
    <2>2. CASE finalizing'[w] = "idle"
      BY <1>5, <1>8, <2>1, <2>2 DEF Store
    <2>3. CASE finalizing'[w] # "idle"
      <3>1. run' = run /\ finalizing[w] # "idle"
        BY <1>8, <2>3 DEF Store, At, Whereabouts
      <3>2. \A v \in Workers : finalizing'[v] # "idle" <=> finalizing[v] # "idle"
        BY <2>1, <2>3, <3>1
      <3> QED BY <2>1, <3>1, <3>2 DEF Whereabouts
    <2> QED BY <2>2, <2>3
  <1> QED BY <1>1, <1>2, <1>3, <1>4, <1>6, <1>7, <1>8, RequestStepCases DEF Next

-----------------------------------------------------------------------------
(* How many requests have ended and are not recorded in both stores.         *)

Ended == (1 .. submitted) \ InProgress

LostInv ==
    /\ raised \in Nat /\ raised <= Cardinality(Ended)
    /\ Cardinality(Unrecorded) <= faults + crashes * Cardinality(Workers) + raised

LEMMA SomeOfTheFirst ==
  ASSUME NEW n \in Nat, NEW S \in SUBSET (1 .. n)
  PROVE  IsFiniteSet(S) /\ Cardinality(S) \in Nat /\ Cardinality(S) <= n
  <1>1. IsFiniteSet(1 .. n) /\ Cardinality(1 .. n) = n
    BY FS_Interval
  <1> QED BY <1>1, FS_Subset, FS_CardinalityType

LEMMA FewInProgress ==
  /\ IsFiniteSet(InProgress) /\ Cardinality(InProgress) \in Nat
  /\ Cardinality(Workers) \in Nat /\ Cardinality(InProgress) <= Cardinality(Workers)
  <1> DEFINE f == [w \in Workers |-> run[w].id]
  <1>1. f \in Surjection(Workers, InProgress)
    BY DEF Surjection, InProgress
  <1>2. IsFiniteSet(Workers)
    BY PartsAssumption
  <1> HIDE DEF f
  <1>3. IsFiniteSet(InProgress) /\ Cardinality(InProgress) <= Cardinality(Workers)
    BY <1>1, <1>2, FS_Surjection
  <1> QED BY <1>2, <1>3, FS_CardinalityType

\* A receipt in both stores stays there, and stays about the same request.
LEMMA RecordedStays ==
  ASSUME LedgerInv, RequestInv, [Next]_vars PROVE Recorded \subseteq Recorded'
  <1>1. decisions \subseteq decisions' /\ LP!Stored \subseteq LP!Stored'
    BY PartsHold, LedgerStep, SameLedgerStep, LP!CommittedStays DEF LedgerInv
  <1>2. Ledger!Stored = LP!Stored /\ Ledger!Stored' = LP!Stored'
    BY DEF Ledger!Stored, LP!Stored, Ledger!HashesOf, LP!HashesOf,
           Ledger!HC!HashesOf, LP!HC!HashesOf
  <1>3. LP!Stored \subseteq 1 .. issued
    BY DEF LedgerInv, LP!RowInv, LP!Stored
  <1>4. UNCHANGED requestOf \/ \E x : requestOf' = Append(requestOf, x)
    BY DEF Next, RequestStep, Construct, Close, Crash, Tick, Submit, GuardBreaker, Raises,
           GuardRequest, CallTrifecta, CallRefused, TrifectaReturns, TrifectaRaises,
           ObserveSwarm, Issue, Store, vars, ghostVars
  <1>5. \A n \in 1 .. issued : requestOf'[n] = requestOf[n]
    <2>1. Len(requestOf) = issued /\ requestOf \in Seq(1 .. submitted)
      BY DEF RequestInv
    <2> QED BY <2>1, <1>4
  <1> QED BY <1>1, <1>2, <1>3, <1>5 DEF Recorded

LEMMA InitLostInv == Init => LostInv
  <1> SUFFICES ASSUME Init PROVE LostInv
    OBVIOUS
  <1>1. submitted = 0 /\ raised = 0 /\ faults = 0 /\ crashes = 0
    BY DEF Init, Ledger!Init
  <1>2. Ended = {} /\ Unrecorded = {}
    BY <1>1 DEF Ended, Unrecorded
  <1>3. Cardinality(Ended) = 0 /\ Cardinality(Unrecorded) = 0
    BY <1>2, FS_EmptySet
  <1> QED BY <1>1, <1>3, FewInProgress DEF LostInv

\* Products of a growing factor, and a bound to which a lost request adds.
LEMMA OneMoreTimes ==
  ASSUME NEW c \in Nat, NEW k \in Nat PROVE (c + 1) * k = c * k + k /\ c * k \in Nat
  OBVIOUS

\* The unrecorded requests grow at most by the requests of X.
LEMMA LostAtMost ==
  ASSUME submitted \in Nat, submitted' \in Nat, NEW X, IsFiniteSet(X),
         Unrecorded' \subseteq Unrecorded \cup X
  PROVE  Cardinality(Unrecorded') <= Cardinality(Unrecorded) + Cardinality(X)
  <1> DEFINE U == Unrecorded
             V == Unrecorded'
  <1>1. IsFiniteSet(U)
    BY SomeOfTheFirst DEF Unrecorded
  <1>2. V \in SUBSET (U \cup X)
    OBVIOUS
  <1> HIDE DEF U, V
  <1>3. /\ IsFiniteSet(U \cup X)
        /\ Cardinality(U \cup X) = Cardinality(U) + Cardinality(X) - Cardinality(U \cap X)
    BY <1>1, FS_Union
  <1>4. Cardinality(V) <= Cardinality(U \cup X)
    BY <1>2, <1>3, FS_Subset
  <1>5. IsFiniteSet(U \cap X)
    BY <1>1, FS_Subset
  <1>6. /\ Cardinality(U) \in Nat /\ Cardinality(X) \in Nat
        /\ Cardinality(U \cap X) \in Nat /\ Cardinality(U \cup X) \in Nat
    BY <1>1, <1>3, <1>5, FS_CardinalityType
  <1>7. IsFiniteSet(V)
    BY <1>2, <1>3, FS_Subset
  <1>8. Cardinality(V) \in Nat
    BY <1>7, FS_CardinalityType
  <1>9. Cardinality(V) <= Cardinality(U) + Cardinality(X)
    BY <1>3, <1>4, <1>6, <1>8
  <1> QED BY <1>9 DEF U, V

\* A request that has ended is never in progress again.
LEMMA EndedStays ==
  ASSUME LedgerInv, RunInv, RequestInv, [Next]_vars PROVE Ended \subseteq Ended'
  <1>0. run \in [Workers -> RunType] /\ submitted \in Nat
    BY DEF RunInv
  <1>1. CASE Construct \/ Close \/ Tick \/ UNCHANGED vars
    BY <1>1 DEF Construct, Close, Tick, vars, ghostVars, Ended, InProgress
  <1>2. CASE Crash
    BY <1>2 DEF Crash, ghostVars, Ended, InProgress, Idle
  <1>3. ASSUME NEW w \in Workers, NEW r, run' = [run EXCEPT ![w] = r],
               r.id = run[w].id \/ r.id = 0, submitted' = submitted
        PROVE  Ended \subseteq Ended'
    <2>1. \A v \in Workers : run'[v].id = run[v].id \/ run'[v].id = 0
      BY <1>0, <1>3
    <2> QED BY <1>3, <2>1 DEF Ended, InProgress
  <1>4. ASSUME NEW w \in Workers, Submit(w) PROVE Ended \subseteq Ended'
    <2>1. submitted' = submitted + 1
      BY <1>4 DEF Submit
    <2>2. \A v \in Workers : run'[v].id = run[v].id \/ run'[v].id = submitted + 1
      BY <1>0, <1>4 DEF Submit, Idle
    <2> QED BY <1>0, <2>1, <2>2 DEF Ended, InProgress
  <1>5. ASSUME NEW w \in Workers, Advances(w) PROVE Ended \subseteq Ended'
    BY <1>3, <1>5 DEF Advances, ghostVars
  <1>6. ASSUME NEW w \in Workers, Raises(w) PROVE Ended \subseteq Ended'
    <2>1. Idle.id = 0
      BY DEF Idle
    <2> QED BY <1>3, <1>6, <2>1 DEF Raises
  <1>7. ASSUME NEW w \in Workers, Issue(w) PROVE Ended \subseteq Ended'
    <2> DEFINE new == [run[w] EXCEPT !.step = "storing"]
    <2>1. run' = [run EXCEPT ![w] = new] /\ new.id = run[w].id
      BY <1>0, <1>7 DEF Issue, RunType
    <2> HIDE DEF new
    <2> QED BY <1>3, <1>7, <2>1 DEF Issue
  <1>8. ASSUME NEW w \in Workers, Store(w) PROVE Ended \subseteq Ended'
    <2>1. CASE run' = run
      BY <1>8, <2>1 DEF Store, ghostVars, Ended, InProgress
    <2>2. CASE run' = [run EXCEPT ![w] = Idle]
      <3>1. Idle.id = 0
        BY DEF Idle
      <3> QED BY <1>3, <1>8, <2>2, <3>1 DEF Store, ghostVars
    <2> QED BY <1>8, <2>1, <2>2 DEF Store
  <1> QED BY <1>1, <1>2, <1>4, <1>5, <1>6, <1>7, <1>8, RequestStepCases DEF Next

LEMMA StepLostInv ==
  LedgerInv /\ RunInv /\ RequestInv /\ LostInv /\ [Next]_vars => LostInv'
  <1> SUFFICES ASSUME LedgerInv, RunInv, RequestInv, LostInv, [Next]_vars PROVE LostInv'
    OBVIOUS
  <1> DEFINE K == Cardinality(Workers)
             U == Unrecorded
             V == Unrecorded'
  <1>0. /\ run \in [Workers -> RunType] /\ submitted \in Nat /\ submitted' \in Nat
        /\ faults \in Nat /\ crashes \in Nat /\ raised \in Nat
        /\ Cardinality(Workers) \in Nat
    BY StepRunInv, FewInProgress, PartsAssumption
       DEF RunInv, LedgerInv, LP!TypeOK, LostInv
  <1>1. Ended \subseteq Ended' /\ Recorded \subseteq Recorded'
    BY EndedStays, RecordedStays
  \* the number of requests that raised
  <1>2. raised' \in Nat /\ raised' <= Cardinality(Ended')
    <2>1. /\ IsFiniteSet(Ended) /\ IsFiniteSet(Ended')
          /\ Cardinality(Ended) \in Nat /\ Cardinality(Ended') \in Nat
      <3> DEFINE E == Ended
                 F == Ended'
      <3>1. E \in SUBSET (1 .. submitted) /\ F \in SUBSET (1 .. submitted')
        BY DEF Ended
      <3> HIDE DEF E, F
      <3>2. IsFiniteSet(E) /\ IsFiniteSet(F) /\ Cardinality(E) \in Nat /\ Cardinality(F) \in Nat
        BY <1>0, <3>1, SomeOfTheFirst
      <3> QED BY <3>2 DEF E, F
    <2>2. CASE raised' = raised
      <3>1. Cardinality(Ended) <= Cardinality(Ended')
        BY <1>1, <2>1, FS_Subset
      <3> QED BY <1>0, <2>1, <2>2, <3>1 DEF LostInv
    <2>3. ASSUME NEW w \in Workers, Raises(w)
          PROVE  raised' \in Nat /\ raised' <= Cardinality(Ended')
      <3> DEFINE id == run[w].id
                 more == Ended \cup {id}
      <3>1. id \notin Ended /\ id \in 1 .. submitted
        BY <1>0, <2>3 DEF Raises, RaisesAt, Ended, InProgress, RequestInv, Whereabouts
      <3>2. id \in Ended'
        <4>1. \A v \in Workers : run'[v].id # id
          <5>1. run'[w].id = 0 /\ \A v \in Workers \ {w} : run'[v] = run[v]
            BY <1>0, <2>3 DEF Raises, Idle
          <5> QED BY <3>1, <5>1 DEF RequestInv
        <4>2. submitted' = submitted
          BY <2>3 DEF Raises
        <4> HIDE DEF id
        <4> QED BY <3>1, <4>1, <4>2 DEF Ended, InProgress
      <3> HIDE DEF id
      <3>3. Cardinality(more) = Cardinality(Ended) + 1
        BY <2>1, <3>1, FS_AddElement
      <3>4. more \in SUBSET Ended'
        BY <1>1, <3>2
      <3>5. Cardinality(more) <= Cardinality(Ended')
        BY <2>1, <3>4, FS_Subset
      <3>6. raised' = raised + 1
        BY <2>3 DEF Raises
      <3> QED BY <1>0, <2>1, <3>3, <3>5, <3>6 DEF LostInv
    <2> QED
      BY <2>2, <2>3
      DEF Next, RequestStep, Construct, Close, Crash, Tick, Submit, GuardBreaker, GuardRequest,
          CallTrifecta, CallRefused, TrifectaReturns, TrifectaRaises, ObserveSwarm, Issue,
          Store, vars, ghostVars
  <1>3. Cardinality(U) \in Nat /\ Cardinality(V) \in Nat
    <2>1. U \in SUBSET (1 .. submitted) /\ V \in SUBSET (1 .. submitted')
      BY DEF Unrecorded
    <2> HIDE DEF U, V
    <2> QED BY <1>0, <2>1, SomeOfTheFirst
  \* a step that loses no request
  <1>4. ASSUME V \subseteq U, faults' = faults, crashes' = crashes, raised' = raised
        PROVE  LostInv'
    <2>1. Cardinality(V) <= Cardinality(U)
      <3>1. IsFiniteSet(U)
        BY <1>0, SomeOfTheFirst DEF Unrecorded
      <3> HIDE DEF U, V
      <3> QED BY <1>4, <3>1, FS_Subset
    <2>2. crashes * K \in Nat
      BY <1>0, OneMoreTimes
    <2> DEFINE product == crashes * K
    <2>3. Cardinality(U) <= faults + product + raised
      BY DEF LostInv
    <2> HIDE DEF product
    <2>4. Cardinality(V) <= faults + product + raised
      <3> DEFINE a == Cardinality(V)
                 b == Cardinality(U)
      <3>1. a \in Nat /\ b \in Nat /\ product \in Nat /\ a <= b
        BY <1>3, <2>1, <2>2 DEF product
      <3> HIDE DEF a, b
      <3>2. a <= faults + product + raised
        BY <1>0, <2>3, <3>1 DEF b
      <3> QED BY <3>2 DEF a
    <2> QED BY <1>2, <1>4, <2>4 DEF LostInv, product
  \* a step that loses one
  <1>5. ASSUME NEW x, V \subseteq U \cup {x}, crashes' = crashes,
               \/ faults' = faults + 1 /\ raised' = raised
               \/ faults' = faults /\ raised' = raised + 1
        PROVE  LostInv'
    <2>1. Cardinality(V) <= Cardinality(U) + 1
      <3>1. IsFiniteSet({x}) /\ Cardinality({x}) = 1
        BY FS_Singleton
      <3> QED BY <1>0, <1>5, <3>1, LostAtMost
    <2>2. crashes * K \in Nat
      BY <1>0, OneMoreTimes
    <2> DEFINE product == crashes * K
               a == Cardinality(V)
               b == Cardinality(U)
    <2>3. a \in Nat /\ b \in Nat /\ product \in Nat /\ a <= b + 1
      BY <1>3, <2>1, <2>2
    <2>4. b <= faults + product + raised
      BY DEF LostInv
    <2> HIDE DEF product, a, b
    <2>5. a <= faults' + product + raised'
      BY <1>0, <1>5, <2>3, <2>4
    <2> QED BY <1>2, <1>5, <2>5 DEF LostInv, product, a
  <1>6. CASE Crash
    <2>1. V \subseteq U \cup InProgress
      BY <1>1, <1>6 DEF Crash, ghostVars, Unrecorded
    <2>2. Cardinality(V) <= Cardinality(U) + Cardinality(InProgress)
      BY <1>0, <2>1, FewInProgress, LostAtMost
    <2> DEFINE product == crashes * K
               next == crashes' * K
               a == Cardinality(V)
               b == Cardinality(U)
               c == Cardinality(InProgress)
    <2>3. /\ a \in Nat /\ b \in Nat /\ c \in Nat /\ K \in Nat
          /\ a <= b + c /\ c <= K
      BY <1>3, <2>2, FewInProgress
    <2>4. crashes' = crashes + 1 /\ faults' = faults /\ raised' = raised
      BY <1>6 DEF Crash, Ledger!Crash, ghostVars
    <2>5. next = product + K /\ product \in Nat
      BY <1>0, <2>4, OneMoreTimes
    <2>6. b <= faults + product + raised
      BY DEF LostInv
    <2> HIDE DEF product, next, a, b, c, K
    <2>7. a <= faults + next + raised
      BY <1>0, <2>3, <2>5, <2>6
    <2> QED BY <1>2, <2>4, <2>7 DEF LostInv, next, a, K
  <1>7. CASE Construct \/ Close \/ Tick \/ UNCHANGED vars
    <2>1. UNCHANGED <<run, submitted, raised, faults, crashes>>
      BY <1>7 DEF Construct, Close, Tick, Ledger!Start, Ledger!Close, vars, ghostVars, ledgerVars
    <2>2. V \subseteq U
      BY <1>1, <2>1 DEF Unrecorded, InProgress
    <2> QED BY <1>4, <2>1, <2>2
  <1>8. ASSUME NEW w \in Workers, Submit(w) PROVE LostInv'
    <2>1. submitted' = submitted + 1 /\ UNCHANGED <<raised, faults, crashes>>
      BY <1>8 DEF Submit, ledgerVars
    <2>2. run[w].id = 0 /\ run'[w].id = submitted + 1
          /\ \A v \in Workers \ {w} : run'[v] = run[v]
      BY <1>0, <1>8 DEF Submit, Idle, At, RequestInv, Whereabouts
    <2>3. V \subseteq U
      <3> SUFFICES ASSUME NEW x \in V PROVE x \in U
        OBVIOUS
      <3>1. x \in 1 .. submitted + 1 /\ x \notin Recorded /\ \A v \in Workers : run'[v].id # x
        BY <1>1, <2>1 DEF Unrecorded, InProgress
      <3>2. x \in 1 .. submitted /\ x # 0
        BY <1>0, <2>2, <3>1
      <3> QED BY <2>2, <3>1, <3>2 DEF Unrecorded, InProgress
    <2> QED BY <1>4, <2>1, <2>3
  <1>9. ASSUME NEW w \in Workers, NEW r, run' = [run EXCEPT ![w] = r],
               r.id = run[w].id, UNCHANGED <<submitted, raised, faults, crashes>>
        PROVE  LostInv'
    <2>1. \A v \in Workers : run'[v].id = run[v].id
      BY <1>0, <1>9
    <2>2. V \subseteq U
      BY <1>1, <1>9, <2>1 DEF Unrecorded, InProgress
    <2> QED BY <1>4, <1>9, <2>2
  <1>10. ASSUME NEW w \in Workers, Advances(w) PROVE LostInv'
    BY <1>9, <1>10 DEF Advances, ghostVars, ledgerVars
  <1>11. ASSUME NEW w \in Workers, Issue(w) PROVE LostInv'
    <2> DEFINE new == [run[w] EXCEPT !.step = "storing"]
    <2>1. run' = [run EXCEPT ![w] = new] /\ new.id = run[w].id
      BY <1>0, <1>11 DEF Issue, RunType
    <2> HIDE DEF new
    <2> QED BY <1>9, <1>11, <2>1 DEF Issue, Ledger!ReadHead
  \* a request that ends is all that a step of it can lose
  <1>12. ASSUME NEW w \in Workers, run' = [run EXCEPT ![w] = Idle], submitted' = submitted
         PROVE  V \subseteq U \cup {run[w].id}
    <2>1. \A v \in Workers \ {w} : run'[v] = run[v]
      BY <1>0, <1>12
    <2> SUFFICES ASSUME NEW x \in V, x # run[w].id PROVE x \in U
      OBVIOUS
    <2>2. x \in 1 .. submitted /\ x \notin Recorded /\ \A v \in Workers : run'[v].id # x
      BY <1>1, <1>12 DEF Unrecorded, InProgress
    <2> QED BY <2>1, <2>2 DEF Unrecorded, InProgress
  <1>13. ASSUME NEW w \in Workers, Raises(w) PROVE LostInv'
    <2>1. V \subseteq U \cup {run[w].id}
      BY <1>12, <1>13 DEF Raises
    <2> QED BY <1>5, <1>13, <2>1 DEF Raises, ledgerVars
  <1>14. ASSUME NEW w \in Workers, Store(w) PROVE LostInv'
    <2>1. submitted' = submitted /\ raised' = raised /\ crashes' = crashes
      BY <1>14 DEF Store, ghostVars, Ledger!WriteHead, Ledger!AppendAudit, Ledger!Raise,
           Ledger!InsertAuditFails, Ledger!CommitAuditFails, Ledger!RecordDecision,
           Ledger!InsertDecisionFails, Ledger!CommitDecisionFails, Ledger!Answer
    \* _finalize returns: the request's receipt is in both stores
    <2>2. CASE Ledger!Answer(w)
      <3>1. finalizing[w] = "recorded" /\ finalizing'[w] = "idle" /\ faults' = faults
            /\ UNCHANGED <<decisions, ledger, requestOf>>
        BY <2>2, <1>14 DEF Ledger!Answer, Ledger!stores, Store, ghostVars, LedgerInv, LP!TypeOK
      <3>2. run' = [run EXCEPT ![w] = Idle]
        BY <1>14, <3>1 DEF Store
      <3>3. rcpt[w].hash \in decisions /\ rcpt[w].hash \in LP!Stored
        BY <3>1 DEF LedgerInv, LP!StoreInv
      <3>4. LP!Stored = Ledger!Stored
        BY DEF Ledger!Stored, LP!Stored, Ledger!HashesOf, LP!HashesOf,
               Ledger!HC!HashesOf, LP!HC!HashesOf
      <3>5. requestOf[rcpt[w].hash] = run[w].id
        BY <1>14 DEF Store, At, RequestInv, Whereabouts
      <3>6. run[w].id \in Recorded
        BY <3>3, <3>4, <3>5 DEF Recorded
      <3>7. V \subseteq U \cup {run[w].id}
        BY <1>12, <2>1, <3>2
      <3>8. run[w].id \notin V
        BY <1>1, <3>6 DEF Unrecorded
      <3>9. V \subseteq U
        BY <3>7, <3>8
      <3> QED BY <1>4, <2>1, <3>1, <3>9
    <2>3. CASE finalizing'[w] = "idle" /\ faults' = faults + 1
      <3>1. V \subseteq U \cup {run[w].id}
        BY <1>12, <1>14, <2>1, <2>3 DEF Store
      <3> QED BY <1>5, <2>1, <2>3, <3>1
    <2>4. CASE finalizing'[w] # "idle" /\ faults' = faults
      <3>1. run' = run
        BY <1>14, <2>4 DEF Store
      <3>2. V \subseteq U
        BY <1>1, <2>1, <3>1 DEF Unrecorded, InProgress
      <3> QED BY <1>4, <2>1, <2>4, <3>2
    <2>5. \/ finalizing'[w] = "idle" /\ faults' = faults + 1
          \/ finalizing'[w] # "idle" /\ faults' = faults
          \/ Ledger!Answer(w)
      <3>1. finalizing \in [Workers -> LP!Steps]
        BY DEF LedgerInv, LP!TypeOK
      <3> QED
        BY <1>14, <3>1
        DEF Store, Ledger!WriteHead, Ledger!AppendAudit, Ledger!Raise,
            Ledger!InsertAuditFails, Ledger!CommitAuditFails, Ledger!RecordDecision,
            Ledger!InsertDecisionFails, Ledger!CommitDecisionFails
    <2> QED BY <2>2, <2>3, <2>4, <2>5
  <1> QED BY <1>6, <1>7, <1>8, <1>10, <1>11, <1>13, <1>14, RequestStepCases DEF Next

\* The inductive invariant of the requests: their locals, their whereabouts and
\* how many of them are lost, over the ledger's own invariant.
THEOREM RequestInvariant == Spec => [](RunInv /\ RequestInv /\ LostInv)
  <1>1. Init => RunInv /\ RequestInv /\ LostInv
    BY InitRunInv, InitRequestInv, InitLostInv
  <1>2. LedgerInv /\ (RunInv /\ RequestInv /\ LostInv) /\ [Next]_vars
          => (RunInv /\ RequestInv /\ LostInv)'
    BY StepRunInv, StepRequestInv, StepLostInv
  <1> QED BY <1>1, <1>2, LedgerInvariant, PTL DEF Spec

\* Whatever the breaker, the trifecta and overlapping requests do, every request that
\* ended is recorded, but one whose own content raised what nothing catches, one for
\* each storage error, and those in progress at a crash.
THEOREM RequestsAlwaysRecorded == Spec => []WellFormedRequestsRecorded
  <1>1. LostInv => WellFormedRequestsRecorded
    BY DEF LostInv, WellFormedRequestsRecorded
  <1> QED BY <1>1, RequestInvariant, PTL

-----------------------------------------------------------------------------
(* The breaker inside the pipeline, which a restart resets.                *)

BreakerInv ==
    /\ Breaker!TypeOK
    /\ state = "closed" <=> failures < MaxFailures

LEMMA InitBreakerInv == Init => BreakerInv
  BY PartsAssumption DEF Init, Breaker!Init, BreakerInv, Breaker!TypeOK

LEMMA StepBreakerInv == BreakerInv /\ [Next]_vars => BreakerInv'
  <1> SUFFICES ASSUME BreakerInv, [Next]_vars PROVE BreakerInv'
    OBVIOUS
  <1> USE PartsAssumption DEF BreakerInv, Breaker!TypeOK
  <1>1. CASE Construct
    BY <1>1 DEF Construct
  <1>2. CASE Tick
    BY <1>2 DEF Tick, Breaker!Tick
  <1>3. ASSUME NEW w \in Workers, RequestStep(w) PROVE BreakerInv'
    <2>1. CASE Breaker!Look
      BY <2>1 DEF Breaker!Look, Breaker!Looked
    <2>2. CASE Breaker!Enter(w)
      BY <2>2 DEF Breaker!Enter, Breaker!Looked
    <2>3. CASE Breaker!Succeed(w)
      BY <2>3 DEF Breaker!Succeed, Breaker!Leave
    <2>4. CASE Breaker!Fail(w)
      BY <2>4 DEF Breaker!Fail, Breaker!Count, Breaker!Leave
    <2>5. CASE UNCHANGED breakerVars
      BY <2>5 DEF breakerVars
    <2> QED
      BY <1>3, <2>1, <2>2, <2>3, <2>4, <2>5
      DEF RequestStep, GuardBreaker, Raises, GuardRequest, CallTrifecta, CallRefused,
          TrifectaReturns, TrifectaRaises, ObserveSwarm, Issue, Store
  <1>4. CASE Close \/ Crash \/ (\E w \in Workers : Submit(w)) \/ UNCHANGED vars
    BY <1>4 DEF Close, Crash, Submit, vars, breakerVars
  <1> QED BY <1>1, <1>2, <1>3, <1>4 DEF Next

\* The breaker that the requests share is closed exactly while the failures in a
\* row are below the limit, also when a restart or a crash comes in between.
THEOREM PipelineTrippedIffExhausted == Spec => []Breaker!TrippedIffExhausted
  <1>1. BreakerInv => Breaker!TrippedIffExhausted
    BY DEF BreakerInv, Breaker!TrippedIffExhausted
  <1> QED BY <1>1, InitBreakerInv, StepBreakerInv, PTL DEF Spec

LEMMA BreakerStep == [Next]_vars => [Construct \/ Crash \/ Breaker!Next]_breakerVars
  <1> SUFFICES ASSUME [Next]_vars, ~ Construct, ~ Crash
               PROVE  Breaker!Next \/ UNCHANGED breakerVars
    OBVIOUS
  <1>1. CASE Close \/ (\E w \in Workers : Submit(w)) \/ UNCHANGED vars
    BY <1>1 DEF Close, Submit, vars
  <1>2. CASE Tick
    BY <1>2 DEF Tick, Breaker!Next
  <1>3. ASSUME NEW w \in Workers, RequestStep(w)
        PROVE  Breaker!Next \/ UNCHANGED breakerVars
    <2>1. CASE GuardBreaker(w) \/ CallRefused(w)
      BY <2>1 DEF GuardBreaker, CallRefused, Breaker!Next
    <2>2. CASE CallTrifecta(w) \/ TrifectaReturns(w) \/ TrifectaRaises(w)
      BY <2>2
      DEF CallTrifecta, TrifectaReturns, TrifectaRaises, Breaker!Next, Breaker!CallerStep
    <2>3. CASE Raises(w) \/ GuardRequest(w) \/ ObserveSwarm(w) \/ Issue(w) \/ Store(w)
      BY <2>3 DEF Raises, GuardRequest, ObserveSwarm, Issue, Store
    <2> QED BY <1>3, <2>1, <2>2, <2>3 DEF RequestStep
  <1> QED BY <1>1, <1>2, <1>3 DEF Next

\* Each step of process() is a step of the breaker or leaves it alone, except that
\* a crash ends the calls and a new process has a new breaker.
THEOREM PipelineImplementsBreaker ==
  Spec => Breaker!Init /\ [][Construct \/ Crash \/ Breaker!Next]_breakerVars
  <1>1. Init => Breaker!Init
    BY DEF Init
  <1> QED BY <1>1, BreakerStep, PTL DEF Spec

\* With one request at a time nobody runs while the breaker is open, so that no
\* late answer closes it: only a restart ends the timeout early.
OneWorker == \A v, w \in Workers : v = w

NobodyRunsWhileOpen == state = "open" => \A w \in Workers : calling[w] = "outside"

StaysOpen == state = "open" /\ state' # "open" => elapsed >= ResetTimeout \/ ~ up[Service]

THEOREM SerialPipelineKeepsTimeout == ASSUME OneWorker PROVE Spec => [][StaysOpen]_vars
  <1> DEFINE Step == [Construct \/ Crash \/ Breaker!Next]_breakerVars
             Inv == Breaker!TypeOK /\ NobodyRunsWhileOpen
  <1>1. Init => NobodyRunsWhileOpen
    BY DEF Init, Breaker!Init, NobodyRunsWhileOpen
  <1>2. Inv /\ Step => NobodyRunsWhileOpen'
    <2> SUFFICES ASSUME Inv, Step PROVE NobodyRunsWhileOpen'
      OBVIOUS
    <2> USE DEF NobodyRunsWhileOpen, Breaker!TypeOK
    <2>1. CASE Construct
      BY <2>1 DEF Construct
    <2>2. CASE Crash
      BY <2>2 DEF Crash
    <2>3. CASE Breaker!Look
      BY <2>3 DEF Breaker!Look, Breaker!Looked
    <2>4. CASE Breaker!Tick
      BY <2>4 DEF Breaker!Tick
    <2>5. ASSUME NEW w \in Workers, Breaker!CallerStep(w) PROVE NobodyRunsWhileOpen'
      <3>1. CASE Breaker!Enter(w)
        BY <3>1 DEF Breaker!Enter
      <3>2. CASE Breaker!Succeed(w) \/ Breaker!Fail(w) \/ Breaker!Abandon(w)
        <4>1. calling' = [calling EXCEPT ![w] = "outside"]
          BY <3>2 DEF Breaker!Succeed, Breaker!Fail, Breaker!Abandon, Breaker!Leave
        <4> QED BY <4>1, OneWorker DEF OneWorker
      <3> QED BY <2>5, <3>1, <3>2 DEF Breaker!CallerStep
    <2>6. CASE UNCHANGED breakerVars
      BY <2>6 DEF breakerVars
    <2> QED BY <2>1, <2>2, <2>3, <2>4, <2>5, <2>6 DEF Breaker!Next
  <1>3. Inv /\ Step => StaysOpen
    <2> SUFFICES ASSUME Inv, Step, state = "open", state' # "open"
                 PROVE  elapsed >= ResetTimeout \/ ~ up[Service]
      BY DEF StaysOpen
    <2>1. CASE Construct
      BY <2>1 DEF Construct, Ledger!Start
    <2>2. CASE Breaker!Look
      BY <2>2 DEF Breaker!Look, Breaker!Looked
    <2>3. ASSUME NEW w \in Workers, Breaker!CallerStep(w) PROVE elapsed >= ResetTimeout
      <3>1. calling[w] = "outside"
        BY DEF NobodyRunsWhileOpen
      <3>2. Breaker!Enter(w)
        BY <2>3, <3>1
        DEF Breaker!CallerStep, Breaker!Succeed, Breaker!Fail, Breaker!Abandon, Breaker!Leave
      <3> QED BY <3>2 DEF Breaker!Enter, Breaker!Looked
    <2>4. CASE Crash \/ Breaker!Tick \/ UNCHANGED breakerVars
      BY <2>4 DEF Crash, Breaker!Tick, breakerVars
    <2> QED BY <2>1, <2>2, <2>3, <2>4 DEF Breaker!Next
  <1>4. BreakerInv => Breaker!TypeOK
    BY DEF BreakerInv
  <1>5. BreakerInv /\ NobodyRunsWhileOpen /\ [Next]_vars
          => NobodyRunsWhileOpen' /\ [StaysOpen]_vars
    BY <1>2, <1>3, <1>4, BreakerStep
  <1> QED
    BY <1>1, <1>5, InitBreakerInv, StepBreakerInv, PTL DEF Spec

-----------------------------------------------------------------------------
(* The detectors inside the pipeline, which a restart empties.  The evidence *)
(* of a streak is at least what the streak added to a start above the lower  *)
(* boundary.                                                                 *)

StreakCounts == \A p \in Agents : streak[p] * IncPos < logLR[p] + Lower

SwarmInv == Swarm!TypeOK /\ Swarm!EvidenceIsBounded /\ StreakCounts

\* A detector with no history satisfies the invariant.
LEMMA InitSwarmInv == Init => SwarmInv
  BY PartsAssumption
     DEF Init, Swarm!Init, SwarmInv, Swarm!TypeOK, Swarm!EvidenceIsBounded, StreakCounts

\* One more observation of one agent, in numbers.
LEMMA OneMoreObservation ==
  ASSUME NEW lr \in Int, NEW n \in Nat, - Lower < lr, lr < Upper, n * IncPos < lr + Lower
  PROVE  /\ (n + 1) * IncPos < (lr + IncPos) + Lower
         /\ - Lower < lr + IncPos /\ lr + IncPos \in Int /\ lr - IncNeg \in Int
         /\ 0 * IncPos < 0 + Lower /\ - Lower < 0 /\ 0 < Upper
  <1>1. IncPos \in Nat \ {0} /\ IncNeg \in Nat \ {0} /\ Upper \in Nat \ {0} /\ Lower \in Nat \ {0}
    BY PartsAssumption
  <1>2. (n + 1) * IncPos = n * IncPos + IncPos /\ 0 * IncPos = 0
    BY <1>1
  <1> DEFINE product == n * IncPos
  <1>3. product \in Int
    BY <1>1
  <1> HIDE DEF product
  <1>4. (n + 1) * IncPos = product + IncPos /\ product < lr + Lower
    BY <1>2 DEF product
  <1>5. product + IncPos < (lr + IncPos) + Lower
    BY <1>1, <1>3, <1>4
  <1>6. - Lower < lr + IncPos /\ lr + IncPos \in Int /\ lr - IncNeg \in Int
        /\ - Lower < 0 /\ 0 < Upper /\ 0 < 0 + Lower
    BY <1>1
  <1> QED BY <1>2, <1>4, <1>5, <1>6

LEMMA StepSwarmInv == SwarmInv /\ [Next]_vars => SwarmInv'
  <1> SUFFICES ASSUME SwarmInv, [Next]_vars PROVE SwarmInv'
    OBVIOUS
  <1>0. Swarm!TypeOK /\ Swarm!EvidenceIsBounded /\ StreakCounts
    BY DEF SwarmInv
  <1>1. CASE Construct
    <2>1. /\ logLR' = [p \in Agents |-> 0] /\ streak' = [p \in Agents |-> 0]
      BY <1>1 DEF Construct
    <2> QED BY <2>1, PartsAssumption
            DEF SwarmInv, Swarm!TypeOK, Swarm!EvidenceIsBounded, StreakCounts
  <1>2. ASSUME NEW w \in Workers, ObserveSwarm(w) PROVE SwarmInv'
    <2> DEFINE p == run[w].request.principal
               suspicious == run[w].verdict # "ALLOW"
               lr == Swarm!Evidence(p, suspicious)
               evidence == IF Swarm!Decision(lr) = "continue" THEN lr ELSE 0
               count == IF suspicious /\ Swarm!Decision(lr) # "swarm" THEN streak[p] + 1 ELSE 0
    <2>1. Swarm!Observe(p, suspicious)
      BY <1>2 DEF ObserveSwarm
    <2>2. CASE p \in Agents
      <3>1. /\ logLR[p] \in Int /\ streak[p] \in Nat
            /\ - Lower < logLR[p] /\ logLR[p] < Upper
            /\ streak[p] * IncPos < logLR[p] + Lower
        BY <1>0, <2>2 DEF Swarm!TypeOK, Swarm!EvidenceIsBounded, StreakCounts
      <3>2. /\ (streak[p] + 1) * IncPos < (logLR[p] + IncPos) + Lower
            /\ - Lower < logLR[p] + IncPos
            /\ logLR[p] + IncPos \in Int /\ logLR[p] - IncNeg \in Int
            /\ 0 * IncPos < 0 + Lower /\ - Lower < 0 /\ 0 < Upper
        BY <3>1, OneMoreObservation
      <3>3. logLR' = [logLR EXCEPT ![p] = evidence] /\ streak' = [streak EXCEPT ![p] = count]
        BY <1>0, <2>1, <2>2 DEF Swarm!Observe, Swarm!TypeOK
      <3>4. /\ suspicious => lr = logLR[p] + IncPos
            /\ ~ suspicious => lr = logLR[p] - IncNeg
        BY <3>1, PartsAssumption DEF Swarm!Evidence
      <3>5. lr \in Int
        BY <3>2, <3>4
      <3> HIDE DEF lr
      <3>6. /\ evidence \in Int /\ - Lower < evidence /\ evidence < Upper
        <4>1. Upper \in Nat /\ Lower \in Nat
          BY PartsAssumption
        <4> QED BY <3>2, <3>5, <4>1 DEF Swarm!Decision
      <3>7. count \in Nat /\ count * IncPos < evidence + Lower
        <4>1. CASE suspicious /\ Swarm!Decision(lr) # "swarm"
          <5>1. lr = logLR[p] + IncPos /\ - Lower < lr /\ Lower \in Nat
            BY <3>2, <3>4, <4>1, PartsAssumption
          <5>2. ~ (lr <= - Lower)
            BY <3>5, <5>1
          <5>3. Swarm!Decision(lr) = "continue"
            BY <4>1, <5>2 DEF Swarm!Decision
          <5> QED BY <3>1, <3>2, <4>1, <5>1, <5>3
        <4>2. CASE ~ (suspicious /\ Swarm!Decision(lr) # "swarm")
          <5>1. count = 0
            BY <4>2
          <5>2. 0 < evidence + Lower /\ 0 * IncPos = 0
            <6>1. Lower \in Nat /\ IncPos \in Nat
              BY PartsAssumption
            <6> HIDE DEF evidence
            <6> QED BY <3>6, <6>1
          <5> HIDE DEF count, evidence
          <5> QED BY <5>1, <5>2
        <4> QED BY <4>1, <4>2
      <3> HIDE DEF p, suspicious, evidence, count
      <3>8. /\ logLR'[p] = evidence /\ streak'[p] = count
            /\ \A q \in Agents \ {p} : logLR'[q] = logLR[q] /\ streak'[q] = streak[q]
        BY <1>0, <2>2, <3>3 DEF Swarm!TypeOK
      <3>9. Swarm!TypeOK'
        BY <1>0, <3>3, <3>6, <3>7 DEF Swarm!TypeOK
      <3>10. Swarm!EvidenceIsBounded'
        BY <1>0, <3>6, <3>8 DEF Swarm!EvidenceIsBounded
      <3>11. StreakCounts'
        BY <1>0, <3>7, <3>8 DEF StreakCounts
      <3> QED BY <3>9, <3>10, <3>11 DEF SwarmInv
    <2>3. CASE p \notin Agents
      <3>1. logLR' = logLR /\ streak' = streak
        BY <1>0, <2>1, <2>3 DEF Swarm!Observe, Swarm!TypeOK
      <3> QED BY <1>0, <3>1
              DEF SwarmInv, Swarm!TypeOK, Swarm!EvidenceIsBounded, StreakCounts
    <2> QED BY <2>2, <2>3
  <1>3. CASE UNCHANGED swarmVars
    BY <1>0, <1>3
       DEF swarmVars, SwarmInv, Swarm!TypeOK, Swarm!EvidenceIsBounded, StreakCounts
  <1> QED BY <1>1, <1>2, <1>3
          DEF Next, RequestStep, Close, Crash, Tick, Submit, GuardBreaker, Raises, GuardRequest,
              CallTrifecta, CallRefused, TrifectaReturns, TrifectaRaises, Issue, Store, vars

\* A principal whose requests all end up suspicious is declared a swarm before its
\* streak covers the distance between the boundaries, in whatever order the
\* requests of other principals pass the gates, and whatever they trip.
THEOREM PipelineCatchesStreaks ==
  Spec => [](Swarm!EvidenceIsBounded /\ Swarm!StreaksAreCaught)
  <1>1. SwarmInv => Swarm!EvidenceIsBounded /\ Swarm!StreaksAreCaught
    <2> SUFFICES ASSUME SwarmInv, NEW p \in Agents
                 PROVE  streak[p] * IncPos < Upper + Lower
      BY DEF SwarmInv, Swarm!StreaksAreCaught
    <2>1. /\ streak[p] * IncPos < logLR[p] + Lower /\ logLR[p] < Upper
          /\ logLR[p] \in Int /\ streak[p] \in Nat
      BY DEF SwarmInv, Swarm!TypeOK, Swarm!EvidenceIsBounded, StreakCounts
    <2>2. streak[p] * IncPos \in Int /\ Upper \in Nat /\ Lower \in Nat
      BY <2>1, PartsAssumption
    <2> QED BY <2>1, <2>2
  <1> QED BY <1>1, InitSwarmInv, StepSwarmInv, PTL DEF Spec

-----------------------------------------------------------------------------
(* Types, and shed load. *)

\* The stores, the breaker, the detectors and the requests keep their types, and
\* every receipt is about a request that was submitted.
THEOREM PipelineTypeCorrect == Spec => []TypeOK
  <1>1. SwarmInv => Swarm!TypeOK
    BY DEF SwarmInv
  <1>2. LP!TypeOK => Ledger!TypeOK
    BY DEF LP!TypeOK, Ledger!TypeOK, LP!Steps, Ledger!Steps, LP!AnyHash, Ledger!AnyHash,
           LP!AnyReceipt, Ledger!AnyReceipt
  <1>3. RunInv /\ LostInv => raised \in 0 .. submitted
    <2> SUFFICES ASSUME RunInv, LostInv PROVE raised \in 0 .. submitted
      OBVIOUS
    <2>1. submitted \in Nat /\ Ended \in SUBSET (1 .. submitted)
      BY DEF RunInv, Ended
    <2>2. Cardinality(Ended) \in Nat /\ Cardinality(Ended) <= submitted
      BY <2>1, SomeOfTheFirst
    <2> QED BY <2>1, <2>2 DEF LostInv
  <1>4. LedgerInv /\ RunInv /\ RequestInv /\ LostInv /\ BreakerInv /\ Swarm!TypeOK => TypeOK
    BY <1>2, <1>3 DEF LedgerInv, RequestInv, Whereabouts, BreakerInv, TypeOK
  <1>5. Spec => []BreakerInv
    BY InitBreakerInv, StepBreakerInv, PTL DEF Spec
  <1>6. Spec => []Swarm!TypeOK
    BY <1>1, InitSwarmInv, StepSwarmInv, PTL DEF Spec
  <1> QED BY <1>4, <1>5, <1>6, LedgerInvariant, RequestInvariant, PTL

\* A step that changes the locals of one request, and lists no shed load.
LEMMA NothingShed ==
  ASSUME RunInv, NEW w \in Workers, NEW new,
         run' = [run EXCEPT ![w] = new],
         "circuit_breaker" \in new.violations => "circuit_breaker" \in run[w].violations
  PROVE  \A v \in Workers : ~ Shed(v)
  BY DEF RunInv, Shed

\* A request is turned away by the breaker only while MaxFailures calls in a row
\* have failed and the timeout runs, whatever overlaps and restarts.
LEMMA StepSheds ==
  ASSUME RunInv, BreakerInv, Next
  PROVE  \A w \in Workers : Shed(w) => failures = MaxFailures /\ elapsed < ResetTimeout
  <1>1. CASE Construct \/ Close \/ Tick
    BY <1>1 DEF Construct, Close, Tick, Shed
  <1>2. CASE Crash
    BY <1>2 DEF Crash, Shed, Idle
  <1>3. ASSUME NEW w \in Workers, Submit(w) PROVE \A v \in Workers : ~ Shed(v)
    <2>1. PICK r \in Requests :
            run' = [run EXCEPT ![w] =
                      [Idle EXCEPT !.step = "submitted", !.id = submitted', !.request = r]]
      BY <1>3 DEF Submit
    <2> DEFINE n == submitted'
               new == [Idle EXCEPT !.step = "submitted", !.id = n, !.request = r]
    <2>2. run' = [run EXCEPT ![w] = new]
      BY <2>1
    <2> HIDE DEF n
    <2>3. new.violations = {}
      BY DEF Idle
    <2> HIDE DEF new
    <2> QED BY <2>2, <2>3, NothingShed
  <1>4. ASSUME NEW w \in Workers, RequestStep(w)
        PROVE  \A v \in Workers : Shed(v) => failures = MaxFailures /\ elapsed < ResetTimeout
    <2>0. run \in [Workers -> RunType] /\ run[w] \in RunType
      BY DEF RunInv
    <2>1. CASE GuardBreaker(w) \/ CallRefused(w)
      <3>1. Breaker!Look
        BY <2>1 DEF GuardBreaker, CallRefused
      <3>2. CASE state' = "open"
        BY <3>1, <3>2, PartsAssumption
           DEF Breaker!Look, Breaker!Looked, BreakerInv, Breaker!TypeOK
      <3>3. CASE run' = [run EXCEPT ![w].step = "admitted"]
        <4> DEFINE new == [run[w] EXCEPT !.step = "admitted"]
        <4>1. run' = [run EXCEPT ![w] = new] /\ new.violations = run[w].violations
          BY <2>0, <3>3 DEF RunType
        <4> HIDE DEF new
        <4> QED BY <4>1, NothingShed
      <3> QED BY <2>1, <3>2, <3>3 DEF GuardBreaker, CallRefused
    \* any other gate that blocks lists its own name
    <2>2. ASSUME NEW source \in Sources, source # "circuit_breaker", Blocked(w, source)
          PROVE  \A v \in Workers : ~ Shed(v)
      <3> DEFINE new == [run[w] EXCEPT !.step = "finalizing", !.verdict = "BLOCK",
                                       !.violations = @ \cup {source}]
      <3>1. run' = [run EXCEPT ![w] = new]
        BY <2>2, <2>0 DEF Blocked, RunType, Steps, Sources, Verdicts
      <3>2. new.violations = run[w].violations \cup {source}
        BY <2>0 DEF RunType, Steps, Sources, Verdicts
      <3> HIDE DEF new
      <3> QED BY <2>2, <3>1, <3>2, NothingShed
    <2>3. CASE Raises(w)
      BY <2>3, NothingShed DEF Raises, Idle
    <2>4. CASE GuardRequest(w)
      <3>1. PICK overBudget \in BOOLEAN :
              LET found == Violations(run[w].request, overBudget) IN
              run' = [run EXCEPT ![w].step = "cleared", ![w].violations = found,
                                 ![w].forced = found # {}]
        BY <2>4 DEF GuardRequest
      <3> DEFINE found == Violations(run[w].request, overBudget)
                 new == [run[w] EXCEPT !.step = "cleared", !.violations = found,
                                       !.forced = found # {}]
      <3>2. "circuit_breaker" \notin found
        BY DEF Violations
      <3> HIDE DEF found
      <3>3. run' = [run EXCEPT ![w] = new] /\ new.violations = found
        BY <2>0, <3>1 DEF found, RunType
      <3> HIDE DEF new
      <3> QED BY <3>2, <3>3, NothingShed
    <2>5. CASE CallTrifecta(w) \/ TrifectaReturns(w) \/ Issue(w)
      BY <2>0, <2>5 DEF CallTrifecta, TrifectaReturns, Issue, Shed, RunType
    <2>6. CASE TrifectaRaises(w)
      BY <2>2, <2>6 DEF TrifectaRaises, Sources
    <2>7. CASE ObserveSwarm(w)
      <3>1. CASE run' = [run EXCEPT ![w].step = "finalizing"]
        BY <2>0, <3>1 DEF Shed, RunType
      <3>2. CASE Blocked(w, "swarm_detector")
        BY <2>2, <3>2 DEF Sources
      <3> QED BY <2>7, <3>1, <3>2 DEF ObserveSwarm
    <2>8. CASE Store(w)
      BY <2>8, NothingShed DEF Store, Idle, Shed
    <2> QED BY <1>4, <2>1, <2>3, <2>4, <2>5, <2>6, <2>7, <2>8 DEF RequestStep
  <1> QED BY <1>1, <1>2, <1>3, <1>4 DEF Next

\* Load is only shed while the breaker is tripped and its timeout runs, for any
\* limit and timeout the constructor takes.
THEOREM ShedsOnlyWhileTripped == Spec => ShedsOnlyWhenTripped
  <1> DEFINE Step == \A w \in Workers :
                       Shed(w) => failures = MaxFailures /\ elapsed < ResetTimeout
  <1>1. RunInv /\ BreakerInv /\ [Next]_vars => [Step]_vars
    BY StepSheds
  <1> QED BY <1>1, InitRunInv, StepRunInv, InitBreakerInv, StepBreakerInv, PTL
          DEF Spec, ShedsOnlyWhenTripped
=============================================================================
