---------------------------- MODULE ReceiptLedger ----------------------------
(***************************************************************************)
(* The tail of AuditPipeline._finalize, which every request reaches:       *)
(*     signer.issue  ->  audit.append  ->  decisions.record  ->  return    *)
(* run by several threads of several processes over the two SQLite files,  *)
(* with storage errors, shutdowns and crashes.                             *)
(*                                                                         *)
(* issue takes no lock, so its read of _last_hash and its write of         *)
(* _last_hash are two steps.  append and record hold the lock of their own *)
(* store, so each is one step; an INSERT whose commit raised stays in the  *)
(* connection's open transaction, is committed by that connection's next   *)
(* commit, and locks the other processes' writes out until then.           *)
(*                                                                         *)
(* The n-th receipt ever issued has hash n.                                *)
(***************************************************************************)
EXTENDS Naturals, Sequences, FiniteSets

CONSTANTS
    Workers,        \* the threads that call AuditPipeline.process
    Processes,      \* the operating-system processes, one pipeline in each
    Home,           \* the process each worker runs in
    MaxReceipts,    \* bound on the receipts issued
    MaxFaults,      \* bound on the storage errors
    MaxCrashes      \* bound on the crashes

ASSUME HomeAssumption == Home \in [Workers -> Processes]
ASSUME BoundsAssumption ==
    MaxReceipts \in Nat /\ MaxFaults \in Nat /\ MaxCrashes \in Nat

VARIABLES
    ledger,         \* committed rows of the audit table, oldest first
    decisions,      \* receipts with a committed row in the decisions table
    auditTxn,       \* per process: rows in the audit connection's open transaction
    decisionTxn,    \* per process: the same for the decisions connection
    head,           \* per process: ReceiptSigner._last_hash
    up,             \* per process: is its pipeline constructed and running
    pc,             \* per worker: how far _finalize has come
    rcpt,           \* per worker: the receipt it last issued
    issued,         \* number of receipts issued
    answered,       \* receipts returned to a caller in a PipelineOutcome
    faults,         \* number of storage errors so far
    crashes         \* number of crashes so far

stores == <<ledger, decisions, auditTxn, decisionTxn>>
vars == <<stores, head, up, pc, rcpt, issued, answered, faults, crashes>>

\* The abstract ledger this one is meant to implement.
HC == INSTANCE HashChain WITH Hashes <- 1 .. MaxReceipts, chain <- ledger

GENESIS_HASH == HC!GENESIS_HASH
TailHash(rows) == HC!TailHash(rows)
HashesOf(rows) == HC!HashesOf(rows)

WorkersOf(p) == {w \in Workers : Home[w] = p}
AllIdle(p) == \A w \in WorkersOf(p) : pc[w] = "idle"
Unhashed == MaxReceipts + 1      \* a receipt_hash that was not computed yet
NoReceipt == [hash |-> GENESIS_HASH, prev_hash |-> GENESIS_HASH]

Init ==
    /\ ledger = <<>>
    /\ decisions = {}
    /\ auditTxn = [p \in Processes |-> <<>>]
    /\ decisionTxn = [p \in Processes |-> {}]
    /\ head = [p \in Processes |-> GENESIS_HASH]
    /\ up = [p \in Processes |-> FALSE]
    /\ pc = [w \in Workers |-> "idle"]
    /\ rcpt = [w \in Workers |-> NoReceipt]
    /\ issued = 0
    /\ answered = {}
    /\ faults = 0
    /\ crashes = 0

-----------------------------------------------------------------------------
(* Constructing and leaving a pipeline.                                    *)

\* AuditPipeline.__init__: the signer is seeded with audit.last_hash().
Start_Genesis(p) ==
    /\ ~ up[p]
    /\ up' = [up EXCEPT ![p] = TRUE]
    /\ head' = [head EXCEPT ![p] = GENESIS_HASH]
    /\ UNCHANGED <<stores, pc, rcpt, issued, answered, faults, crashes>>
Start(p) ==
    /\ ~ up[p]
    /\ up' = [up EXCEPT ![p] = TRUE]
    /\ head' = [head EXCEPT ![p] = TailHash(ledger)]
    /\ UNCHANGED <<stores, pc, rcpt, issued, answered, faults, crashes>>

\* Closing a connection rolls its open transaction back.
DropTransactions(p) ==
    /\ auditTxn' = [auditTxn EXCEPT ![p] = <<>>]
    /\ decisionTxn' = [decisionTxn EXCEPT ![p] = {}]

Close_Abandons(p) ==
    /\ up[p]
    /\ up' = [up EXCEPT ![p] = FALSE]
    /\ pc' = [w \in Workers |-> IF Home[w] = p THEN "idle" ELSE pc[w]]
    /\ DropTransactions(p)
    /\ UNCHANGED <<ledger, decisions, head, rcpt, issued, answered, faults, crashes>>
\* AuditPipeline.close once no request is under way, and the process ends.
Close(p) ==
    /\ up[p] /\ AllIdle(p)
    /\ up' = [up EXCEPT ![p] = FALSE]
    /\ DropTransactions(p)
    /\ UNCHANGED <<ledger, decisions, head, pc, rcpt, issued, answered, faults, crashes>>

\* The process dies, its requests with it.
Crash(p) ==
    /\ up[p] /\ crashes < MaxCrashes
    /\ up' = [up EXCEPT ![p] = FALSE]
    /\ pc' = [w \in Workers |-> IF Home[w] = p THEN "idle" ELSE pc[w]]
    /\ DropTransactions(p)
    /\ crashes' = crashes + 1
    /\ UNCHANGED <<ledger, decisions, head, rcpt, issued, answered, faults>>

-----------------------------------------------------------------------------
(* ReceiptSigner.issue                                                     *)

\* prev_hash=self._last_hash, then the hash and the signature.
ReadHead(w) ==
    /\ pc[w] = "idle" /\ up[Home[w]]
    /\ issued < MaxReceipts
    /\ issued' = issued + 1
    /\ rcpt' = [rcpt EXCEPT ![w] = [hash |-> issued + 1, prev_hash |-> head[Home[w]]]]
    /\ pc' = [pc EXCEPT ![w] = "signed"]
    /\ UNCHANGED <<stores, head, up, answered, faults, crashes>>

\* self._last_hash = receipt.receipt_hash
WriteHead_Forgotten(w) ==
    /\ pc[w] = "signed"
    /\ pc' = [pc EXCEPT ![w] = "issued"]
    /\ UNCHANGED <<stores, head, up, rcpt, issued, answered, faults, crashes>>
WriteHead_Unhashed(w) ==
    /\ pc[w] = "signed"
    /\ head' = [head EXCEPT ![Home[w]] = Unhashed]
    /\ pc' = [pc EXCEPT ![w] = "issued"]
    /\ UNCHANGED <<stores, up, rcpt, issued, answered, faults, crashes>>
WriteHead(w) ==
    /\ pc[w] = "signed"
    /\ head' = [head EXCEPT ![Home[w]] = rcpt[w].hash]
    /\ pc' = [pc EXCEPT ![w] = "issued"]
    /\ UNCHANGED <<stores, up, rcpt, issued, answered, faults, crashes>>

-----------------------------------------------------------------------------
(* AuditLog.append                                                         *)

\* No other process holds the write lock of the audit file.
AuditFree(p) == \A q \in Processes \ {p} : auditTxn[q] = <<>>

\* INSERT and commit, which commits what an earlier append left behind too.
AppendAudit_KeepsTxn(w) ==
    /\ pc[w] = "issued" /\ AuditFree(Home[w])
    /\ ledger' = Append(ledger \o auditTxn[Home[w]], rcpt[w])
    /\ pc' = [pc EXCEPT ![w] = "audited"]
    /\ UNCHANGED <<auditTxn, decisions, decisionTxn, head, up, rcpt, issued, answered, faults, crashes>>
AppendAudit_NoCommit(w) ==
    /\ pc[w] = "issued" /\ AuditFree(Home[w])
    /\ auditTxn' = [auditTxn EXCEPT ![Home[w]] = Append(@, rcpt[w])]
    /\ pc' = [pc EXCEPT ![w] = "audited"]
    /\ UNCHANGED <<ledger, decisions, decisionTxn, head, up, rcpt, issued, answered, faults, crashes>>
AppendAudit(w) ==
    LET p == Home[w] IN
    /\ pc[w] = "issued" /\ AuditFree(p)
    /\ ledger' = Append(ledger \o auditTxn[p], rcpt[w])
    /\ auditTxn' = [auditTxn EXCEPT ![p] = <<>>]
    /\ pc' = [pc EXCEPT ![w] = "audited"]
    /\ UNCHANGED <<decisions, decisionTxn, head, up, rcpt, issued, answered, faults, crashes>>

\* The exception leaves _finalize and process: the request gets no answer.
Raise(w) ==
    /\ pc' = [pc EXCEPT ![w] = "idle"]
    /\ UNCHANGED <<head, up, rcpt, issued, answered, crashes>>

\* "database is locked": another process's transaction stayed open.
AppendLocked(w) ==
    /\ pc[w] = "issued" /\ ~ AuditFree(Home[w])
    /\ Raise(w)
    /\ UNCHANGED <<stores, faults>>

\* The INSERT raises and changes nothing.
InsertAuditFails(w) ==
    /\ pc[w] = "issued" /\ AuditFree(Home[w]) /\ faults < MaxFaults
    /\ faults' = faults + 1
    /\ Raise(w)
    /\ UNCHANGED stores

\* The commit raises; SQLite keeps the transaction open or rolls it back.
CommitAuditFails(w) ==
    LET p == Home[w] IN
    /\ pc[w] = "issued" /\ AuditFree(p) /\ faults < MaxFaults
    /\ faults' = faults + 1
    /\ \E rows \in {<<>>, Append(auditTxn[p], rcpt[w])} :
         auditTxn' = [auditTxn EXCEPT ![p] = rows]
    /\ Raise(w)
    /\ UNCHANGED <<ledger, decisions, decisionTxn>>

-----------------------------------------------------------------------------
(* DecisionStore.record, on a connection and a lock of its own             *)

DecisionsFree(p) == \A q \in Processes \ {p} : decisionTxn[q] = {}

RecordDecision_NoCommit(w) ==
    LET p == Home[w] IN
    /\ pc[w] = "audited" /\ DecisionsFree(p)
    /\ decisionTxn' = [decisionTxn EXCEPT ![p] = @ \cup {rcpt[w].hash}]
    /\ pc' = [pc EXCEPT ![w] = "recorded"]
    /\ UNCHANGED <<ledger, decisions, auditTxn, head, up, rcpt, issued, answered, faults, crashes>>
RecordDecision(w) ==
    LET p == Home[w] IN
    /\ pc[w] = "audited" /\ DecisionsFree(p)
    /\ decisions' = decisions \cup decisionTxn[p] \cup {rcpt[w].hash}
    /\ decisionTxn' = [decisionTxn EXCEPT ![p] = {}]
    /\ pc' = [pc EXCEPT ![w] = "recorded"]
    /\ UNCHANGED <<ledger, auditTxn, head, up, rcpt, issued, answered, faults, crashes>>

RecordLocked(w) ==
    /\ pc[w] = "audited" /\ ~ DecisionsFree(Home[w])
    /\ Raise(w)
    /\ UNCHANGED <<stores, faults>>

InsertDecisionFails(w) ==
    /\ pc[w] = "audited" /\ DecisionsFree(Home[w]) /\ faults < MaxFaults
    /\ faults' = faults + 1
    /\ Raise(w)
    /\ UNCHANGED stores

CommitDecisionFails(w) ==
    LET p == Home[w] IN
    /\ pc[w] = "audited" /\ DecisionsFree(p) /\ faults < MaxFaults
    /\ faults' = faults + 1
    /\ \E rows \in {{}, decisionTxn[p] \cup {rcpt[w].hash}} :
         decisionTxn' = [decisionTxn EXCEPT ![p] = rows]
    /\ Raise(w)
    /\ UNCHANGED <<ledger, decisions, auditTxn>>

\* return PipelineOutcome(...)
Answer(w) ==
    /\ pc[w] = "recorded"
    /\ answered' = answered \cup {rcpt[w].hash}
    /\ pc' = [pc EXCEPT ![w] = "idle"]
    /\ UNCHANGED <<stores, head, up, rcpt, issued, faults, crashes>>

-----------------------------------------------------------------------------
ProcessStep(p) == Start(p) \/ Close(p) \/ Crash(p)

WorkerStep(w) ==
    \/ ReadHead(w) \/ WriteHead(w)
    \/ AppendAudit(w) \/ AppendLocked(w) \/ InsertAuditFails(w) \/ CommitAuditFails(w)
    \/ RecordDecision(w) \/ RecordLocked(w) \/ InsertDecisionFails(w) \/ CommitDecisionFails(w)
    \/ Answer(w)

Next == (\E p \in Processes : ProcessStep(p)) \/ (\E w \in Workers : WorkerStep(w))

Spec == Init /\ [][Next]_vars

-----------------------------------------------------------------------------
Steps == {"idle", "signed", "issued", "audited", "recorded"}
AnyHash == 0 .. MaxReceipts
AnyReceipt == [hash : AnyHash, prev_hash : AnyHash]

TypeOK ==
    /\ ledger \in Seq(AnyReceipt)
    /\ decisions \subseteq AnyHash
    /\ auditTxn \in [Processes -> Seq(AnyReceipt)]
    /\ decisionTxn \in [Processes -> SUBSET AnyHash]
    /\ head \in [Processes -> AnyHash]
    /\ up \in [Processes -> BOOLEAN]
    /\ pc \in [Workers -> Steps]
    /\ rcpt \in [Workers -> AnyReceipt]
    /\ issued \in AnyHash
    /\ answered \subseteq AnyHash
    /\ faults \in 0 .. MaxFaults
    /\ crashes \in 0 .. MaxCrashes

Stored == HashesOf(ledger)

\* Whatever fails or dies later, an answer that a caller holds has a committed
\* row in both stores (pipeline.py: "writes both the audit ledger and the
\* decision store - for every request").
AnswersAreDurable == answered \subseteq Stored /\ answered \subseteq decisions

\* The dashboard never shows a decision whose receipt the audit log lacks:
\* not even one from a transaction committed on behalf of a later request
\* (_finalize appends before it records).
DecisionsAreAudited == decisions \subseteq Stored

\* A row left in an open transaction is committed once, by whoever commits it
\* (audit.py append).
NoRowTwice ==
    \A i, j \in DOMAIN ledger : ledger[i].hash = ledger[j].hash => i = j

\* Requests past issue whose receipt is not stored yet.
InFlight == {rcpt[w].hash : w \in {v \in Workers : pc[v] \in {"signed", "issued"}}}

\* The receipts that rows of the ledger name and that it does not hold.
MissingLinks ==
    {ledger[i].prev_hash : i \in DOMAIN ledger} \ (Stored \cup {GENESIS_HASH})

\* However threads and processes interleave, as long as nothing fails or dies
\* a row only names a receipt that is stored or about to be: the ledger is a
\* tree rooted at the genesis, with no hole (issue and append unlocked).
LinksResolve == faults = 0 /\ crashes = 0 => MissingLinks \subseteq InFlight

\* With one request at a time, a storage error costs the chain at most one
\* break, and neither a shutdown nor a crash costs it any (last_hash).
BreaksBoundedByFaults == Cardinality(HC!Breaks(ledger)) <= faults

\* `verify' accepts the ledger: no row of it was ever removed or reordered
\* (audit.py verify_integrity "walks the whole log to prove nothing was
\* removed or reordered").
UntouchedLedgerVerifies == HC!VerifyIntegrity(ledger)

\* With one request at a time, `verify' rejects every ledger that lost a row
\* other than its newest or in which two rows changed places, whatever was
\* restarted or died (receipts.py: "removing or reordering a receipt is
\* detectable").
TamperingIsDetected == faults = 0 => HC!RemovalDetected /\ HC!ReorderDetected

\* With one request at a time, the committed rows behave as the abstract hash
\* chain as long as no storage error has happened (last_hash "lets a restarted
\* process continue the same chain").
ImplementsHashChain ==
    /\ HC!Init
    /\ [][faults' = 0 => HC!Next \/ UNCHANGED ledger]_vars
=============================================================================
