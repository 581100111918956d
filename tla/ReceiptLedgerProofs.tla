------------------------- MODULE ReceiptLedgerProofs -------------------------
(***************************************************************************)
(* Theorems about ReceiptLedger, for any number of threads, processes,     *)
(* receipts, storage errors and crashes: first what is stored and linked,  *)
(* then the rows counted and told apart (how many breaks storage errors    *)
(* cost, that no row is stored twice, that tampering is noticed).          *)
(***************************************************************************)
EXTENDS ReceiptLedger, FiniteSetTheorems, TLAPS

Chain == INSTANCE HashChainProofs WITH Hashes <- 1 .. MaxReceipts, chain <- ledger

USE DEF GENESIS_HASH, HC!GENESIS_HASH, Chain!GENESIS_HASH

\* Finite sequences of rows: what the two ways of adding to one do to the
\* set of hashes it stores.
LEMMA HashesOfAppend ==
  ASSUME NEW rows \in Seq(AnyReceipt), NEW r \in AnyReceipt
  PROVE  HashesOf(Append(rows, r)) = HashesOf(rows) \cup {r.hash}
  <1> DEFINE n == Len(rows)
             new == Append(rows, r)
  <1>1. n \in Nat /\ DOMAIN rows = 1 .. n /\ DOMAIN new = 1 .. n + 1
    OBVIOUS
  <1>2. new[n + 1] = r /\ \A i \in 1 .. n : new[i] = rows[i]
    OBVIOUS
  <1>3. 1 .. n + 1 = (1 .. n) \cup {n + 1}
    BY <1>1
  <1> HIDE DEF n, new
  <1> QED BY <1>1, <1>2, <1>3 DEF HashesOf, HC!HashesOf, new

LEMMA HashesOfConcat ==
  ASSUME NEW a \in Seq(AnyReceipt), NEW b \in Seq(AnyReceipt)
  PROVE  /\ a \o b \in Seq(AnyReceipt)
         /\ HashesOf(a \o b) = HashesOf(a) \cup HashesOf(b)
  <1> DEFINE m == Len(a)
             n == Len(b)
             c == a \o b
  <1>1. /\ m \in Nat /\ n \in Nat
        /\ DOMAIN a = 1 .. m /\ DOMAIN b = 1 .. n /\ DOMAIN c = 1 .. m + n
    OBVIOUS
  <1>2. \A i \in 1 .. m : c[i] = a[i]
    OBVIOUS
  <1>3. \A i \in 1 .. n : c[m + i] = b[i]
    OBVIOUS
  <1>4. \A i \in 1 .. m + n : i \in 1 .. m \/ (i - m \in 1 .. n /\ m + (i - m) = i)
    BY <1>1
  <1>5. (\A i \in 1 .. m : i \in 1 .. m + n) /\ (\A i \in 1 .. n : m + i \in 1 .. m + n)
    BY <1>1
  <1>6. c \in Seq(AnyReceipt)
    OBVIOUS
  <1> HIDE DEF m, n, c
  <1>7. HashesOf(c) \subseteq HashesOf(a) \cup HashesOf(b)
    <2> SUFFICES ASSUME NEW i \in 1 .. m + n
                 PROVE  c[i].hash \in HashesOf(a) \cup HashesOf(b)
      BY <1>1 DEF HashesOf, HC!HashesOf
    <2>1. CASE i \in 1 .. m
      BY <2>1, <1>1, <1>2 DEF HashesOf, HC!HashesOf
    <2>2. CASE i - m \in 1 .. n /\ m + (i - m) = i
      <3>1. c[i] = b[i - m]
        BY <2>2, <1>3
      <3> QED BY <2>2, <3>1, <1>1 DEF HashesOf, HC!HashesOf
    <2> QED BY <2>1, <2>2, <1>4
  <1>8. HashesOf(a) \cup HashesOf(b) \subseteq HashesOf(c)
    <2>1. ASSUME NEW i \in 1 .. m PROVE a[i].hash \in HashesOf(c)
      BY <1>1, <1>2, <1>5 DEF HashesOf, HC!HashesOf
    <2>2. ASSUME NEW i \in 1 .. n PROVE b[i].hash \in HashesOf(c)
      BY <1>1, <1>3, <1>5 DEF HashesOf, HC!HashesOf
    <2> QED BY <2>1, <2>2, <1>1 DEF HashesOf, HC!HashesOf
  <1> QED BY <1>6, <1>7, <1>8 DEF c

LEMMA TailHashType ==
  ASSUME NEW rows \in Seq(AnyReceipt) PROVE TailHash(rows) \in AnyHash
  <1>1. CASE rows = <<>>
    <2>1. TailHash(rows) = 0
      BY <1>1 DEF TailHash, HC!TailHash
    <2> QED BY <2>1, BoundsAssumption DEF AnyHash
  <1>2. CASE rows # <<>>
    <2>1. rows[Len(rows)] \in AnyReceipt
      BY <1>2
    <2> QED BY <2>1, <1>2 DEF TailHash, HC!TailHash, AnyReceipt
  <1> QED BY <1>1, <1>2

-----------------------------------------------------------------------------
(* Type correctness.                                                       *)

LEMMA InitTypeOK == Init => TypeOK
  BY BoundsAssumption
     DEF Init, TypeOK, Steps, AnyHash, AnyReceipt, NoReceipt

LEMMA StepTypeOK == TypeOK /\ [Next]_vars => TypeOK'
  <1> SUFFICES ASSUME TypeOK, [Next]_vars PROVE TypeOK'
    OBVIOUS
  <1> USE DEF TypeOK
  <1>1. ASSUME NEW p \in Processes, Start(p) PROVE TypeOK'
    BY <1>1, TailHashType DEF Start, stores
  <1>2. ASSUME NEW p \in Processes, Close(p) PROVE TypeOK'
    BY <1>2 DEF Close, DropTransactions
  <1>3. ASSUME NEW p \in Processes, Crash(p) PROVE TypeOK'
    BY <1>3, BoundsAssumption DEF Crash, DropTransactions, Steps
  <1>4. ASSUME NEW w \in Workers, WorkerStep(w) PROVE TypeOK'
    <2>1. Home[w] \in Processes /\ rcpt[w] \in AnyReceipt /\ rcpt[w].hash \in AnyHash
      BY HomeAssumption DEF AnyReceipt
    <2>2. CASE ReadHead(w)
      <3>1. issued + 1 \in AnyHash
        BY <2>2, BoundsAssumption DEF ReadHead, AnyHash
      <3> QED BY <2>2, <2>1, <3>1 DEF ReadHead, stores, Steps, AnyReceipt
    <2>3. CASE WriteHead(w)
      BY <2>3, <2>1 DEF WriteHead, stores, Steps
    <2>4. CASE AppendAudit(w)
      <3>1. Append(ledger \o auditTxn[Home[w]], rcpt[w]) \in Seq(AnyReceipt)
        BY <2>1, HashesOfConcat
      <3>2. <<>> \in Seq(AnyReceipt)
        OBVIOUS
      <3> QED BY <2>4, <2>1, <3>1, <3>2 DEF AppendAudit, Steps
    <2>5. CASE AppendLocked(w) \/ RecordLocked(w)
      BY <2>5 DEF AppendLocked, RecordLocked, Raise, stores, Steps
    <2>6. CASE InsertAuditFails(w) \/ InsertDecisionFails(w)
      BY <2>6, BoundsAssumption
         DEF InsertAuditFails, InsertDecisionFails, Raise, stores, Steps
    <2>7. CASE CommitAuditFails(w)
      <3>1. PICK rows \in {<<>>, Append(auditTxn[Home[w]], rcpt[w])} :
              auditTxn' = [auditTxn EXCEPT ![Home[w]] = rows]
        BY <2>7 DEF CommitAuditFails
      <3>2. rows \in Seq(AnyReceipt)
        <4>1. <<>> \in Seq(AnyReceipt) /\ auditTxn[Home[w]] \in Seq(AnyReceipt)
          BY <2>1
        <4>2. Append(auditTxn[Home[w]], rcpt[w]) \in Seq(AnyReceipt)
          BY <2>1, <4>1
        <4> QED BY <4>1, <4>2
      <3>3. auditTxn' \in [Processes -> Seq(AnyReceipt)]
        BY <3>1, <3>2, <2>1
      <3>4. faults' \in 0 .. MaxFaults
        BY <2>7, BoundsAssumption DEF CommitAuditFails
      <3>5. pc' \in [Workers -> Steps]
        BY <2>7 DEF CommitAuditFails, Raise, Steps
      <3> QED BY <2>7, <3>3, <3>4, <3>5 DEF CommitAuditFails, Raise
    <2>8. CASE RecordDecision(w)
      BY <2>8, <2>1 DEF RecordDecision, Steps
    <2>9. CASE CommitDecisionFails(w)
      BY <2>9, <2>1, BoundsAssumption DEF CommitDecisionFails, Raise, Steps
    <2>10. CASE Answer(w)
      BY <2>10, <2>1 DEF Answer, stores, Steps
    <2> QED BY <1>4, <2>2, <2>3, <2>4, <2>5, <2>6, <2>7, <2>8, <2>9, <2>10 DEF WorkerStep
  <1>5. CASE UNCHANGED vars
    BY <1>5 DEF vars, stores
  <1> QED BY <1>1, <1>2, <1>3, <1>4, <1>5 DEF Next, ProcessStep

\* Every variable keeps its type whatever the threads, processes, storage
\* errors and crashes do.
THEOREM TypeCorrect == Spec => []TypeOK
  BY InitTypeOK, StepTypeOK, PTL DEF Spec

-----------------------------------------------------------------------------
(* What committing a batch of rows does to the set of stored receipts.     *)

LEMMA AppendStores ==
  ASSUME TypeOK, NEW w \in Workers, AppendAudit(w)
  PROVE  Stored' = Stored \cup HashesOf(auditTxn[Home[w]]) \cup {rcpt[w].hash}
  <1>1. auditTxn[Home[w]] \in Seq(AnyReceipt) /\ rcpt[w] \in AnyReceipt
    BY HomeAssumption DEF TypeOK
  <1>2. ledger \o auditTxn[Home[w]] \in Seq(AnyReceipt)
    BY <1>1, HashesOfConcat DEF TypeOK
  <1>3. HashesOf(Append(ledger \o auditTxn[Home[w]], rcpt[w]))
          = HashesOf(ledger \o auditTxn[Home[w]]) \cup {rcpt[w].hash}
    BY <1>1, <1>2, HashesOfAppend
  <1>4. HashesOf(ledger \o auditTxn[Home[w]])
          = HashesOf(ledger) \cup HashesOf(auditTxn[Home[w]])
    BY <1>1, HashesOfConcat DEF TypeOK
  <1>5. ledger' = Append(ledger \o auditTxn[Home[w]], rcpt[w])
    BY DEF AppendAudit
  <1>6. Stored' = HashesOf(ledger') /\ Stored = HashesOf(ledger)
    BY DEF Stored, HashesOf, HC!HashesOf
  <1> QED BY <1>3, <1>4, <1>5, <1>6

LEMMA StoredUnchanged == UNCHANGED ledger => Stored' = Stored
  BY DEF Stored, HashesOf, HC!HashesOf

-----------------------------------------------------------------------------
(* Durability of answers.  The invariant follows one receipt through the   *)
(* two stores: what is past append is stored, what is past record is       *)
(* recorded, and what waits in a decisions transaction is stored already.  *)

StoreInv ==
    /\ decisions \subseteq Stored
    /\ \A p \in Processes : decisionTxn[p] \subseteq Stored
    /\ \A w \in Workers : pc[w] \in {"audited", "recorded"} => rcpt[w].hash \in Stored
    /\ \A w \in Workers : pc[w] = "recorded" => rcpt[w].hash \in decisions
    /\ answered \subseteq Stored /\ answered \subseteq decisions

LEMMA InitStoreInv == Init => StoreInv
  BY DEF Init, StoreInv

LEMMA StepStoreInv == TypeOK /\ StoreInv /\ [Next]_vars => StoreInv'
  <1> SUFFICES ASSUME TypeOK, StoreInv, [Next]_vars PROVE StoreInv'
    OBVIOUS
  <1> USE StoredUnchanged DEF TypeOK, StoreInv
  <1>1. ASSUME NEW p \in Processes, Start(p) PROVE StoreInv'
    BY <1>1 DEF Start, stores
  <1>2. ASSUME NEW p \in Processes, Close(p) PROVE StoreInv'
    BY <1>2 DEF Close, DropTransactions
  <1>3. ASSUME NEW p \in Processes, Crash(p) PROVE StoreInv'
    BY <1>3 DEF Crash, DropTransactions
  <1>4. ASSUME NEW w \in Workers, WorkerStep(w) PROVE StoreInv'
    <2>1. Home[w] \in Processes
      BY HomeAssumption
    <2>2. CASE ReadHead(w)
      BY <2>2 DEF ReadHead, stores
    <2>3. CASE WriteHead(w)
      BY <2>3 DEF WriteHead, stores
    <2>4. CASE AppendAudit(w)
      <3>1. Stored \subseteq Stored' /\ rcpt[w].hash \in Stored'
        BY <2>4, AppendStores
      <3> QED BY <2>4, <3>1 DEF AppendAudit
    <2>5. CASE AppendLocked(w) \/ RecordLocked(w)
      BY <2>5 DEF AppendLocked, RecordLocked, Raise, stores
    <2>6. CASE InsertAuditFails(w) \/ InsertDecisionFails(w)
      BY <2>6 DEF InsertAuditFails, InsertDecisionFails, Raise, stores
    <2>7. CASE CommitAuditFails(w)
      BY <2>7 DEF CommitAuditFails, Raise
    <2>8. CASE RecordDecision(w)
      BY <2>8, <2>1 DEF RecordDecision
    <2>9. CASE CommitDecisionFails(w)
      <3>1. PICK rows \in {{}, decisionTxn[Home[w]] \cup {rcpt[w].hash}} :
              decisionTxn' = [decisionTxn EXCEPT ![Home[w]] = rows]
        BY <2>9 DEF CommitDecisionFails
      <3>2. pc[w] = "audited" /\ rows \subseteq Stored
        BY <2>9, <2>1, <3>1 DEF CommitDecisionFails
      <3> QED BY <2>9, <2>1, <3>1, <3>2 DEF CommitDecisionFails, Raise
    <2>10. CASE Answer(w)
      BY <2>10 DEF Answer, stores
    <2> QED BY <1>4, <2>2, <2>3, <2>4, <2>5, <2>6, <2>7, <2>8, <2>9, <2>10 DEF WorkerStep
  <1>5. CASE UNCHANGED vars
    BY <1>5 DEF vars, stores
  <1> QED BY <1>1, <1>2, <1>3, <1>4, <1>5 DEF Next, ProcessStep

\* What is committed stays: neither an error nor a crash takes a row back.
LEMMA CommittedStays ==
  TypeOK /\ [Next]_vars => decisions \subseteq decisions' /\ Stored \subseteq Stored'
  <1> SUFFICES ASSUME TypeOK, [Next]_vars
               PROVE  decisions \subseteq decisions' /\ Stored \subseteq Stored'
    OBVIOUS
  <1>1. ASSUME NEW w \in Workers, AppendAudit(w)
        PROVE  decisions \subseteq decisions' /\ Stored \subseteq Stored'
    BY <1>1, AppendStores DEF AppendAudit
  <1>2. ASSUME NEW w \in Workers, RecordDecision(w)
        PROVE  decisions \subseteq decisions' /\ Stored \subseteq Stored'
    BY <1>2, StoredUnchanged DEF RecordDecision
  <1>3. CASE UNCHANGED <<ledger, decisions>>
    BY <1>3, StoredUnchanged
  <1> QED BY <1>1, <1>2, <1>3
          DEF Next, ProcessStep, WorkerStep, Start, Close, Crash, ReadHead, WriteHead,
              AppendLocked, InsertAuditFails, CommitAuditFails, RecordLocked,
              InsertDecisionFails, CommitDecisionFails, Answer, Raise, stores, vars

\* What is committed or waits in an open decisions transaction has its receipt
\* stored, in every state.
THEOREM StoreInvariant == Spec => [](TypeOK /\ StoreInv)
  BY InitTypeOK, StepTypeOK, InitStoreInv, StepStoreInv, PTL DEF Spec

\* An answer that a caller holds has a committed row in both stores.
THEOREM AnswersStayDurable == Spec => []AnswersAreDurable
  <1>1. StoreInv => AnswersAreDurable
    BY DEF StoreInv, AnswersAreDurable
  <1> QED BY <1>1, StoreInvariant, PTL

\* No decision is shown whose receipt the audit log lacks.
THEOREM DecisionsStayAudited == Spec => []DecisionsAreAudited
  <1>1. StoreInv => DecisionsAreAudited
    BY DEF StoreInv, DecisionsAreAudited
  <1> QED BY <1>1, StoreInvariant, PTL

-----------------------------------------------------------------------------
(* Links.  While nothing has failed or died, every hash that is or may     *)
(* become a prev_hash - a head, the prev_hash of a receipt in flight, of a *)
(* stored row - is the genesis, a stored receipt or one in flight; and no  *)
(* transaction is left open, so no append is refused.                      *)

Quiet == faults = 0 /\ crashes = 0
Known == Stored \cup InFlight \cup {GENESIS_HASH}

LinkInv ==
    Quiet =>
      /\ \A p \in Processes : auditTxn[p] = <<>>
      /\ \A p \in Processes : head[p] \in Known
      /\ \A w \in Workers : pc[w] \in {"signed", "issued"} => rcpt[w].prev_hash \in Known
      /\ \A i \in DOMAIN ledger : ledger[i].prev_hash \in Known

LEMMA InitLinkInv == Init => LinkInv
  BY DEF Init, LinkInv, Known

\* The tail of the ledger is the genesis or a stored receipt.
LEMMA TailHashKnown ==
  ASSUME NEW rows \in Seq(AnyReceipt)
  PROVE  TailHash(rows) \in HashesOf(rows) \cup {GENESIS_HASH}
  <1>1. CASE rows = <<>>
    BY <1>1 DEF TailHash, HC!TailHash
  <1>2. CASE rows # <<>>
    <2>1. Len(rows) \in DOMAIN rows
      BY <1>2
    <2> QED BY <2>1, <1>2 DEF TailHash, HC!TailHash, HashesOf, HC!HashesOf
  <1> QED BY <1>1, <1>2

LEMMA StepLinkInv == TypeOK /\ LinkInv /\ [Next]_vars => LinkInv'
  <1> SUFFICES ASSUME TypeOK, LinkInv, [Next]_vars, Quiet' PROVE LinkInv'
    BY DEF LinkInv
  <1> USE StoredUnchanged DEF Quiet, LinkInv
  <1>1. ASSUME NEW p \in Processes, Start(p) PROVE LinkInv'
    <2>1. TailHash(ledger) \in Known
      BY TailHashKnown DEF TypeOK, Known, Stored
    <2>2. Known' = Known
      BY <1>1 DEF Start, stores, Known, InFlight
    <2> QED BY <1>1, <2>1, <2>2 DEF Start, stores, TypeOK
  <1>2. ASSUME NEW p \in Processes, Close(p) PROVE LinkInv'
    <2>1. Known' = Known
      BY <1>2 DEF Close, Known, InFlight
    <2> QED BY <1>2, <2>1 DEF Close, DropTransactions, TypeOK
  <1>3. ASSUME NEW p \in Processes, Crash(p) PROVE LinkInv'
    BY <1>3 DEF Crash, TypeOK
  <1>4. ASSUME NEW w \in Workers, WorkerStep(w) PROVE LinkInv'
    <2>1. Home[w] \in Processes
      BY HomeAssumption
    <2>2. CASE ReadHead(w)
      <3>1. Known \subseteq Known'
        BY <2>2 DEF ReadHead, stores, Known, InFlight, TypeOK
      <3>2. rcpt'[w].prev_hash = head[Home[w]]
        BY <2>2 DEF ReadHead, TypeOK
      <3>3. \A v \in Workers \ {w} : rcpt'[v] = rcpt[v] /\ pc'[v] = pc[v]
        BY <2>2 DEF ReadHead, TypeOK
      <3> QED BY <2>1, <2>2, <3>1, <3>2, <3>3 DEF ReadHead, stores
    <2>3. CASE WriteHead(w)
      <3>1. Known' = Known
        BY <2>3 DEF WriteHead, stores, Known, InFlight, TypeOK
      <3>2. rcpt[w].hash \in Known
        BY <2>3 DEF WriteHead, Known, InFlight
      <3> QED BY <2>1, <2>3, <3>1, <3>2 DEF WriteHead, stores, TypeOK
    <2>4. CASE AppendAudit(w)
      <3>1. Quiet /\ auditTxn[Home[w]] = <<>>
        BY <2>4, <2>1 DEF AppendAudit
      <3>2. Stored \subseteq Stored' /\ rcpt[w].hash \in Stored'
        BY <2>4, AppendStores
      <3>3. InFlight \subseteq InFlight' \cup {rcpt[w].hash}
        BY <2>4 DEF AppendAudit, InFlight, TypeOK
      <3>4. Known \subseteq Known'
        BY <3>2, <3>3 DEF Known
      <3>5. ledger' = Append(ledger, rcpt[w])
        BY <2>4, <3>1 DEF AppendAudit, TypeOK
      <3>6. \A i \in DOMAIN ledger' : ledger'[i].prev_hash \in Known
        <4>1. rcpt[w].prev_hash \in Known
          BY <2>4, <3>1 DEF AppendAudit
        <4>2. \A i \in DOMAIN ledger' :
                ledger'[i] = rcpt[w] \/ (i \in DOMAIN ledger /\ ledger'[i] = ledger[i])
          BY <3>5 DEF TypeOK
        <4> QED BY <4>1, <4>2, <3>1
      <3>7. auditTxn' = [auditTxn EXCEPT ![Home[w]] = <<>>] /\ UNCHANGED <<head, rcpt>>
            /\ pc' = [pc EXCEPT ![w] = "audited"]
        BY <2>4 DEF AppendAudit
      <3> QED BY <3>1, <3>4, <3>6, <3>7 DEF TypeOK
    <2>5. CASE AppendLocked(w)
      BY <2>5, <2>1 DEF AppendLocked, Raise, stores, AuditFree
    <2>6. CASE InsertAuditFails(w) \/ InsertDecisionFails(w)
               \/ CommitAuditFails(w) \/ CommitDecisionFails(w)
      <3>1. faults' # 0
        BY <2>6 DEF InsertAuditFails, InsertDecisionFails, CommitAuditFails,
                    CommitDecisionFails, TypeOK
      <3> QED BY <3>1
    <2>7. CASE RecordDecision(w)
      <3>1. Known' = Known
        BY <2>7 DEF RecordDecision, Known, InFlight, TypeOK
      <3> QED BY <2>7, <3>1 DEF RecordDecision, TypeOK
    <2>8. CASE RecordLocked(w)
      <3>1. Known' = Known
        BY <2>8 DEF RecordLocked, Raise, stores, Known, InFlight, TypeOK
      <3> QED BY <2>8, <3>1 DEF RecordLocked, Raise, stores, TypeOK
    <2>9. CASE Answer(w)
      <3>1. Known' = Known
        BY <2>9 DEF Answer, stores, Known, InFlight, TypeOK
      <3> QED BY <2>9, <3>1 DEF Answer, stores, TypeOK
    <2> QED BY <1>4, <2>2, <2>3, <2>4, <2>5, <2>6, <2>7, <2>8, <2>9 DEF WorkerStep
  <1>5. CASE UNCHANGED vars
    BY <1>5 DEF vars, stores, Known, InFlight
  <1> QED BY <1>1, <1>2, <1>3, <1>4, <1>5 DEF Next, ProcessStep

\* However threads and processes interleave, as long as nothing fails or dies
\* no row names a receipt that is neither stored nor about to be.
THEOREM LinksAlwaysResolve == Spec => []LinksResolve
  <1>1. LinkInv => LinksResolve
    BY DEF LinkInv, Quiet, LinksResolve, MissingLinks, Known
  <1>2. Spec => [](TypeOK /\ LinkInv)
    BY InitTypeOK, StepTypeOK, InitLinkInv, StepLinkInv, PTL DEF Spec
  <1> QED BY <1>1, <1>2, PTL

-----------------------------------------------------------------------------
(* One request at a time, until the first storage error.  The head then is *)
(* the newest row's hash whenever no receipt is in flight, and a receipt   *)
(* in flight names the newest row; a crash or a restart re-reads the head. *)
(* Hashes in flight are newer than all stored ones, so none repeats.       *)

SerialService == \A v, w \in Workers : v = w

Chained ==
    /\ \A p \in Processes : auditTxn[p] = <<>>
    /\ HC!VerifyIntegrity(ledger)
    /\ \A h \in Stored : h <= issued
    /\ \A w \in Workers :
         /\ ~ up[Home[w]] => pc[w] = "idle"
         /\ up[Home[w]] /\ pc[w] # "issued" => head[Home[w]] = TailHash(ledger)
         /\ pc[w] = "issued" => head[Home[w]] = rcpt[w].hash
         /\ pc[w] \in {"signed", "issued"} =>
              /\ rcpt[w].prev_hash = TailHash(ledger)
              /\ rcpt[w].hash \in 1 .. issued
              /\ \A h \in Stored : h < rcpt[w].hash

SerialInv == faults = 0 => Chained

LEMMA InitSerialInv == Init => SerialInv
  <1> SUFFICES ASSUME Init PROVE Chained
    BY DEF SerialInv
  <1>1. HC!VerifyIntegrity(ledger) /\ Stored = {}
    BY DEF Init, HC!VerifyIntegrity, HC!Breaks, Stored, HashesOf, HC!HashesOf
  <1>2. \A w \in Workers : ~ up[Home[w]] /\ pc[w] = "idle"
    BY HomeAssumption DEF Init
  <1>3. \A p \in Processes : auditTxn[p] = <<>>
    BY DEF Init
  <1> QED BY <1>1, <1>2, <1>3 DEF Chained

\* Adding a receipt that names the tail breaks no link, and makes its hash
\* the tail.
LEMMA AppendKeepsLinks ==
  ASSUME NEW rows \in Seq(AnyReceipt), HC!VerifyIntegrity(rows),
         NEW r \in AnyReceipt, r.prev_hash = TailHash(rows)
  PROVE  /\ HC!VerifyIntegrity(Append(rows, r))
         /\ TailHash(Append(rows, r)) = r.hash
  <1> DEFINE n == Len(rows)
             new == Append(rows, r)
  <1>1. /\ n \in Nat /\ DOMAIN rows = 1 .. n
        /\ DOMAIN new = 1 .. n + 1 /\ Len(new) = n + 1 /\ new # <<>>
    OBVIOUS
  <1>2. new[n + 1] = r /\ \A i \in 1 .. n : new[i] = rows[i]
    OBVIOUS
  <1>3. (n = 0) <=> (rows = <<>>)
    OBVIOUS
  <1> HIDE DEF n, new
  <1>4. TailHash(rows) = IF n = 0 THEN 0 ELSE rows[n].hash
    BY <1>3 DEF TailHash, HC!TailHash, n
  <1>5. ASSUME NEW i \in 1 .. n + 1 PROVE new[i].prev_hash = HC!Before(new, i)
    <2>1. CASE i = n + 1
      <3>1. n # 0 => i - 1 = n /\ n \in 1 .. n /\ i # 1
        BY <2>1, <1>1
      <3>2. n = 0 => i = 1
        BY <2>1
      <3> QED BY <2>1, <3>1, <3>2, <1>2, <1>4 DEF HC!Before
    <2>2. CASE i # n + 1
      <3>1. i \in 1 .. n /\ (i # 1 => i - 1 \in 1 .. n)
        BY <2>2, <1>1
      <3>2. rows[i].prev_hash = HC!Before(rows, i)
        BY <3>1, <1>1 DEF HC!VerifyIntegrity, HC!Breaks
      <3> QED BY <3>1, <3>2, <1>2 DEF HC!Before
    <2> QED BY <2>1, <2>2
  <1>6. HC!VerifyIntegrity(new)
    BY <1>1, <1>5 DEF HC!VerifyIntegrity, HC!Breaks
  <1>7. TailHash(new) = r.hash
    BY <1>1, <1>2 DEF TailHash, HC!TailHash
  <1> QED BY <1>6, <1>7 DEF new

\* What the only append of a serial service does.
LEMMA SerialAppend ==
  ASSUME TypeOK, Chained, NEW w \in Workers, AppendAudit(w)
  PROVE  /\ ledger' = Append(ledger, rcpt[w])
         /\ Stored' = Stored \cup {rcpt[w].hash}
         /\ rcpt[w] = [hash |-> rcpt[w].hash, prev_hash |-> TailHash(ledger)]
         /\ rcpt[w].hash \in 1 .. issued /\ rcpt[w].hash \notin Stored
  <1>1. Home[w] \in Processes /\ auditTxn[Home[w]] = <<>> /\ pc[w] = "issued"
    BY HomeAssumption DEF Chained, AppendAudit
  <1>2. ledger' = Append(ledger, rcpt[w])
    BY <1>1 DEF AppendAudit, TypeOK
  <1>3. Stored' = Stored \cup {rcpt[w].hash}
    <2>1. HashesOf(<<>>) = {}
      BY DEF HashesOf, HC!HashesOf
    <2> QED BY <1>1, <2>1, AppendStores
  <1>4. rcpt[w].prev_hash = TailHash(ledger) /\ rcpt[w].hash \in 1 .. issued
        /\ \A h \in Stored : h < rcpt[w].hash
    BY <1>1 DEF Chained
  <1>5. rcpt[w] \in AnyReceipt
    BY DEF TypeOK
  <1>6. rcpt[w] = [hash |-> rcpt[w].hash, prev_hash |-> rcpt[w].prev_hash]
    BY <1>5 DEF AnyReceipt
  <1>7. rcpt[w].hash \notin Stored
    <2>1. rcpt[w].hash \in Nat
      BY <1>5 DEF AnyReceipt, AnyHash
    <2> QED BY <1>4, <2>1
  <1> QED BY <1>2, <1>3, <1>4, <1>6, <1>7

\* A run without storage errors had none before.
LEMMA FaultsOnlyGrow == TypeOK /\ [Next]_vars /\ faults' = 0 => faults = 0
  <1> SUFFICES ASSUME faults \in Nat, [Next]_vars
               PROVE  faults' = faults \/ faults' = faults + 1
    BY BoundsAssumption DEF TypeOK
  <1>1. ASSUME NEW p \in Processes, ProcessStep(p) PROVE faults' = faults
    BY <1>1 DEF ProcessStep, Start, Close, Crash
  <1>2. ASSUME NEW w \in Workers, WorkerStep(w)
        PROVE  faults' = faults \/ faults' = faults + 1
    <2>1. CASE ReadHead(w) \/ WriteHead(w) \/ AppendAudit(w) \/ AppendLocked(w)
      BY <2>1 DEF ReadHead, WriteHead, AppendAudit, AppendLocked
    <2>2. CASE RecordDecision(w) \/ RecordLocked(w) \/ Answer(w)
      BY <2>2 DEF RecordDecision, RecordLocked, Answer
    <2>3. CASE \/ InsertAuditFails(w) \/ CommitAuditFails(w)
               \/ InsertDecisionFails(w) \/ CommitDecisionFails(w)
      BY <2>3 DEF InsertAuditFails, CommitAuditFails, InsertDecisionFails, CommitDecisionFails
    <2> QED BY <1>2, <2>1, <2>2, <2>3 DEF WorkerStep
  <1> QED BY <1>1, <1>2 DEF Next, vars

LEMMA StepSerialInv ==
  ASSUME SerialService PROVE TypeOK /\ SerialInv /\ [Next]_vars => SerialInv'
  <1> SUFFICES ASSUME TypeOK, SerialInv, [Next]_vars, faults' = 0 PROVE Chained'
    BY DEF SerialInv
  <1>0. faults = 0 /\ Chained
    BY FaultsOnlyGrow DEF SerialInv
  <1> USE StoredUnchanged, <1>0 DEF SerialService
  <1>1. ASSUME NEW p \in Processes, Start(p) PROVE Chained'
    BY <1>1, HomeAssumption DEF Start, stores, Chained, TypeOK
  <1>2. ASSUME NEW p \in Processes, Close(p) PROVE Chained'
    BY <1>2, HomeAssumption
       DEF Close, DropTransactions, AllIdle, WorkersOf, Chained, TypeOK
  <1>3. ASSUME NEW p \in Processes, Crash(p) PROVE Chained'
    BY <1>3, HomeAssumption DEF Crash, DropTransactions, Chained, TypeOK
  <1>4. ASSUME NEW w \in Workers, WorkerStep(w) PROVE Chained'
    <2>1. Home[w] \in Processes /\ Workers = {w}
      BY HomeAssumption
    <2>2. CASE ReadHead(w)
      <3>1. \A h \in Stored : h \in Nat
        <4>1. \A i \in DOMAIN ledger : ledger[i].hash \in Nat
          <5>1. \A i \in DOMAIN ledger : ledger[i] \in AnyReceipt
            BY DEF TypeOK
          <5> QED BY <5>1 DEF AnyReceipt, AnyHash
        <4> QED BY <4>1 DEF Stored, HashesOf, HC!HashesOf
      <3>2. rcpt'[w] = [hash |-> issued + 1, prev_hash |-> head[Home[w]]]
            /\ pc'[w] = "signed" /\ issued' = issued + 1 /\ issued \in Nat
        BY <2>2 DEF ReadHead, TypeOK, AnyHash
      <3>3. /\ UNCHANGED <<ledger, auditTxn, head, up>>
            /\ up[Home[w]] /\ pc[w] = "idle"
        BY <2>2 DEF ReadHead, stores
      <3>4. \A h \in Stored' : h <= issued' /\ h < rcpt'[w].hash
        BY <3>1, <3>2, <3>3 DEF Chained
      <3> QED BY <2>1, <3>2, <3>3, <3>4 DEF Chained
    <2>3. CASE WriteHead(w)
      BY <2>1, <2>3 DEF WriteHead, stores, Chained, TypeOK
    <2>4. CASE AppendAudit(w)
      <3>1. HC!VerifyIntegrity(ledger') /\ TailHash(ledger') = rcpt[w].hash
        <4>1. rcpt[w] \in AnyReceipt /\ ledger \in Seq(AnyReceipt)
          BY DEF TypeOK
        <4>2. rcpt[w].prev_hash = TailHash(ledger) /\ HC!VerifyIntegrity(ledger)
          BY <2>4 DEF Chained, AppendAudit
        <4>3. ledger' = Append(ledger, rcpt[w])
          BY <2>4, SerialAppend
        <4> QED BY <4>1, <4>2, <4>3, AppendKeepsLinks
      <3>2. \A h \in Stored' : h <= issued
        BY <2>4, SerialAppend DEF Chained, TypeOK, AnyHash
      <3>3. pc'[w] = "audited" /\ UNCHANGED <<head, up, issued>>
            /\ auditTxn' = [auditTxn EXCEPT ![Home[w]] = <<>>]
        BY <2>4 DEF AppendAudit, TypeOK
      <3>4. pc[w] = "issued" /\ head[Home[w]] = rcpt[w].hash /\ up[Home[w]]
        BY <2>4 DEF AppendAudit, Chained
      <3> QED BY <2>1, <3>1, <3>2, <3>3, <3>4 DEF Chained, TypeOK, TailHash, HC!TailHash,
                HC!VerifyIntegrity, HC!Breaks, HC!Before
    <2>5. CASE AppendLocked(w)
      BY <2>5, <2>1 DEF AppendLocked, AuditFree, Chained
    <2>6. CASE InsertAuditFails(w) \/ InsertDecisionFails(w)
               \/ CommitAuditFails(w) \/ CommitDecisionFails(w)
      BY <2>6, <1>0 DEF InsertAuditFails, InsertDecisionFails, CommitAuditFails,
                    CommitDecisionFails
    <2>7. CASE RecordDecision(w)
      BY <2>1, <2>7 DEF RecordDecision, Chained, TypeOK
    <2>8. CASE RecordLocked(w)
      BY <2>1, <2>8 DEF RecordLocked, Raise, stores, Chained, TypeOK
    <2>9. CASE Answer(w)
      BY <2>1, <2>9 DEF Answer, stores, Chained, TypeOK
    <2> QED BY <1>4, <2>2, <2>3, <2>4, <2>5, <2>6, <2>7, <2>8, <2>9 DEF WorkerStep
  <1>5. CASE UNCHANGED vars
    BY <1>5 DEF vars, stores, Chained
  <1> QED BY <1>1, <1>2, <1>3, <1>4, <1>5 DEF Next, ProcessStep

\* With one worker the head is the newest row's hash, in every state before the
\* first storage error.
THEOREM SerialInvariant == ASSUME SerialService PROVE Spec => [](TypeOK /\ SerialInv)
  BY InitTypeOK, StepTypeOK, InitSerialInv, StepSerialInv, PTL DEF Spec

\* One request at a time: until the first storage error `verify' accepts the
\* ledger, after any sequence of requests, shutdowns and crashes.
THEOREM SerialLedgerVerifies ==
  ASSUME SerialService PROVE Spec => [](faults = 0 => UntouchedLedgerVerifies)
  <1>1. SerialInv => (faults = 0 => UntouchedLedgerVerifies)
    BY DEF SerialInv, Chained, UntouchedLedgerVerifies
  <1> QED BY <1>1, SerialInvariant, PTL

\* And its rows implement the abstract hash chain: a step either leaves them
\* alone or extends the chain by one receipt.
THEOREM SerialLedgerImplementsHashChain ==
  ASSUME SerialService PROVE Spec => ImplementsHashChain
  <1>1. Init => HC!Init
    BY DEF Init, HC!Init
  <1>2. TypeOK /\ SerialInv /\ [Next]_vars
          => [faults' = 0 => HC!Next \/ UNCHANGED ledger]_vars
    <2> SUFFICES ASSUME TypeOK, SerialInv, [Next]_vars, faults' = 0
                 PROVE  HC!Next \/ UNCHANGED ledger
      OBVIOUS
    <2>0. Chained
      BY FaultsOnlyGrow DEF SerialInv
    <2>1. ASSUME NEW w \in Workers, AppendAudit(w) PROVE HC!Next
      <3> DEFINE h == rcpt[w].hash
      <3>1. h \in HC!ReceiptHashes
        BY <2>0, <2>1, SerialAppend, BoundsAssumption DEF TypeOK, AnyHash, HC!ReceiptHashes
      <3>2. HC!Extend(h)
        BY <2>0, <2>1, SerialAppend DEF HC!Extend, Stored, HashesOf, TailHash
      <3> QED BY <3>1, <3>2 DEF HC!Next
    <2>2. ASSUME NEW w \in Workers, WorkerStep(w), ~ AppendAudit(w) PROVE UNCHANGED ledger
      BY <2>2 DEF WorkerStep, ReadHead, WriteHead, AppendLocked, InsertAuditFails,
                  CommitAuditFails, RecordDecision, RecordLocked, InsertDecisionFails,
                  CommitDecisionFails, Answer, stores
    <2>3. ASSUME NEW p \in Processes, ProcessStep(p) PROVE UNCHANGED ledger
      BY <2>3 DEF ProcessStep, Start, Close, Crash, stores
    <2>4. CASE UNCHANGED vars
      BY <2>4 DEF vars, stores
    <2> QED BY <2>1, <2>2, <2>3, <2>4 DEF Next
  <1> QED BY <1>1, <1>2, SerialInvariant, PTL DEF Spec, ImplementsHashChain

-----------------------------------------------------------------------------
(* One request at a time, with storage errors.  Count the breaks that the  *)
(* rows would have if the open transaction were committed, and one more if *)
(* the next receipt is going to break the chain: only an error adds one.   *)

BreakCount(rows) == Cardinality(HC!Breaks(rows))

\* Breaks can be counted.
LEMMA BreaksFinite ==
  ASSUME NEW rows \in Seq(AnyReceipt)
  PROVE  IsFiniteSet(HC!Breaks(rows)) /\ BreakCount(rows) \in Nat
  <1>1. DOMAIN rows = 1 .. Len(rows) /\ Len(rows) \in Int
    OBVIOUS
  <1>2. IsFiniteSet(1 .. Len(rows)) /\ HC!Breaks(rows) \in SUBSET (1 .. Len(rows))
    BY <1>1, FS_Interval DEF HC!Breaks
  <1>3. IsFiniteSet(HC!Breaks(rows))
    BY <1>2, FS_Subset
  <1> QED BY <1>3, FS_CardinalityType DEF BreakCount

\* A receipt that does not name the tail costs one break.
LEMMA BreaksOfAppend ==
  ASSUME NEW rows \in Seq(AnyReceipt), NEW r \in AnyReceipt
  PROVE  BreakCount(Append(rows, r))
           = BreakCount(rows) + IF r.prev_hash = TailHash(rows) THEN 0 ELSE 1
  <1> DEFINE n == Len(rows)
             new == Append(rows, r)
  <1>1. /\ n \in Nat /\ DOMAIN rows = 1 .. n
        /\ DOMAIN new = 1 .. n + 1 /\ ((n = 0) <=> (rows = <<>>))
    OBVIOUS
  <1>2. new[n + 1] = r /\ \A i \in 1 .. n : new[i] = rows[i]
    OBVIOUS
  <1> HIDE DEF n, new
  <1>3. ASSUME NEW i \in 1 .. n
        PROVE  i \in DOMAIN new /\ new[i].prev_hash = rows[i].prev_hash
               /\ HC!Before(new, i) = HC!Before(rows, i)
    <2>1. i \in 1 .. n + 1 /\ (i # 1 => i - 1 \in 1 .. n)
      BY <1>1
    <2> QED BY <2>1, <1>1, <1>2 DEF HC!Before
  <1>4. HC!Before(new, n + 1) = TailHash(rows)
    <2>1. CASE n = 0
      BY <2>1, <1>1 DEF HC!Before, TailHash, HC!TailHash
    <2>2. CASE n # 0
      <3>1. n \in 1 .. n /\ n + 1 # 1 /\ (n + 1) - 1 = n
        BY <2>2, <1>1
      <3> QED BY <2>2, <3>1, <1>1, <1>2 DEF HC!Before, TailHash, HC!TailHash, n
    <2> QED BY <2>1, <2>2
  <1>5. DOMAIN new = DOMAIN rows \cup {n + 1} /\ n + 1 \notin DOMAIN rows
    BY <1>1
  <1>6. HC!Breaks(new)
          = HC!Breaks(rows) \cup IF r.prev_hash = TailHash(rows) THEN {} ELSE {n + 1}
    BY <1>1, <1>2, <1>3, <1>4, <1>5 DEF HC!Breaks
  <1>7. n + 1 \notin HC!Breaks(rows)
    BY <1>5 DEF HC!Breaks
  <1>8. IsFiniteSet(HC!Breaks(rows)) /\ BreakCount(rows) \in Nat
    BY BreaksFinite
  <1>9. CASE r.prev_hash = TailHash(rows)
    BY <1>6, <1>8, <1>9 DEF BreakCount, new
  <1>10. CASE r.prev_hash # TailHash(rows)
    <2>1. HC!Breaks(new) = HC!Breaks(rows) \cup {n + 1}
      BY <1>6, <1>10
    <2>2. BreakCount(new) = BreakCount(rows) + 1
      BY <2>1, <1>7, <1>8, FS_AddElement DEF BreakCount
    <2> QED BY <2>2, <1>10 DEF new
  <1> QED BY <1>9, <1>10

\* Rows that are never committed cost nothing.
LEMMA BreaksOfPrefix ==
  ASSUME NEW a \in Seq(AnyReceipt), NEW b \in Seq(AnyReceipt)
  PROVE  BreakCount(a) <= BreakCount(a \o b)
  <1> DEFINE m == Len(a)
             n == Len(b)
             c == a \o b
  <1>1. /\ m \in Nat /\ n \in Nat
        /\ DOMAIN a = 1 .. m /\ DOMAIN c = 1 .. m + n
    OBVIOUS
  <1>2. \A i \in 1 .. m : c[i] = a[i]
    OBVIOUS
  <1>3. c \in Seq(AnyReceipt)
    OBVIOUS
  <1> HIDE DEF m, n, c
  <1>4. \A i \in 1 .. m : i \in 1 .. m + n /\ (i # 1 => i - 1 \in 1 .. m)
    BY <1>1
  <1>5. HC!Breaks(a) \subseteq HC!Breaks(c)
    BY <1>1, <1>2, <1>4 DEF HC!Breaks, HC!Before
  <1>6. IsFiniteSet(HC!Breaks(c)) /\ HC!Breaks(a) \in SUBSET HC!Breaks(c)
    BY <1>3, <1>5, BreaksFinite
  <1> QED BY <1>6, FS_Subset DEF BreakCount, c

\* The rows that the next commit of p's connection would leave in the ledger.
Full(p) == ledger \o auditTxn[p]

\* What the next receipt of worker w names, or the one it is about to append.
Naming(w) == IF pc[w] \in {"signed", "issued"} THEN rcpt[w].prev_hash ELSE head[Home[w]]

NextBreak(w) == IF Naming(w) = TailHash(Full(Home[w])) THEN 0 ELSE 1

\* The inductive invariant.
BreakInv ==
    /\ BreakCount(ledger) <= faults
    /\ \A p \in Processes : ~ up[p] => auditTxn[p] = <<>>
    /\ \A p \in Processes : auditTxn[p] # <<>> => \E w \in Workers : Home[w] = p
    /\ \A w \in Workers :
         /\ ~ up[Home[w]] => pc[w] = "idle"
         /\ pc[w] = "issued" => head[Home[w]] = rcpt[w].hash
         /\ up[Home[w]] => BreakCount(Full(Home[w])) + NextBreak(w) <= faults

LEMMA InitBreakInv == Init => BreakInv
  <1> SUFFICES ASSUME Init PROVE BreakInv
    OBVIOUS
  <1>1. HC!Breaks(ledger) = {}
    BY DEF Init, HC!Breaks
  <1>2. BreakCount(ledger) = 0
    BY <1>1, FS_EmptySet DEF BreakCount
  <1>3. \A w \in Workers : ~ up[Home[w]] /\ pc[w] = "idle" /\ pc[w] # "issued"
    BY HomeAssumption DEF Init
  <1>4. (\A p \in Processes : auditTxn[p] = <<>>) /\ faults = 0
    BY DEF Init
  <1> QED BY <1>2, <1>3, <1>4 DEF BreakInv

\* The facts about one worker's rows that the steps below need.
LEMMA FullTypes ==
  ASSUME TypeOK, NEW w \in Workers
  PROVE  /\ Home[w] \in Processes /\ rcpt[w] \in AnyReceipt
         /\ ledger \in Seq(AnyReceipt) /\ auditTxn[Home[w]] \in Seq(AnyReceipt)
         /\ Full(Home[w]) \in Seq(AnyReceipt)
         /\ BreakCount(ledger) \in Nat /\ BreakCount(Full(Home[w])) \in Nat
         /\ BreakCount(ledger) <= BreakCount(Full(Home[w]))
         /\ NextBreak(w) \in {0, 1} /\ faults \in Nat
  <1>1. /\ Home[w] \in Processes /\ rcpt[w] \in AnyReceipt /\ faults \in Nat
        /\ ledger \in Seq(AnyReceipt) /\ auditTxn[Home[w]] \in Seq(AnyReceipt)
    BY HomeAssumption DEF TypeOK
  <1>2. Full(Home[w]) \in Seq(AnyReceipt)
    BY <1>1, HashesOfConcat DEF Full
  <1> QED BY <1>1, <1>2, BreaksFinite, BreaksOfPrefix DEF Full, NextBreak

\* Three facts about sequences that the provers need one at a time.
LEMMA AppendEmpty ==
  ASSUME NEW rows \in Seq(AnyReceipt) PROVE rows \o <<>> = rows
  OBVIOUS

LEMMA AppendToConcat ==
  ASSUME NEW a \in Seq(AnyReceipt), NEW b \in Seq(AnyReceipt), NEW r \in AnyReceipt
  PROVE  a \o Append(b, r) = Append(a \o b, r)
  OBVIOUS

LEMMA TailOfAppend ==
  ASSUME NEW rows \in Seq(AnyReceipt), NEW r \in AnyReceipt
  PROVE  TailHash(Append(rows, r)) = r.hash
  BY DEF TailHash, HC!TailHash

\* What the rows cost does not depend on anything but the rows.
LEMMA RowsAfter ==
  ASSUME NEW p \in Processes
  PROVE  /\ BreakCount(ledger)' = BreakCount(ledger')
         /\ BreakCount(Full(p))' = BreakCount(ledger' \o auditTxn'[p])
         /\ TailHash(Full(p))' = TailHash(ledger' \o auditTxn'[p])
  BY DEF Full, BreakCount, HC!Breaks, HC!Before, TailHash, HC!TailHash

\* In a serial service a worker's step only has to account for its own rows.
LEMMA WorkerBreakInv ==
  ASSUME SerialService, TypeOK, TypeOK', BreakInv, NEW w \in Workers, up'[Home[w]],
         \A p \in Processes \ {Home[w]} : auditTxn'[p] = auditTxn[p],
         pc'[w] = "issued" => head'[Home[w]] = rcpt'[w].hash,
         BreakCount(ledger' \o auditTxn'[Home[w]]) + NextBreak(w)' <= faults'
  PROVE  BreakInv'
  <1>1. /\ Home[w] \in Processes /\ Workers = {w} /\ faults' \in Nat
        /\ ledger' \in Seq(AnyReceipt) /\ auditTxn'[Home[w]] \in Seq(AnyReceipt)
    BY HomeAssumption DEF SerialService, TypeOK
  <1>2. /\ BreakCount(ledger') \in Nat
        /\ BreakCount(ledger' \o auditTxn'[Home[w]]) \in Nat
        /\ BreakCount(ledger') <= BreakCount(ledger' \o auditTxn'[Home[w]])
    <2>1. ledger' \o auditTxn'[Home[w]] \in Seq(AnyReceipt)
      BY <1>1, HashesOfConcat
    <2> QED BY <1>1, <2>1, BreaksFinite, BreaksOfPrefix
  <1>3. NextBreak(w)' \in {0, 1}
    BY DEF NextBreak
  <1>4. BreakCount(ledger)' <= faults'
    BY <1>1, <1>2, <1>3, RowsAfter
  <1>5. \A p \in Processes \ {Home[w]} : auditTxn'[p] = <<>>
    BY <1>1 DEF BreakInv
  <1>6. up'[Home[w]] => BreakCount(Full(Home[w]))' + NextBreak(w)' <= faults'
    BY <1>1, RowsAfter
  <1> QED BY <1>1, <1>4, <1>5, <1>6 DEF BreakInv

\* A process that goes down drops its open transaction and its requests.
LEMMA LeaveBreakInv ==
  ASSUME TypeOK, BreakInv, NEW p \in Processes,
         up' = [up EXCEPT ![p] = FALSE], auditTxn' = [auditTxn EXCEPT ![p] = <<>>],
         UNCHANGED <<ledger, head, rcpt, faults>>,
         \A w \in Workers : pc'[w] = IF Home[w] = p THEN "idle" ELSE pc[w]
  PROVE  BreakInv'
  <1>1. BreakCount(ledger)' <= faults'
    BY RowsAfter DEF BreakInv
  <1>2. \A q \in Processes : auditTxn'[q] = IF q = p THEN <<>> ELSE auditTxn[q]
    BY DEF TypeOK
  <1>3. \A q \in Processes : up'[q] = IF q = p THEN FALSE ELSE up[q]
    BY DEF TypeOK
  <1>4. ASSUME NEW w \in Workers, up'[Home[w]]
        PROVE  BreakCount(Full(Home[w]))' + NextBreak(w)' <= faults'
    <2>1. Home[w] \in Processes /\ Home[w] # p /\ up[Home[w]]
      BY <1>3, <1>4, HomeAssumption
    <2>2. ledger' \o auditTxn'[Home[w]] = Full(Home[w]) /\ Naming(w)' = Naming(w)
      BY <1>2, <2>1 DEF Full, Naming
    <2>3. BreakCount(Full(Home[w]))' = BreakCount(Full(Home[w]))
          /\ NextBreak(w)' = NextBreak(w)
      BY <2>1, <2>2, RowsAfter DEF NextBreak
    <2> QED BY <2>1, <2>3 DEF BreakInv
  <1>5. \A w \in Workers : pc'[w] = "issued" => head'[Home[w]] = rcpt'[w].hash
    BY DEF BreakInv
  <1>6. \A w \in Workers : ~ up'[Home[w]] => pc'[w] = "idle"
    BY <1>3, HomeAssumption DEF BreakInv
  <1>7. \A q \in Processes : ~ up'[q] => auditTxn'[q] = <<>>
    BY <1>2, <1>3 DEF BreakInv
  <1>8. \A q \in Processes : auditTxn'[q] # <<>> => \E w \in Workers : Home[w] = q
    BY <1>2 DEF BreakInv
  <1> QED BY <1>1, <1>4, <1>5, <1>6, <1>7, <1>8 DEF BreakInv

\* One step per action; a step of a worker is accounted to its own rows.
LEMMA StepBreakInv ==
  ASSUME SerialService PROVE TypeOK /\ BreakInv /\ [Next]_vars => BreakInv'
  <1> SUFFICES ASSUME TypeOK, BreakInv, [Next]_vars PROVE BreakInv'
    OBVIOUS
  <1> USE DEF SerialService
  <1>1. ASSUME NEW p \in Processes, Start(p) PROVE BreakInv'
    <2>1. /\ up' = [up EXCEPT ![p] = TRUE] /\ ~ up[p] /\ auditTxn[p] = <<>>
          /\ head' = [head EXCEPT ![p] = TailHash(ledger)]
          /\ UNCHANGED <<ledger, auditTxn, pc, rcpt, faults>>
      BY <1>1 DEF Start, stores, BreakInv
    <2>2. BreakCount(ledger)' <= faults'
      BY <2>1 DEF BreakInv, BreakCount, HC!Breaks, HC!Before
    <2>3. ASSUME NEW w \in Workers, up'[Home[w]]
          PROVE  BreakCount(Full(Home[w]))' + NextBreak(w)' <= faults'
      <3>1. CASE Home[w] = p
        <4>1. Full(p) = ledger /\ pc[w] = "idle"
          BY <2>1, <3>1, AppendEmpty DEF Full, BreakInv, TypeOK
        <4>2. Full(p)' = ledger /\ Naming(w)' = TailHash(ledger)
          BY <4>1, <2>1, <3>1 DEF Full, Naming, TypeOK
        <4>3. NextBreak(w)' = 0
          <5>1. Naming(w)' = TailHash(Full(Home[w]))'
            BY <4>2, <3>1 DEF TailHash, HC!TailHash
          <5> QED BY <5>1 DEF NextBreak
        <4>4. BreakCount(Full(Home[w]))' = BreakCount(ledger)
          BY <4>2, <3>1 DEF BreakCount, HC!Breaks, HC!Before
        <4>5. BreakCount(ledger) \in Nat /\ BreakCount(ledger) <= faults /\ faults' = faults
          BY <2>1, FullTypes DEF BreakInv
        <4> QED BY <4>3, <4>4, <4>5
      <3>2. CASE Home[w] # p
        <4>1. up'[Home[w]] = up[Home[w]] /\ head'[Home[w]] = head[Home[w]]
          BY <2>1, <3>2, HomeAssumption DEF TypeOK
        <4>2. Full(Home[w])' = Full(Home[w]) /\ Naming(w)' = Naming(w)
          BY <2>1, <4>1 DEF Full, Naming
        <4>3. BreakCount(Full(Home[w]))' = BreakCount(Full(Home[w]))
          BY <4>2 DEF BreakCount, HC!Breaks, HC!Before
        <4>4. NextBreak(w)' = NextBreak(w)
          BY <4>2 DEF NextBreak, TailHash, HC!TailHash
        <4> QED BY <2>1, <2>3, <4>1, <4>3, <4>4 DEF BreakInv
      <3> QED BY <3>1, <3>2
    <2> QED BY <2>1, <2>2, <2>3, HomeAssumption DEF BreakInv, TypeOK
  <1>2. ASSUME NEW p \in Processes, Close(p) PROVE BreakInv'
    BY <1>2, LeaveBreakInv DEF Close, DropTransactions, AllIdle, WorkersOf
  <1>3. ASSUME NEW p \in Processes, Crash(p) PROVE BreakInv'
    BY <1>3, LeaveBreakInv DEF Crash, DropTransactions
  <1>4. ASSUME NEW w \in Workers, WorkerStep(w) PROVE BreakInv'
    <2> DEFINE p == Home[w]
               cost == BreakCount(ledger' \o auditTxn'[Home[w]])
    <2>1. /\ p \in Processes /\ Workers = {w} /\ rcpt[w] \in AnyReceipt /\ faults \in Nat
          /\ ledger \in Seq(AnyReceipt) /\ auditTxn[p] \in Seq(AnyReceipt)
          /\ Full(p) \in Seq(AnyReceipt)
          /\ BreakCount(ledger) \in Nat /\ BreakCount(Full(p)) \in Nat
          /\ BreakCount(ledger) <= BreakCount(Full(p)) /\ NextBreak(w) \in {0, 1}
      BY FullTypes
    <2>2. up[p] /\ up'[p]
      BY <1>4, <2>1 DEF WorkerStep, ReadHead, WriteHead, AppendAudit, AppendLocked,
            InsertAuditFails, CommitAuditFails, RecordDecision, RecordLocked,
            InsertDecisionFails, CommitDecisionFails, Answer, Raise, BreakInv
    <2>3. BreakCount(Full(p)) + NextBreak(w) <= faults
      BY <2>1, <2>2 DEF BreakInv
    <2>4. TypeOK' /\ NextBreak(w)' \in {0, 1}
      BY StepTypeOK DEF NextBreak
    <2>5. ASSUME UNCHANGED <<ledger, auditTxn>>
          PROVE  cost = BreakCount(Full(p)) /\ TailHash(Full(p))' = TailHash(Full(p))
      BY <2>5, <2>1, RowsAfter DEF Full
    <2>6. CASE ReadHead(w) \/ WriteHead(w) \/ RecordDecision(w) \/ RecordLocked(w) \/ Answer(w)
      <3>1. /\ UNCHANGED <<ledger, auditTxn, faults>>
            /\ Naming(w)' = Naming(w)
            /\ pc'[w] = "issued" => head'[p] = rcpt'[w].hash
        BY <2>1, <2>6 DEF TypeOK, Naming, ReadHead, WriteHead, RecordDecision,
              RecordLocked, Answer, Raise, stores
      <3>2. cost + NextBreak(w)' <= faults'
        BY <2>1, <2>3, <2>5, <3>1 DEF NextBreak
      <3> QED BY <2>2, <2>4, <3>1, <3>2, WorkerBreakInv
    <2>7. CASE AppendAudit(w)
      <3>1. /\ ledger' = Append(Full(p), rcpt[w])
            /\ auditTxn' = [auditTxn EXCEPT ![p] = <<>>]
            /\ pc[w] = "issued" /\ pc'[w] = "audited" /\ UNCHANGED <<head, rcpt, faults>>
        BY <2>7 DEF AppendAudit, Full, TypeOK
      <3>2. ledger' \o auditTxn'[p] = Append(Full(p), rcpt[w])
        <4>1. auditTxn'[p] = <<>>
          BY <2>1, <3>1 DEF TypeOK
        <4>2. Append(Full(p), rcpt[w]) \in Seq(AnyReceipt)
          BY <2>1
        <4> QED BY <3>1, <4>1, <4>2, AppendEmpty
      <3>3. cost = BreakCount(Full(p)) + NextBreak(w)
        <4>1. NextBreak(w) = IF rcpt[w].prev_hash = TailHash(Full(p)) THEN 0 ELSE 1
          BY <3>1 DEF NextBreak, Naming
        <4> QED BY <2>1, <3>2, <4>1, BreaksOfAppend
      <3>4. NextBreak(w)' = 0
        <4>1. Naming(w)' = rcpt[w].hash
          BY <3>1 DEF Naming, BreakInv
        <4>2. TailHash(Full(p))' = rcpt[w].hash
          BY <2>1, <3>2, RowsAfter, TailOfAppend
        <4> QED BY <4>1, <4>2 DEF NextBreak
      <3>5. cost + NextBreak(w)' <= faults'
        BY <2>1, <2>3, <3>1, <3>3, <3>4
      <3> QED BY <2>2, <2>4, <3>1, <3>5, WorkerBreakInv
    <2>8. CASE AppendLocked(w)
      <3>1. \A q \in Processes \ {p} : auditTxn[q] = <<>>
        BY <2>1 DEF BreakInv
      <3> QED BY <2>8, <3>1 DEF AppendLocked, AuditFree
    <2>9. CASE InsertAuditFails(w) \/ InsertDecisionFails(w) \/ CommitDecisionFails(w)
      <3>1. UNCHANGED <<ledger, auditTxn>> /\ faults' = faults + 1 /\ pc'[w] = "idle"
        BY <2>9 DEF InsertAuditFails, InsertDecisionFails, CommitDecisionFails, Raise,
              stores, TypeOK
      <3>2. cost + NextBreak(w)' <= faults'
        BY <2>1, <2>3, <2>4, <2>5, <3>1
      <3> QED BY <2>2, <2>4, <3>1, <3>2, WorkerBreakInv
    <2>10. CASE CommitAuditFails(w)
      <3>1. PICK rows \in {<<>>, Append(auditTxn[p], rcpt[w])} :
              auditTxn' = [auditTxn EXCEPT ![p] = rows]
        BY <2>10 DEF CommitAuditFails
      <3>2. /\ auditTxn'[p] = rows /\ \A q \in Processes \ {p} : auditTxn'[q] = auditTxn[q]
            /\ ledger' = ledger /\ faults' = faults + 1
            /\ pc[w] = "issued" /\ pc'[w] = "idle"
        BY <2>10, <2>1, <3>1 DEF CommitAuditFails, Raise, TypeOK
      <3>3. CASE rows = <<>>
        <4>1. cost = BreakCount(ledger)
          BY <2>1, <3>2, <3>3, AppendEmpty
        <4>2. cost + NextBreak(w)' <= faults'
          BY <2>1, <2>3, <2>4, <3>2, <4>1
        <4> QED BY <2>2, <2>4, <3>2, <4>2, WorkerBreakInv
      <3>4. CASE rows = Append(auditTxn[p], rcpt[w])
        <4>1. ledger' \o auditTxn'[p] = Append(Full(p), rcpt[w])
          <5>1. ledger \o Append(auditTxn[p], rcpt[w]) = Append(ledger \o auditTxn[p], rcpt[w])
            BY <2>1, AppendToConcat
          <5>2. ledger' = ledger /\ auditTxn'[p] = Append(auditTxn[p], rcpt[w])
            BY <3>2, <3>4
          <5> QED BY <5>1, <5>2 DEF Full
        <4>2. NextBreak(w) = IF rcpt[w].prev_hash = TailHash(Full(p)) THEN 0 ELSE 1
          BY <3>2 DEF NextBreak, Naming
        <4>3. cost = BreakCount(Full(p)) + NextBreak(w)
          BY <2>1, <4>1, <4>2, BreaksOfAppend
        <4>4. cost + NextBreak(w)' <= faults'
          BY <2>1, <2>3, <2>4, <3>2, <4>3
        <4> QED BY <2>2, <2>4, <3>2, <4>4, WorkerBreakInv
      <3> QED BY <3>1, <3>3, <3>4
    <2> QED BY <1>4, <2>6, <2>7, <2>8, <2>9, <2>10 DEF WorkerStep
  <1>5. CASE UNCHANGED vars
    BY <1>5 DEF vars, stores, BreakInv, Full, Naming, NextBreak, BreakCount, HC!Breaks,
       HC!Before, TailHash, HC!TailHash
  <1> QED BY <1>1, <1>2, <1>3, <1>4, <1>5 DEF Next, ProcessStep

\* One request at a time: each storage error, of either store and however its
\* commit ends, costs the ledger at most one break.
THEOREM SerialBreaksBounded ==
  ASSUME SerialService PROVE Spec => []BreaksBoundedByFaults
  <1>1. BreakInv => BreaksBoundedByFaults
    BY DEF BreakInv, BreaksBoundedByFaults, BreakCount
  <1> QED BY <1>1, InitTypeOK, StepTypeOK, InitBreakInv, StepBreakInv, PTL DEF Spec

-----------------------------------------------------------------------------
(* No row is stored twice, for any threads, processes, errors and crashes. *)
(* The hashes of the rows that a process's next commit would leave in the  *)
(* ledger are distinct, and those of receipts in flight are not among them.*)

Distinct(rows) == \A i, j \in DOMAIN rows : rows[i].hash = rows[j].hash => i = j

Flying(w) == pc[w] \in {"signed", "issued"}

RowInv ==
    /\ Distinct(ledger) /\ HashesOf(ledger) \subseteq 1 .. issued
    /\ \A p \in Processes : Distinct(Full(p)) /\ HashesOf(Full(p)) \subseteq 1 .. issued
    /\ \A w \in Workers : Flying(w) =>
         /\ rcpt[w].hash \in 1 .. issued
         /\ \A p \in Processes : rcpt[w].hash \notin HashesOf(Full(p))
    /\ \A v, w \in Workers :
         Flying(v) /\ Flying(w) /\ rcpt[v].hash = rcpt[w].hash => v = w

LEMMA InitRowInv == Init => RowInv
  <1> SUFFICES ASSUME Init PROVE RowInv
    OBVIOUS
  <1>1. Distinct(<<>>) /\ HashesOf(<<>>) = {}
    BY DEF Distinct, HashesOf, HC!HashesOf
  <1>2. ledger = <<>> /\ \A p \in Processes : Full(p) = <<>>
    BY DEF Init, Full
  <1>3. \A w \in Workers : ~ Flying(w)
    BY DEF Init, Flying
  <1>4. \A p \in Processes : Distinct(Full(p)) /\ HashesOf(Full(p)) = {}
    BY <1>1, <1>2
  <1>5. Distinct(ledger) /\ HashesOf(ledger) = {}
    BY <1>1, <1>2
  <1> QED BY <1>3, <1>4, <1>5 DEF RowInv

\* A receipt with a hash of its own keeps the rows distinct.
LEMMA AppendDistinct ==
  ASSUME NEW rows \in Seq(AnyReceipt), Distinct(rows),
         NEW r \in AnyReceipt, r.hash \notin HashesOf(rows)
  PROVE  Distinct(Append(rows, r))
  <1> DEFINE n == Len(rows)
             new == Append(rows, r)
  <1>1. n \in Nat /\ DOMAIN rows = 1 .. n /\ DOMAIN new = 1 .. n + 1
    OBVIOUS
  <1>2. new[n + 1] = r /\ \A i \in 1 .. n : new[i] = rows[i]
    OBVIOUS
  <1> HIDE DEF n, new
  <1>3. \A i \in 1 .. n : rows[i].hash # r.hash
    BY <1>1 DEF HashesOf, HC!HashesOf
  <1>4. \A i \in 1 .. n + 1 : i \in 1 .. n \/ i = n + 1
    BY <1>1
  <1> QED BY <1>1, <1>2, <1>3, <1>4 DEF Distinct, new

\* Likewise for the hashes.
LEMMA HashesAfter ==
  ASSUME NEW p \in Processes
  PROVE  /\ Distinct(ledger)' = Distinct(ledger')
         /\ HashesOf(ledger)' = HashesOf(ledger')
         /\ Distinct(Full(p))' = Distinct(ledger' \o auditTxn'[p])
         /\ HashesOf(Full(p))' = HashesOf(ledger' \o auditTxn'[p])
  BY DEF Full, Distinct, HashesOf, HC!HashesOf

\* The types of a process's rows.
LEMMA RowTypes ==
  ASSUME TypeOK, NEW p \in Processes
  PROVE  /\ ledger \in Seq(AnyReceipt) /\ auditTxn[p] \in Seq(AnyReceipt)
         /\ Full(p) \in Seq(AnyReceipt)
         /\ HashesOf(Full(p)) = HashesOf(ledger) \cup HashesOf(auditTxn[p])
  BY HashesOfConcat DEF TypeOK, Full

\* Steps that store nothing, issue nothing, and at most drop transactions
\* and requests.
LEMMA RowsKept ==
  ASSUME TypeOK, RowInv, UNCHANGED <<ledger, rcpt, issued>>,
         \A p \in Processes : auditTxn'[p] \in {<<>>, auditTxn[p]},
         \A w \in Workers : Flying(w)' => Flying(w)
  PROVE  RowInv'
  <1>1. ASSUME NEW p \in Processes
        PROVE  /\ Distinct(Full(p))' /\ HashesOf(Full(p))' \subseteq HashesOf(Full(p))
    <2>1. CASE auditTxn'[p] = auditTxn[p]
      BY <2>1, HashesAfter DEF RowInv, Full
    <2>2. CASE auditTxn'[p] = <<>>
      <3>1. ledger' \o auditTxn'[p] = ledger
        BY <2>2, RowTypes, AppendEmpty
      <3> QED BY <3>1, HashesAfter, RowTypes DEF RowInv
    <2> QED BY <2>1, <2>2
  <1>2. Distinct(ledger)' /\ HashesOf(ledger)' = HashesOf(ledger)
    BY DEF RowInv, Distinct, HashesOf, HC!HashesOf
  <1>3. ASSUME NEW w \in Workers, Flying(w)'
        PROVE  /\ Flying(w) /\ rcpt'[w].hash \in 1 .. issued'
               /\ \A p \in Processes : rcpt'[w].hash \notin HashesOf(Full(p))'
    BY <1>1, <1>3 DEF RowInv
  <1>4. \A v, w \in Workers :
          Flying(v)' /\ Flying(w)' /\ rcpt'[v].hash = rcpt'[w].hash => v = w
    BY <1>3 DEF RowInv
  <1> QED BY <1>1, <1>2, <1>3, <1>4 DEF RowInv

LEMMA StepRowInv == TypeOK /\ RowInv /\ [Next]_vars => RowInv'
  <1> SUFFICES ASSUME TypeOK, RowInv, [Next]_vars PROVE RowInv'
    OBVIOUS
  <1>1. ASSUME NEW p \in Processes, ProcessStep(p) PROVE RowInv'
    BY <1>1, RowsKept
       DEF ProcessStep, Start, Close, Crash, DropTransactions, stores, Flying, TypeOK
  <1>2. ASSUME NEW w \in Workers, WorkerStep(w) PROVE RowInv'
    <2> DEFINE p == Home[w]
    <2>1. p \in Processes /\ rcpt[w] \in AnyReceipt
      BY HomeAssumption DEF TypeOK
    <2>2. CASE ReadHead(w)
      <3>1. /\ issued' = issued + 1 /\ issued \in Nat /\ UNCHANGED <<ledger, auditTxn>>
            /\ rcpt'[w].hash = issued + 1
            /\ \A v \in Workers \ {w} : rcpt'[v] = rcpt[v] /\ (Flying(v)' <=> Flying(v))
        BY <2>2 DEF ReadHead, stores, TypeOK, AnyHash, Flying
      <3>2. issued + 1 \notin 1 .. issued /\ 1 .. issued \subseteq 1 .. issued'
            /\ issued + 1 \in 1 .. issued'
        BY <3>1
      <3>3. \A q \in Processes : Distinct(Full(q))' = Distinct(Full(q))
                                 /\ HashesOf(Full(q))' = HashesOf(Full(q))
        BY <3>1, HashesAfter DEF Full
      <3>4. Distinct(ledger)' = Distinct(ledger) /\ HashesOf(ledger)' = HashesOf(ledger)
        BY <3>1 DEF Distinct, HashesOf, HC!HashesOf
      <3>5. \A v \in Workers : Flying(v)' => v = w \/ (Flying(v) /\ rcpt'[v] = rcpt[v])
        BY <3>1
      <3>6. \A v \in Workers : Flying(v)' =>
              /\ rcpt'[v].hash \in 1 .. issued'
              /\ \A q \in Processes : rcpt'[v].hash \notin HashesOf(Full(q))'
        BY <3>1, <3>2, <3>3, <3>5 DEF RowInv
      <3>7. \A u, v \in Workers :
              Flying(u)' /\ Flying(v)' /\ rcpt'[u].hash = rcpt'[v].hash => u = v
        BY <3>1, <3>2, <3>5 DEF RowInv
      <3>8. /\ Distinct(ledger)' /\ HashesOf(ledger)' \subseteq 1 .. issued'
            /\ \A q \in Processes :
                 Distinct(Full(q))' /\ HashesOf(Full(q))' \subseteq 1 .. issued'
        BY <3>2, <3>3, <3>4 DEF RowInv
      <3> QED BY <3>6, <3>7, <3>8 DEF RowInv
    <2>3. ASSUME pc[w] = "issued", UNCHANGED <<rcpt, issued>>,
                 pc' = [pc EXCEPT ![w] = "audited"] \/ pc' = [pc EXCEPT ![w] = "idle"],
                 ledger' \in Seq(AnyReceipt),
                 \/ ledger' = ledger
                 \/ ledger' = Append(Full(p), rcpt[w]),
                 \A q \in Processes :
                   \/ ledger' \o auditTxn'[q] = Full(q)
                   \/ ledger' \o auditTxn'[q] = Append(Full(p), rcpt[w])
          PROVE  RowInv'
      <3> DEFINE new == Append(Full(p), rcpt[w])
      <3>1. Distinct(new) /\ HashesOf(new) = HashesOf(Full(p)) \cup {rcpt[w].hash}
        BY <2>1, <2>3, RowTypes, AppendDistinct, HashesOfAppend DEF RowInv, Flying
      <3>2. HashesOf(new) \subseteq 1 .. issued
        BY <2>1, <2>3, <3>1 DEF RowInv, Flying
      <3> HIDE DEF new
      <3>3. \A v \in Workers : Flying(v)' => v # w /\ Flying(v) /\ rcpt'[v] = rcpt[v]
        BY <2>3 DEF Flying, TypeOK
      <3>4. \A v \in Workers : Flying(v)' => rcpt[v].hash \notin HashesOf(new)
        BY <2>1, <2>3, <3>1, <3>3 DEF RowInv, Flying
      <3>5. ASSUME NEW q \in Processes
            PROVE  /\ Distinct(Full(q))' /\ HashesOf(Full(q))' \subseteq 1 .. issued'
                   /\ HashesOf(Full(q))' \in {HashesOf(Full(q)), HashesOf(new)}
        BY <2>3, <3>1, <3>2, HashesAfter DEF RowInv, new
      <3>6. Distinct(ledger)' /\ HashesOf(ledger)' \subseteq 1 .. issued'
        BY <2>1, <2>3, <3>1, <3>2, HashesAfter DEF RowInv, new
      <3>7. \A v \in Workers : Flying(v)' =>
              /\ rcpt'[v].hash \in 1 .. issued'
              /\ \A q \in Processes : rcpt'[v].hash \notin HashesOf(Full(q))'
        BY <2>3, <3>3, <3>4, <3>5 DEF RowInv
      <3>8. \A u, v \in Workers :
              Flying(u)' /\ Flying(v)' /\ rcpt'[u].hash = rcpt'[v].hash => u = v
        BY <3>3 DEF RowInv
      <3> QED BY <3>5, <3>6, <3>7, <3>8 DEF RowInv
    <2>4. CASE AppendAudit(w)
      <3>1. /\ ledger' = Append(Full(p), rcpt[w]) /\ ledger' \in Seq(AnyReceipt)
            /\ \A q \in Processes : auditTxn'[q] = <<>>
            /\ pc[w] = "issued" /\ UNCHANGED <<rcpt, issued>>
            /\ pc' = [pc EXCEPT ![w] = "audited"]
        BY <2>1, <2>4, RowTypes DEF AppendAudit, AuditFree, Full, TypeOK
      <3>2. \A q \in Processes : ledger' \o auditTxn'[q] = ledger'
        BY <3>1, AppendEmpty
      <3> QED BY <3>1, <3>2, <2>3
    <2>5. CASE CommitAuditFails(w)
      <3>1. PICK rows \in {<<>>, Append(auditTxn[p], rcpt[w])} :
              auditTxn' = [auditTxn EXCEPT ![p] = rows]
        BY <2>5 DEF CommitAuditFails
      <3>2. /\ ledger' = ledger /\ UNCHANGED <<rcpt, issued>>
            /\ pc[w] = "issued" /\ pc' = [pc EXCEPT ![w] = "idle"]
        BY <2>5 DEF CommitAuditFails, Raise
      <3>3. CASE rows = <<>>
        <4>1. \A q \in Processes : auditTxn'[q] \in {<<>>, auditTxn[q]}
          BY <3>1, <3>3 DEF TypeOK
        <4> QED BY <3>2, <4>1, RowsKept DEF Flying, TypeOK
      <3>4. CASE rows = Append(auditTxn[p], rcpt[w])
        <4>1. \A q \in Processes :
                auditTxn'[q] = IF q = p THEN Append(auditTxn[p], rcpt[w]) ELSE auditTxn[q]
          BY <3>1, <3>4 DEF TypeOK
        <4>2. ledger \o Append(auditTxn[p], rcpt[w]) = Append(Full(p), rcpt[w])
          BY <2>1, RowTypes, AppendToConcat DEF Full
        <4>3. ASSUME NEW q \in Processes
              PROVE  \/ ledger' \o auditTxn'[q] = Full(q)
                     \/ ledger' \o auditTxn'[q] = Append(Full(p), rcpt[w])
          BY <3>2, <4>1, <4>2 DEF Full
        <4>4. ledger' \in Seq(AnyReceipt)
          BY <2>1, <3>2, RowTypes
        <4> QED BY <3>2, <4>3, <4>4, <2>3
      <3> QED BY <3>1, <3>3, <3>4
    <2>6. CASE WriteHead(w) \/ AppendLocked(w) \/ InsertAuditFails(w) \/ RecordDecision(w)
               \/ RecordLocked(w) \/ InsertDecisionFails(w) \/ CommitDecisionFails(w)
               \/ Answer(w)
      <3>1. /\ UNCHANGED <<ledger, auditTxn, rcpt, issued>>
            /\ \A v \in Workers : Flying(v)' => Flying(v)
        BY <2>6 DEF WriteHead, AppendLocked, InsertAuditFails, RecordDecision, RecordLocked,
             InsertDecisionFails, CommitDecisionFails, Answer, Raise, stores, Flying, TypeOK
      <3> QED BY <3>1, RowsKept
    <2> QED BY <1>2, <2>2, <2>4, <2>5, <2>6 DEF WorkerStep
  <1>3. CASE UNCHANGED vars
    BY <1>3, RowsKept DEF vars, stores, Flying
  <1> QED BY <1>1, <1>2, <1>3 DEF Next

\* Whatever is interleaved, lost or left behind, the rows stay distinct.
THEOREM RowInvariant == Spec => [](TypeOK /\ RowInv)
  BY InitTypeOK, StepTypeOK, InitRowInv, StepRowInv, PTL DEF Spec

\* Whoever commits a row that was left in an open transaction, it is stored
\* once, for any threads, processes, storage errors and crashes.
THEOREM EveryRowOnce == Spec => []NoRowTwice
  <1>1. RowInv => NoRowTwice
    BY DEF RowInv, Distinct, NoRowTwice
  <1> QED BY <1>1, RowInvariant, PTL

-----------------------------------------------------------------------------
(* The two invariants together make the rows of a serial service a list    *)
(* that HashChain's walk guards.                                           *)

\* One request at a time: until the first storage error `verify' rejects every
\* ledger that lost a row other than its newest or in which two changed places.
THEOREM SerialTamperingIsDetected ==
  ASSUME SerialService PROVE Spec => []TamperingIsDetected
  <1>1. TypeOK /\ RowInv /\ SerialInv => TamperingIsDetected
    <2> SUFFICES ASSUME TypeOK, RowInv, Chained
                 PROVE  HC!RemovalDetected /\ HC!ReorderDetected
      BY DEF SerialInv, TamperingIsDetected
    <2>1. ledger \in Seq(HC!Receipt)
      <3>1. ASSUME NEW i \in DOMAIN ledger PROVE ledger[i] \in HC!Receipt
        <4>1. ledger[i] \in AnyReceipt /\ ledger[i].hash \in 1 .. issued /\ issued \in AnyHash
          BY DEF TypeOK, RowInv, HashesOf, HC!HashesOf
        <4> QED BY <4>1, BoundsAssumption
                DEF AnyReceipt, AnyHash, HC!Receipt, HC!ReceiptHashes
      <3> QED BY <3>1 DEF TypeOK
    <2>2. /\ \A rows : \A i : Chain!Before(rows, i) = HC!Before(rows, i)
          /\ \A rows : \A i : Chain!Without(rows, i) = HC!Without(rows, i)
          /\ \A rows : \A i, j : Chain!Exchanged(rows, i, j) = HC!Exchanged(rows, i, j)
      BY DEF Chain!Before, HC!Before, Chain!Without, HC!Without, Chain!Exchanged, HC!Exchanged
    <2>3. \A rows : Chain!VerifyIntegrity(rows) <=> HC!VerifyIntegrity(rows)
      BY <2>2 DEF Chain!VerifyIntegrity, HC!VerifyIntegrity, Chain!Breaks, HC!Breaks
    <2>4. Chain!TypeOK
      BY <2>1 DEF Chain!TypeOK, Chain!Receipt, Chain!ReceiptHashes, HC!Receipt,
         HC!ReceiptHashes
    <2>5. Chain!Linked(ledger)
      <3>1. \A i \in DOMAIN ledger : ledger[i].prev_hash = HC!Before(ledger, i)
        BY DEF Chained, HC!VerifyIntegrity, HC!Breaks
      <3> QED BY <2>2, <3>1 DEF Chain!Linked, RowInv, Distinct
    <2>6. Chain!RemovalDetected /\ Chain!ReorderDetected
      BY <2>4, <2>5, Chain!LinkedNoticesRemoval, Chain!LinkedNoticesExchange DEF Chain!IInv
    <2> QED BY <2>2, <2>3, <2>6 DEF Chain!RemovalDetected, Chain!ReorderDetected,
         HC!RemovalDetected, HC!ReorderDetected
  <1> QED BY <1>1, RowInvariant, SerialInvariant, PTL
=============================================================================
