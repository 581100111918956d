------------------------------ MODULE HashChain ------------------------------
(***************************************************************************)
(* What the audit log promises: one list of receipts that only grows, each *)
(* receipt naming the hash of the receipt before it, so that the walk of   *)
(* AuditLog.verify_integrity (the same walk as receipts.verify_chain) sees *)
(* a receipt that went missing or changed places.                          *)
(*                                                                         *)
(* A receipt is abstracted to its own hash and its prev_hash.  A hash is a *)
(* positive integer handed out once: it covers a fresh uuid, so no two     *)
(* receipts share one.  Every receipt is signed by the code that builds    *)
(* it, so the walk's signature check never decides anything here.          *)
(***************************************************************************)
EXTENDS Naturals, Sequences

CONSTANT Hashes     \* the hashes of the receipts that may be issued

GENESIS_HASH == 0

\* No receipt hashes to the genesis.
ReceiptHashes == Hashes \ {GENESIS_HASH}

Receipt == [hash : ReceiptHashes, prev_hash : Hashes \cup {GENESIS_HASH}]

HashesOf(rows) == {rows[i].hash : i \in DOMAIN rows}

\* The hash the next receipt has to name: the newest row's, or the genesis.
TailHash(rows) ==
    IF rows = <<>> THEN GENESIS_HASH ELSE rows[Len(rows)].hash

\* The walk's `prev' on arriving at row i.
Before(rows, i) == IF i = 1 THEN GENESIS_HASH ELSE rows[i - 1].hash

\* The rows at which the walk finds a chain break.
Breaks_FirstOnly(rows) ==
    {i \in DOMAIN rows \cap {1} : rows[i].prev_hash # Before(rows, i)}
Breaks(rows) == {i \in DOMAIN rows : rows[i].prev_hash # Before(rows, i)}

VerifyIntegrity(rows) == Breaks(rows) = {}

-----------------------------------------------------------------------------
VARIABLE chain      \* the rows of the ledger, oldest first

Init == chain = <<>>

Extend(h) ==
    /\ h \notin HashesOf(chain)
    /\ chain' = Append(chain, [hash |-> h, prev_hash |-> TailHash(chain)])

Next == \E h \in ReceiptHashes : Extend(h)

Spec == Init /\ [][Next]_chain

-----------------------------------------------------------------------------
TypeOK == chain \in Seq(Receipt)

\* The walk accepts every ledger that was only ever extended
\* (audit.py verify_integrity over what ReceiptSigner.issue chains).
ChainVerifies == VerifyIntegrity(chain)

\* rows without row i.
Without(rows, i) ==
    [j \in 1 .. Len(rows) - 1 |-> IF j < i THEN rows[j] ELSE rows[j + 1]]

\* rows with rows i and j exchanged.
Exchanged(rows, i, j) == [rows EXCEPT ![i] = rows[j], ![j] = rows[i]]

\* Removing any row but the newest makes the walk fail
\* (receipts.py: "removing or reordering a receipt is detectable").
RemovalDetected ==
    \A i \in 1 .. Len(chain) - 1 : ~ VerifyIntegrity(Without(chain, i))

\* So does exchanging any two rows.
ReorderDetected ==
    \A i, j \in DOMAIN chain : i # j => ~ VerifyIntegrity(Exchanged(chain, i, j))
=============================================================================
