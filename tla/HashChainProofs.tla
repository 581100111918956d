--------------------------- MODULE HashChainProofs ---------------------------
(***************************************************************************)
(* The chain the audit log promises passes its own walk, and the walk      *)
(* notices a removed or an exchanged row, for every set of hashes and a    *)
(* chain of any length.                                                    *)
(***************************************************************************)
EXTENDS HashChain, TLAPS

\* Every row is linked to the row before it and no two rows share a hash.
Linked(rows) ==
    /\ \A i \in DOMAIN rows : rows[i].prev_hash = Before(rows, i)
    /\ \A i, j \in DOMAIN rows : rows[i].hash = rows[j].hash => i = j

IInv == TypeOK /\ Linked(chain)

\* A linked list is one that the walk accepts.
LEMMA LinkedVerifies == ASSUME NEW rows, Linked(rows) PROVE VerifyIntegrity(rows)
  BY DEF Linked, VerifyIntegrity, Breaks

\* No receipt has the genesis hash.
LEMMA NoHashIsGenesis ==
  ASSUME NEW rows \in Seq(Receipt), NEW i \in DOMAIN rows
  PROVE  rows[i].hash # GENESIS_HASH
  <1>1. rows[i] \in Receipt
    OBVIOUS
  <1> QED BY <1>1 DEF Receipt, ReceiptHashes

\* One more receipt, taken from the tail, keeps the list linked (issue).
LEMMA ExtendLinked ==
  ASSUME NEW rows \in Seq(Receipt), Linked(rows), NEW h \in ReceiptHashes,
         h \notin HashesOf(rows)
  PROVE  /\ Append(rows, [hash |-> h, prev_hash |-> TailHash(rows)]) \in Seq(Receipt)
         /\ Linked(Append(rows, [hash |-> h, prev_hash |-> TailHash(rows)]))
  <1> DEFINE r == [hash |-> h, prev_hash |-> TailHash(rows)]
             new == Append(rows, r)
             n == Len(rows)
  <1>1. n \in Nat /\ DOMAIN rows = 1 .. n /\ DOMAIN new = 1 .. n + 1 /\ Len(new) = n + 1
    OBVIOUS
  <1>2. \A i \in 1 .. n : new[i] = rows[i]
    OBVIOUS
  <1>3. new[n + 1] = r
    OBVIOUS
  <1>4. TailHash(rows) = IF n = 0 THEN GENESIS_HASH ELSE rows[n].hash
    BY <1>1 DEF TailHash
  <1>5. r \in Receipt
    <2>1. CASE n = 0
      BY <2>1, <1>4 DEF Receipt, ReceiptHashes
    <2>2. CASE n # 0
      <3>1. rows[n] \in Receipt
        BY <2>2, <1>1
      <3> QED BY <3>1, <2>2, <1>4 DEF Receipt, ReceiptHashes
    <2> QED BY <2>1, <2>2
  <1>6. new \in Seq(Receipt)
    BY <1>5
  <1>7. ASSUME NEW i \in DOMAIN new PROVE new[i].prev_hash = Before(new, i)
    <2>1. CASE i = n + 1
      <3>1. new[i].prev_hash = TailHash(rows)
        BY <2>1, <1>3
      <3>2. n # 0 => i - 1 = n /\ n \in 1 .. n /\ i # 1
        BY <2>1, <1>1
      <3>3. n = 0 => i = 1
        BY <2>1
      <3> HIDE DEF new
      <3> QED BY <3>1, <3>2, <3>3, <1>2, <1>4 DEF Before
    <2>2. CASE i # n + 1
      <3>1. i \in 1 .. n /\ (i # 1 => i - 1 \in 1 .. n)
        BY <2>2, <1>1
      <3>2. rows[i].prev_hash = Before(rows, i)
        BY <3>1, <1>1 DEF Linked
      <3> QED BY <3>1, <3>2, <1>2 DEF Before
    <2> QED BY <2>1, <2>2
  <1>8. ASSUME NEW i \in DOMAIN new, NEW j \in DOMAIN new, new[i].hash = new[j].hash
        PROVE  i = j
    <2>1. \A k \in 1 .. n : rows[k].hash # h
      BY <1>1 DEF HashesOf
    <2>2. r.hash = h
      OBVIOUS
    <2>3. CASE i \in 1 .. n /\ j \in 1 .. n
      BY <2>3, <1>1, <1>2, <1>8 DEF Linked
    <2>4. CASE ~ (i \in 1 .. n /\ j \in 1 .. n)
      BY <2>4, <2>1, <2>2, <1>1, <1>2, <1>3, <1>8
    <2> QED BY <2>3, <2>4
  <1> QED BY <1>6, <1>7, <1>8 DEF Linked

\* Inductive invariant: the list is well typed and linked.
THEOREM ChainInvariant == Spec => []IInv
  <1>1. Init => IInv
    BY DEF Init, IInv, TypeOK, Linked
  <1>2. IInv /\ [Next]_chain => IInv'
    <2> SUFFICES ASSUME IInv, [Next]_chain PROVE IInv'
      OBVIOUS
    <2>1. ASSUME NEW h \in ReceiptHashes, Extend(h) PROVE IInv'
      BY <2>1, ExtendLinked DEF Extend, IInv, TypeOK
    <2>2. CASE UNCHANGED chain
      BY <2>2 DEF IInv, TypeOK, Linked, Before
    <2> QED BY <2>1, <2>2 DEF Next
  <1> QED BY <1>1, <1>2, PTL DEF Spec

\* The walk of verify_integrity accepts every ledger that was only extended.
THEOREM ExtendedChainVerifies == Spec => []ChainVerifies
  <1>1. IInv => ChainVerifies
    BY LinkedVerifies DEF IInv, ChainVerifies
  <1> QED BY <1>1, ChainInvariant, PTL

\* A walk that skips a row meets a receipt that names the skipped one.
LEMMA LinkedNoticesRemoval == IInv => RemovalDetected
  <1> SUFFICES ASSUME IInv, NEW i \in 1 .. Len(chain) - 1
               PROVE  ~ VerifyIntegrity(Without(chain, i))
    BY DEF RemovalDetected
  <1> DEFINE n == Len(chain)
             cut == Without(chain, i)
  <1>1. n \in Nat /\ DOMAIN chain = 1 .. n /\ i \in 1 .. n /\ i + 1 \in 1 .. n
    BY DEF IInv, TypeOK
  <1>2. i \in DOMAIN cut /\ cut[i] = chain[i + 1]
    BY <1>1 DEF Without
  <1>3. chain[i + 1].prev_hash = chain[i].hash
    BY <1>1 DEF IInv, Linked, Before
  <1>4. CASE i = 1
    <2>1. chain[1].hash # GENESIS_HASH
      BY <1>1, NoHashIsGenesis DEF IInv, TypeOK
    <2> QED BY <1>2, <1>3, <1>4, <2>1 DEF VerifyIntegrity, Breaks, Before
  <1>5. CASE i # 1
    <2>1. i - 1 \in 1 .. n /\ cut[i - 1] = chain[i - 1]
      BY <1>1, <1>5 DEF Without
    <2>2. chain[i - 1].hash # chain[i].hash
      BY <1>1, <2>1 DEF IInv, Linked
    <2> QED BY <1>2, <1>3, <1>5, <2>1, <2>2 DEF VerifyIntegrity, Breaks, Before
  <1> QED BY <1>4, <1>5

\* A row that moved forward names a row that is not before it any more.
LEMMA LinkedNoticesExchange == IInv => ReorderDetected
  <1>1. ASSUME IInv, NEW i \in DOMAIN chain, NEW j \in DOMAIN chain, i < j
        PROVE  /\ ~ VerifyIntegrity(Exchanged(chain, i, j))
               /\ ~ VerifyIntegrity(Exchanged(chain, j, i))
    <2> DEFINE n == Len(chain)
               a == Exchanged(chain, i, j)
               b == Exchanged(chain, j, i)
    <2>1. n \in Nat /\ DOMAIN chain = 1 .. n /\ DOMAIN a = 1 .. n /\ DOMAIN b = 1 .. n
      BY <1>1 DEF IInv, TypeOK, Exchanged
    <2>2. i \in 1 .. n /\ j \in 1 .. n /\ j - 1 \in 1 .. n
      BY <1>1, <2>1
    <2>3. a[i] = chain[j] /\ b[i] = chain[j]
      BY <1>1, <2>1, <2>2 DEF Exchanged
    <2>4. chain[j].prev_hash = chain[j - 1].hash
      BY <1>1, <2>1, <2>2 DEF IInv, Linked, Before
    <2>5. CASE i = 1
      <3>1. chain[j - 1].hash # GENESIS_HASH
        BY <1>1, <2>1, <2>2, NoHashIsGenesis DEF IInv, TypeOK
      <3> QED BY <2>1, <2>2, <2>3, <2>4, <2>5, <3>1 DEF VerifyIntegrity, Breaks, Before
    <2>6. CASE i # 1
      <3>1. i - 1 \in 1 .. n /\ i - 1 # j - 1
        BY <1>1, <2>1, <2>2, <2>6
      <3>2. a[i - 1] = chain[i - 1] /\ b[i - 1] = chain[i - 1]
        BY <1>1, <2>1, <2>2, <3>1 DEF Exchanged
      <3>3. chain[i - 1].hash # chain[j - 1].hash
        BY <1>1, <2>1, <2>2, <3>1 DEF IInv, Linked
      <3> QED BY <2>1, <2>2, <2>3, <2>4, <2>6, <3>1, <3>2, <3>3
              DEF VerifyIntegrity, Breaks, Before
    <2> QED BY <2>5, <2>6
  <1>2. QED
    <2> SUFFICES ASSUME IInv, NEW i \in DOMAIN chain, NEW j \in DOMAIN chain, i # j
                 PROVE  ~ VerifyIntegrity(Exchanged(chain, i, j))
      BY DEF ReorderDetected
    <2>1. i \in Nat /\ j \in Nat
      BY DEF IInv, TypeOK
    <2>2. i < j \/ j < i
      BY <2>1
    <2> QED BY <1>1, <2>2

\* verify_integrity reports a ledger from which a row other than the newest
\* was removed.
THEOREM RemovalIsDetected == Spec => []RemovalDetected
  BY LinkedNoticesRemoval, ChainInvariant, PTL

\* verify_integrity reports a ledger in which two rows changed places.
THEOREM ReorderIsDetected == Spec => []ReorderDetected
  BY LinkedNoticesExchange, ChainInvariant, PTL
=============================================================================
