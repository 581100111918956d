--------------------------- MODULE DashboardProofs ---------------------------
(***************************************************************************)
(* Proofs about RateLimiter and Dashboard: the rate of the current window, *)
(* the Retry-After header, that the dashboard uses the limiter as          *)
(* specified, and what its statistics promise, for every number of threads,*)
(* limit and window.                                                       *)
(***************************************************************************)
EXTENDS Dashboard, FiniteSetTheorems, WellFoundedInduction, TLAPS

-----------------------------------------------------------------------------
\* A non-empty set of natural numbers has a least element.
LEMMA LeastNatural ==
  ASSUME NEW X \in SUBSET Nat, X # {}
  PROVE  \E m \in X : \A k \in X : m <= k
  <1> DEFINE Upto(n) == 0 .. n
             Ts == {Upto(n) : n \in X}
  <1>1. ASSUME NEW n \in X PROVE Upto(n) \in FiniteSubsetsOf(Nat)
    <2>1. IsFiniteSet(0 .. n) /\ 0 .. n \in SUBSET Nat
      BY FS_Interval
    <2> QED BY <2>1 DEF FiniteSubsetsOf
  <1>2. Ts \subseteq FiniteSubsetsOf(Nat) /\ Ts # {}
    <2> HIDE DEF Upto
    <2> QED BY <1>1
  <1>3. PICK m \in X : \A J \in Ts : <<J, Upto(m)>> \notin StrictSubsetOrdering(Nat)
    <2> HIDE DEF Upto, Ts
    <2>1. PICK I \in Ts : \A J \in Ts : <<J, I>> \notin StrictSubsetOrdering(Nat)
      BY <1>2, WFMin, FS_StrictSubsetOrderingWellFounded
    <2> QED BY <2>1 DEF Ts
  <1>4. ASSUME NEW k \in X, k < m PROVE FALSE
    <2>1. Upto(k) \in Ts
      OBVIOUS
    <2>2. Upto(k) \subseteq Upto(m) /\ m \in Upto(m) /\ m \notin Upto(k)
          /\ Upto(m) \subseteq Nat /\ Upto(k) \subseteq Nat
      BY <1>4
    <2>3. <<Upto(k), Upto(m)>> \in StrictSubsetOrdering(Nat)
      <3> HIDE DEF Upto
      <3> QED BY <2>2 DEF StrictSubsetOrdering
    <2> QED BY <1>3, <2>1, <2>3
  <1> QED BY <1>4

\* Min picks the least element of a non-empty set of natural numbers.
LEMMA LeastElement ==
  ASSUME NEW X \in SUBSET Nat, X # {}
  PROVE  Min(X) \in X /\ \A k \in X : Min(X) <= k
  BY LeastNatural DEF Min

-----------------------------------------------------------------------------
(* The limiter: its inductive invariant.                                     *)
Readings == 0 .. MaxTime

LimiterTypeOK ==
    /\ clock \in 0 .. MaxTime
    /\ hits \in Seq(Readings)
    /\ now \in [Threads -> 0 .. Idle]
    /\ retryAfter \in Nat
    /\ rejectedAt \in 0 .. Idle
    /\ granted \in Seq(Readings)

ReadingsArePast == \A t \in Threads : now[t] # Idle => now[t] <= clock

\* dq is what is left of the history after some expired entries went first.
IsWhatIsLeft(dq, history, at) ==
    \E k \in 0 .. Len(history) :
        /\ Len(history) = k + Len(dq)
        /\ \A i \in 1 .. Len(dq) : dq[i] = history[k + i]
        /\ \A i \in 1 .. k : history[i] + Window < at

\* Once the newest rejection's retry_after has passed, the oldest hit expires.
OldestHitLeaves ==
    rejectedAt # Idle /\ Len(hits) > 0 => hits[1] + Window <= rejectedAt + retryAfter

LimiterInv ==
    /\ LimiterTypeOK /\ ReadingsArePast
    /\ IsWhatIsLeft(hits, granted, clock)
    /\ Len(hits) <= MaxRequests
    /\ OldestHitLeaves

(* The store and its readers: the inductive invariant.                       *)
Steps == {"idle", "counted", "allowed", "recent", "total", "verdicts", "sending"}

StoreTypeOK ==
    /\ rows \in Seq(Verdicts)
    /\ step \in [Threads -> Steps]
    /\ read \in [Threads -> [recent : Nat, total : Nat, verdicts : Nat]]
    /\ lock \in Threads \cup {Nothing}
    /\ shown \in [total : Nat, blocked : Nat]

\* What a thread has read so far is a part of the table, in the order it was read.
ReadsAreOrdered ==
    \A t \in Threads :
        /\ read[t].recent <= Len(rows) /\ read[t].total <= Len(rows)
        /\ read[t].verdicts <= Len(rows)
        /\ step[t] \in {"verdicts", "sending"} => read[t].recent <= read[t].total
        /\ step[t] = "sending" => read[t].total <= read[t].verdicts

\* Only the thread between the SELECTs of stats() holds the lock.
LockIsHeldByReader == \A t \in Threads : step[t] = "verdicts" <=> lock = t

\* What was shown, or is about to be, was true of some earlier table, and of the
\* one that the thread that holds the lock has counted.
ShownIsPast ==
    /\ shown.total <= Len(rows) /\ shown.blocked <= CountOf(Len(rows), "BLOCK")
    /\ \A t \in Threads : step[t] = "verdicts" =>
         /\ shown.total <= read[t].total
         /\ \A u \in Threads : step[u] = "sending" => read[u].total <= read[t].total

StoreInv == StoreTypeOK /\ ReadsAreOrdered /\ LockIsHeldByReader /\ ShownIsPast

-----------------------------------------------------------------------------
\* The header rounds the wait up: it is longer than the wait itself.
LEMMA HeaderIsLonger ==
  ASSUME retryAfter \in Nat
  PROVE  RetryAfterHeader \in Nat /\ retryAfter < RetryAfterHeader
  <1> DEFINE q == retryAfter \div Second
             r == retryAfter % Second
  <1>1. Second \in Nat /\ Second > 0
    BY LimiterAssumption
  <1>2. q \in Nat /\ r \in 0 .. Second - 1 /\ retryAfter = Second * q + r
    BY <1>1
  <1>3. RetryAfterHeader = Second * (q + 1)
    BY DEF RetryAfterHeader
  <1> HIDE DEF q, r
  <1>4. Second * (q + 1) = Second * q + Second /\ Second * q \in Nat
    BY <1>1, <1>2
  <1> QED BY <1>1, <1>2, <1>3, <1>4

\* _trim drops the expired hits up to the first that is not.
LEMMA TrimmedIsSuffix ==
  ASSUME NEW dq \in Seq(Readings), NEW at \in Nat
  PROVE  /\ Trimmed(dq, at) \in Seq(Readings)
         /\ \E j \in 0 .. Len(dq) :
              /\ Len(dq) = j + Len(Trimmed(dq, at))
              /\ \A i \in 1 .. Len(Trimmed(dq, at)) : Trimmed(dq, at)[i] = dq[j + i]
              /\ \A i \in 1 .. j : dq[i] + Window < at
              /\ j < Len(dq) => ~ (dq[j + 1] + Window < at)
  <1> DEFINE live == {i \in DOMAIN dq : dq[i] + Window >= at}
  <1>0. Window \in Nat /\ MaxTime \in Nat
    BY LimiterAssumption
  <1>1. DOMAIN dq = 1 .. Len(dq) /\ Len(dq) \in Nat
    OBVIOUS
  <1>2. ASSUME NEW i \in 1 .. Len(dq)
        PROVE  dq[i] \in Nat /\ (i \in live <=> ~ (dq[i] + Window < at))
    <2>1. dq[i] \in Readings
      BY <1>1
    <2> QED BY <1>0, <1>1, <2>1 DEF Readings
  <1>3. CASE live = {}
    <2>1. Trimmed(dq, at) = <<>>
      BY <1>3 DEF Trimmed
    <2>2. Len(<<>>) = 0 /\ <<>> \in Seq(Readings) /\ \A i \in 1 .. Len(<<>>) : FALSE
      OBVIOUS
    <2> DEFINE j == Len(dq)
    <2>3. /\ j \in 0 .. Len(dq)
          /\ Len(dq) = j + 0
          /\ \A i \in 1 .. j : dq[i] + Window < at
          /\ ~ (j < Len(dq))
      <3> HIDE DEF live
      <3> QED BY <1>1, <1>2, <1>3
    <2> HIDE DEF live, j
    <2> QED BY <2>1, <2>2, <2>3
  <1>4. CASE live # {}
    <2> DEFINE m == Min(live)
               j == m - 1
    <2>1. live \in SUBSET Nat
      BY <1>1
    <2>2. m \in live /\ \A i \in live : m <= i
      <3> HIDE DEF live
      <3> QED BY <1>4, <2>1, LeastElement
    <2>3. Trimmed(dq, at) = SubSeq(dq, m, Len(dq))
      BY <1>4 DEF Trimmed
    <2>4. m \in 1 .. Len(dq)
      BY <1>1, <2>2
    <2> HIDE DEF live, m
    <2>5. ~ (dq[m] + Window < at)
      BY <1>2, <2>2, <2>4
    <2>6. ASSUME NEW i \in 1 .. j PROVE dq[i] + Window < at
      <3>1. i \in 1 .. Len(dq) /\ ~ m <= i
        BY <1>1, <2>4
      <3>2. i \notin live
        BY <2>2, <3>1
      <3> QED BY <1>2, <3>1, <3>2
    <2>7. /\ SubSeq(dq, m, Len(dq)) \in Seq(Readings)
          /\ Len(SubSeq(dq, m, Len(dq))) = Len(dq) - j
          /\ \A i \in 1 .. Len(dq) - j : SubSeq(dq, m, Len(dq))[i] = dq[j + i]
      BY <1>1, <2>4
    <2>8. j \in 0 .. Len(dq) /\ j + 1 = m
      BY <1>1, <2>4
    <2> HIDE DEF j
    <2>9. Len(dq) = j + Len(Trimmed(dq, at))
      <3>1. Len(dq) \in Nat /\ j \in Nat
        BY <1>1, <2>8
      <3>2. Len(Trimmed(dq, at)) = Len(dq) - j
        BY <2>3, <2>7
      <3> QED BY <3>1, <3>2
    <2> QED BY <1>1, <2>3, <2>5, <2>6, <2>7, <2>8, <2>9
  <1> QED BY <1>3, <1>4

\* Trimming with a reading that is not in the future keeps the invariant's parts.
LEMMA TrimmedIsWhatIsLeft ==
  ASSUME LimiterInv, NEW at \in Nat, at <= clock
  PROVE  /\ Trimmed(hits, at) \in Seq(Readings)
         /\ Len(Trimmed(hits, at)) <= MaxRequests
         /\ IsWhatIsLeft(Trimmed(hits, at), granted, clock)
  <1> DEFINE dq == Trimmed(hits, at)
  <1>0. Window \in Nat /\ MaxTime \in Nat /\ MaxRequests \in Nat
    BY LimiterAssumption
  <1>1. hits \in Seq(Readings) /\ granted \in Seq(Readings) /\ clock \in Nat
    BY <1>0 DEF LimiterInv, LimiterTypeOK
  <1>2. dq \in Seq(Readings)
    BY <1>1, TrimmedIsSuffix
  <1>3. PICK j \in 0 .. Len(hits) :
          /\ Len(hits) = j + Len(dq)
          /\ \A i \in 1 .. Len(dq) : dq[i] = hits[j + i]
          /\ \A i \in 1 .. j : hits[i] + Window < at
    BY <1>1, TrimmedIsSuffix
  <1>4. PICK k \in 0 .. Len(granted) :
          /\ Len(granted) = k + Len(hits)
          /\ \A i \in 1 .. Len(hits) : hits[i] = granted[k + i]
          /\ \A i \in 1 .. k : granted[i] + Window < clock
    BY DEF LimiterInv, IsWhatIsLeft
  <1> HIDE DEF dq
  <1>5. Len(dq) \in Nat /\ Len(hits) \in Nat /\ Len(granted) \in Nat /\ j \in Nat /\ k \in Nat
    BY <1>1, <1>2
  <1>6. Len(dq) <= MaxRequests
    BY <1>0, <1>3, <1>5 DEF LimiterInv
  <1>7. j + k \in 0 .. Len(granted) /\ Len(granted) = (j + k) + Len(dq)
    BY <1>3, <1>4, <1>5
  <1>8. ASSUME NEW i \in 1 .. Len(dq) PROVE dq[i] = granted[(j + k) + i]
    <2>1. j + i \in 1 .. Len(hits) /\ k + (j + i) = (j + k) + i
      BY <1>3, <1>5
    <2> QED BY <1>3, <1>4, <2>1
  <1>9. ASSUME NEW i \in 1 .. j + k PROVE granted[i] + Window < clock
    <2>1. CASE i <= k
      BY <2>1, <1>4, <1>5
    <2>2. CASE k < i
      <3>1. i - k \in 1 .. j /\ k + (i - k) = i
        BY <2>2, <1>5
      <3>2. i - k \in 1 .. Len(hits) /\ i \in 1 .. Len(granted)
        BY <3>1, <1>3, <1>4, <1>5
      <3>3. granted[i] = hits[i - k] /\ hits[i - k] + Window < at
        BY <3>1, <3>2, <1>3, <1>4
      <3>4. granted[i] \in Readings
        BY <1>1, <3>2
      <3> QED BY <3>3, <3>4, <1>0, <1>1 DEF Readings
    <2> QED BY <1>5, <2>1, <2>2
  <1>10. IsWhatIsLeft(dq, granted, clock)
    BY <1>7, <1>8, <1>9 DEF IsWhatIsLeft
  <1> QED BY <1>2, <1>6, <1>10 DEF dq

\* The deque and the history grow together.
LEMMA AppendedIsWhatIsLeft ==
  ASSUME NEW dq \in Seq(Readings), NEW history \in Seq(Readings),
         NEW e \in Readings, NEW at \in Nat, IsWhatIsLeft(dq, history, at)
  PROVE  IsWhatIsLeft(Append(dq, e), Append(history, e), at)
  <1>1. PICK k \in 0 .. Len(history) :
          /\ Len(history) = k + Len(dq)
          /\ \A i \in 1 .. Len(dq) : dq[i] = history[k + i]
          /\ \A i \in 1 .. k : history[i] + Window < at
    BY DEF IsWhatIsLeft
  <1> DEFINE more == Append(dq, e)
             longer == Append(history, e)
  <1>2. /\ Len(more) = Len(dq) + 1 /\ more[Len(dq) + 1] = e
        /\ \A i \in 1 .. Len(dq) : more[i] = dq[i]
        /\ Len(longer) = Len(history) + 1 /\ longer[Len(history) + 1] = e
        /\ \A i \in 1 .. Len(history) : longer[i] = history[i]
    OBVIOUS
  <1>3. Len(dq) \in Nat /\ Len(history) \in Nat /\ k \in Nat
    OBVIOUS
  <1> HIDE DEF more, longer
  <1>4. k \in 0 .. Len(longer) /\ Len(longer) = k + Len(more)
    BY <1>1, <1>2, <1>3
  <1>5. ASSUME NEW i \in 1 .. Len(more) PROVE more[i] = longer[k + i]
    <2>1. CASE i <= Len(dq)
      <3>1. i \in 1 .. Len(dq) /\ k + i \in 1 .. Len(history)
        BY <2>1, <1>1, <1>2, <1>3
      <3> QED BY <3>1, <1>1, <1>2
    <2>2. CASE i = Len(dq) + 1
      <3>1. k + i = Len(history) + 1
        BY <2>2, <1>1, <1>3
      <3> QED BY <2>2, <3>1, <1>2
    <2> QED BY <2>1, <2>2, <1>2, <1>3
  <1>6. ASSUME NEW i \in 1 .. k PROVE longer[i] + Window < at
    <2>1. i \in 1 .. Len(history)
      BY <1>1, <1>3
    <2> QED BY <2>1, <1>1, <1>2
  <1>7. IsWhatIsLeft(more, longer, at)
    BY <1>4, <1>5, <1>6 DEF IsWhatIsLeft
  <1> QED BY <1>7 DEF more, longer

\* What has expired stays expired.
LEMMA WhatIsLeftLater ==
  ASSUME NEW dq, NEW history \in Seq(Readings), NEW at \in Nat, NEW later \in Nat,
         at <= later, IsWhatIsLeft(dq, history, at)
  PROVE  IsWhatIsLeft(dq, history, later)
  <1>1. PICK k \in 0 .. Len(history) :
          /\ Len(history) = k + Len(dq)
          /\ \A i \in 1 .. Len(dq) : dq[i] = history[k + i]
          /\ \A i \in 1 .. k : history[i] + Window < at
    BY DEF IsWhatIsLeft
  <1>2. ASSUME NEW i \in 1 .. k PROVE history[i] + Window < later
    <2>1. history[i] \in Readings
      OBVIOUS
    <2> QED BY <1>1, <2>1, LimiterAssumption DEF Readings
  <1> QED BY <1>1, <1>2 DEF IsWhatIsLeft

-----------------------------------------------------------------------------
\* The limiter starts without hits.
LEMMA InitLimiterInv == Init => LimiterInv
  <1> SUFFICES ASSUME Init PROVE LimiterInv
    OBVIOUS
  <1>1. /\ <<>> \in Seq(Readings) /\ Len(<<>>) = 0 /\ 0 \in 0 .. MaxTime
        /\ Idle \in 0 .. Idle /\ 0 <= MaxRequests
    BY LimiterAssumption DEF Idle
  <1>2. LimiterTypeOK
    BY <1>1 DEF Init, LimiterTypeOK
  <1>3. IsWhatIsLeft(hits, granted, clock)
    <2>1. Len(granted) = 0 /\ Len(hits) = 0 /\ 0 \in 0 .. Len(granted)
      BY DEF Init
    <2> QED BY <2>1 DEF IsWhatIsLeft
  <1> QED BY <1>1, <1>2, <1>3 DEF Init, LimiterInv, ReadingsArePast, OldestHitLeaves

\* Checking keeps the invariant: the deque is trimmed, and a hit is added to it
\* and to the history, or the rejection is noted.
LEMMA CheckLimiterInv ==
  ASSUME LimiterInv, NEW t \in Threads, Check(t)
  PROVE  LimiterInv'
  <1> DEFINE n == now[t]
             dq == Trimmed(hits, n)
  <1>0. /\ LimiterTypeOK /\ ReadingsArePast /\ IsWhatIsLeft(hits, granted, clock)
        /\ clock \in 0 .. MaxTime /\ clock \in Nat
        /\ granted \in Seq(Readings) /\ hits \in Seq(Readings)
        /\ Window \in Nat /\ MaxTime \in Nat /\ MaxRequests \in Nat /\ MaxRequests > 0
    BY LimiterAssumption DEF LimiterInv, LimiterTypeOK
  <1>1. n # Idle /\ n <= clock /\ n \in Nat /\ n \in Readings
    BY <1>0 DEF Check, LimiterTypeOK, ReadingsArePast, Idle, Readings
  <1>2. dq \in Seq(Readings) /\ Len(dq) <= MaxRequests /\ IsWhatIsLeft(dq, granted, clock)
    BY <1>1, TrimmedIsWhatIsLeft
  <1>3. \/ /\ Len(dq) >= MaxRequests
           /\ hits' = dq /\ retryAfter' = RetryAfter(dq, n) /\ rejectedAt' = n
           /\ granted' = granted
        \/ /\ ~ (Len(dq) >= MaxRequests)
           /\ hits' = Append(dq, n) /\ granted' = Append(granted, n)
           /\ retryAfter' = 0 /\ rejectedAt' = Idle
    BY DEF Check
  <1>4. now' = [now EXCEPT ![t] = Idle] /\ clock' = clock
    BY DEF Check
  <1> HIDE DEF dq, n
  <1>5. now' \in [Threads -> 0 .. Idle] /\ Idle \in 0 .. Idle
    BY <1>0, <1>4 DEF LimiterTypeOK, Idle
  <1>6. ReadingsArePast'
    BY <1>0, <1>4 DEF ReadingsArePast, LimiterTypeOK
  <1>7. CASE /\ Len(dq) >= MaxRequests
             /\ hits' = dq /\ retryAfter' = RetryAfter(dq, n) /\ rejectedAt' = n
             /\ granted' = granted
    <2>1. Len(dq) \in Nat /\ Len(dq) > 0
      BY <1>0, <1>2, <1>7
    <2>2. dq[1] \in Readings
      BY <1>2, <2>1
    <2>3. dq[1] \in Nat
      BY <1>0, <2>2 DEF Readings
    <2>4. /\ RetryAfter(dq, n) \in Nat
          /\ dq[1] + Window <= n + RetryAfter(dq, n)
      BY <1>0, <1>1, <2>3 DEF RetryAfter
    <2>5. n \in 0 .. Idle
      BY <1>0, <1>1 DEF Readings, Idle
    <2>6. LimiterTypeOK'
      BY <1>0, <1>2, <1>4, <1>5, <1>7, <2>4, <2>5 DEF LimiterTypeOK, Idle
    <2>7. OldestHitLeaves'
      BY <1>7, <2>4 DEF OldestHitLeaves
    <2> QED BY <1>2, <1>4, <1>6, <1>7, <2>6, <2>7 DEF LimiterInv
  <1>8. CASE /\ ~ (Len(dq) >= MaxRequests)
             /\ hits' = Append(dq, n) /\ granted' = Append(granted, n)
             /\ retryAfter' = 0 /\ rejectedAt' = Idle
    <2>1. Append(dq, n) \in Seq(Readings) /\ Append(granted, n) \in Seq(Readings)
          /\ Len(Append(dq, n)) = Len(dq) + 1 /\ Len(dq) \in Nat
      BY <1>0, <1>1, <1>2
    <2>2. Len(Append(dq, n)) <= MaxRequests
      BY <1>0, <1>8, <2>1
    <2>3. IsWhatIsLeft(Append(dq, n), Append(granted, n), clock)
      BY <1>0, <1>1, <1>2, AppendedIsWhatIsLeft
    <2>4. LimiterTypeOK'
      BY <1>0, <1>4, <1>5, <1>8, <2>1 DEF LimiterTypeOK, Idle
    <2>5. OldestHitLeaves'
      BY <1>8 DEF OldestHitLeaves, Idle
    <2> QED BY <1>4, <1>6, <1>8, <2>2, <2>3, <2>4, <2>5 DEF LimiterInv
  <1> QED BY <1>3, <1>7, <1>8

\* Every step of the limiter keeps its invariant.
LEMMA StepLimiterInv == LimiterInv /\ [Next]_vars => LimiterInv'
  <1> SUFFICES ASSUME LimiterInv, [Next]_vars PROVE LimiterInv'
    OBVIOUS
  <1>0. /\ LimiterTypeOK /\ ReadingsArePast /\ IsWhatIsLeft(hits, granted, clock)
        /\ Len(hits) <= MaxRequests /\ OldestHitLeaves
        /\ clock \in 0 .. MaxTime /\ clock \in Nat /\ MaxTime \in Nat /\ MaxRequests \in Nat
        /\ granted \in Seq(Readings)
    BY LimiterAssumption DEF LimiterInv, LimiterTypeOK
  <1>1. CASE Tick
    <2>1. clock' \in 0 .. MaxTime /\ clock <= clock' /\ clock' \in Nat
          /\ UNCHANGED <<hits, now, retryAfter, rejectedAt, granted>>
      BY <1>0, <1>1 DEF Tick
    <2>2. LimiterTypeOK' /\ OldestHitLeaves'
      BY <1>0, <2>1 DEF LimiterTypeOK, Idle, Readings, OldestHitLeaves
    <2>3. ReadingsArePast'
      <3> SUFFICES ASSUME NEW t \in Threads, now[t] # Idle PROVE now[t] <= clock'
        BY <2>1 DEF ReadingsArePast, Idle
      <3>1. now[t] <= clock /\ now[t] \in 0 .. Idle /\ Idle \in Nat
        BY <1>0 DEF ReadingsArePast, LimiterTypeOK, Idle
      <3> QED BY <3>1, <1>0, <2>1
    <2>4. IsWhatIsLeft(hits, granted, clock')
      BY <1>0, <2>1, WhatIsLeftLater
    <2> QED BY <1>0, <2>1, <2>2, <2>3, <2>4 DEF LimiterInv
  <1>2. CASE Reset
    <2>1. hits' = <<>> /\ granted' = <<>> /\ UNCHANGED <<clock, now, retryAfter, rejectedAt>>
      BY <1>2 DEF Reset
    <2>2. <<>> \in Seq(Readings) /\ Len(<<>>) = 0 /\ 0 \in 0 .. Len(<<>>)
          /\ ~ (Len(<<>>) > 0) /\ Len(<<>>) <= MaxRequests
      BY <1>0
    <2>3. LimiterTypeOK' /\ ReadingsArePast' /\ OldestHitLeaves'
      BY <1>0, <2>1, <2>2 DEF LimiterTypeOK, Idle, Readings, OldestHitLeaves, ReadingsArePast
    <2>4. IsWhatIsLeft(<<>>, <<>>, clock)
      BY <2>2 DEF IsWhatIsLeft
    <2> QED BY <2>1, <2>2, <2>3, <2>4 DEF LimiterInv
  <1>3. ASSUME NEW t \in Threads, ReadClock(t) PROVE LimiterInv'
    <2>1. /\ now' = [now EXCEPT ![t] = clock]
          /\ UNCHANGED <<clock, hits, retryAfter, rejectedAt, granted>>
      BY <1>3 DEF ReadClock
    <2>2. LimiterTypeOK'
      BY <1>0, <2>1 DEF LimiterTypeOK, Idle, Readings
    <2>3. ReadingsArePast'
      BY <1>0, <2>1 DEF ReadingsArePast, LimiterTypeOK
    <2> QED BY <1>0, <2>1, <2>2, <2>3 DEF LimiterInv, OldestHitLeaves, Idle
  <1>4. ASSUME NEW t \in Threads, Check(t) PROVE LimiterInv'
    BY <1>4, CheckLimiterInv
  <1>5. CASE UNCHANGED vars
    BY <1>0, <1>5 DEF vars, LimiterInv, LimiterTypeOK, ReadingsArePast, OldestHitLeaves,
                      Idle, Readings
  <1> QED BY <1>1, <1>2, <1>3, <1>4, <1>5 DEF Next

\* The invariant holds in every state the limiter reaches: its deque holds what is
\* left of the registered hits, at most max_requests of them, and the newest
\* Retry-After lasts until the oldest expires.
THEOREM LimiterInvariant == Spec => []LimiterInv
  BY InitLimiterInv, StepLimiterInv, PTL DEF Spec

-----------------------------------------------------------------------------
\* What the invariant says of the current window.
LEMMA LimiterInvRate == LimiterInv => CurrentWindowRate
  <1> SUFFICES ASSUME LimiterInv PROVE CurrentWindowRate
    OBVIOUS
  <1>0. /\ clock \in Nat /\ granted \in Seq(Readings) /\ Len(hits) \in Nat
        /\ Len(hits) <= MaxRequests /\ Window \in Nat /\ MaxRequests \in Nat
    BY LimiterAssumption DEF LimiterInv, LimiterTypeOK
  <1>1. PICK k \in 0 .. Len(granted) :
          /\ Len(granted) = k + Len(hits)
          /\ \A i \in 1 .. k : granted[i] + Window < clock
    BY DEF LimiterInv, IsWhatIsLeft
  <1>2. Len(granted) \in Nat /\ k \in Nat
    BY <1>0
  <1> DEFINE inside == {i \in DOMAIN granted : clock <= granted[i] + Window}
             rest == k + 1 .. Len(granted)
  <1>3. inside \subseteq rest
    <2> SUFFICES ASSUME NEW i \in inside PROVE i \in rest
      OBVIOUS
    <2>1. i \in 1 .. Len(granted)
      BY <1>0
    <2>2. granted[i] \in Readings
      BY <1>0, <2>1
    <2>3. granted[i] \in Nat
      BY <2>2, LimiterAssumption DEF Readings
    <2>4. ~ (granted[i] + Window < clock)
      BY <1>0, <2>3
    <2> QED BY <1>1, <1>2, <2>1, <2>4
  <1>4. IsFiniteSet(rest) /\ Cardinality(rest) = Len(hits)
    <2>1. k + 1 \in Int /\ Len(granted) \in Int
      BY <1>2
    <2>2. IsFiniteSet(rest)
          /\ Cardinality(rest) = IF k + 1 > Len(granted) THEN 0 ELSE Len(granted) - (k + 1) + 1
      BY <2>1, FS_Interval
    <2> QED BY <2>2, <1>0, <1>1, <1>2
  <1> HIDE DEF inside, rest
  <1>5. Cardinality(inside) <= Cardinality(rest) /\ IsFiniteSet(inside)
    BY <1>3, <1>4, FS_Subset
  <1>6. Cardinality(inside) \in Nat
    BY <1>5, FS_CardinalityType
  <1>7. Cardinality(inside) <= MaxRequests
    BY <1>0, <1>4, <1>5, <1>6
  <1> QED BY <1>7 DEF CurrentWindowRate, inside

\* However the threads overtake one another, no more hits than max_requests are
\* registered in the window that ends now (RateLimiter.check).
THEOREM RateAlwaysKept == Spec => []CurrentWindowRate
  BY LimiterInvariant, LimiterInvRate, PTL

\* A client that waits as long as the Retry-After header of its newest rejection
\* says is not rejected again (rate_limit, dashboard/server.py).
THEOREM HeaderWaitAlwaysEnough == Spec => HeaderWaitIsEnough
  <1>1. ASSUME LimiterInv, [Next]_vars, NEW t \in Threads, Rejected(t)
        PROVE  rejectedAt = Idle \/ now[t] < rejectedAt + RetryAfterHeader
    <2> SUFFICES ASSUME rejectedAt # Idle, ~ (now[t] < rejectedAt + RetryAfterHeader)
                 PROVE FALSE
      OBVIOUS
    <2>0. /\ hits \in Seq(Readings) /\ clock \in 0 .. MaxTime
          /\ now \in [Threads -> 0 .. Idle] /\ rejectedAt \in 0 .. Idle /\ retryAfter \in Nat
          /\ Len(hits) <= MaxRequests /\ OldestHitLeaves
          /\ Window \in Nat /\ MaxTime \in Nat /\ MaxRequests \in Nat /\ MaxRequests > 0
      BY <1>1, LimiterAssumption DEF LimiterInv, LimiterTypeOK
    <2>1. now[t] # Idle /\ now'[t] = Idle /\ rejectedAt' # Idle
      BY <1>1 DEF Rejected
    <2>2. Check(t)
      <3>1. CASE Tick
        BY <2>1, <3>1 DEF Tick
      <3>2. CASE Reset
        BY <2>1, <3>2 DEF Reset
      <3>3. ASSUME NEW u \in Threads, ReadClock(u) PROVE FALSE
        <4>1. now' = [now EXCEPT ![u] = clock] /\ clock # Idle
          BY <2>0, <3>3 DEF ReadClock, Idle
        <4> QED BY <2>0, <2>1, <4>1
      <3>4. ASSUME NEW u \in Threads, Check(u) PROVE u = t
        BY <2>0, <2>1, <3>4 DEF Check
      <3>5. CASE UNCHANGED vars
        BY <2>1, <3>5 DEF vars
      <3> QED BY <1>1, <3>1, <3>2, <3>3, <3>4, <3>5 DEF Next
    <2> DEFINE n == now[t]
               dq == Trimmed(hits, n)
    <2>3. Len(dq) >= MaxRequests
      BY <2>1, <2>2 DEF Check, Idle
    <2>4. n \in 0 .. Idle /\ Idle \in Nat
      BY <2>0 DEF Idle
    <2>5. n \in Nat /\ rejectedAt \in Nat
      <3> HIDE DEF n
      <3> QED BY <2>0, <2>4
    <2>6. dq \in Seq(Readings)
      BY <2>0, <2>5, TrimmedIsSuffix
    <2>7. PICK j \in 0 .. Len(hits) :
            /\ Len(hits) = j + Len(dq)
            /\ j < Len(hits) => ~ (hits[j + 1] + Window < n)
      BY <2>0, <2>5, TrimmedIsSuffix
    <2>8. ~ (n < rejectedAt + RetryAfterHeader)
      OBVIOUS
    <2> HIDE DEF dq, n
    <2>9. Len(dq) \in Nat /\ Len(hits) \in Nat /\ j \in Nat
      BY <2>0, <2>6
    <2>10. j = 0 /\ Len(hits) > 0
      BY <2>0, <2>3, <2>7, <2>9
    <2>11. ~ (hits[1] + Window < n)
      BY <2>7, <2>10
    <2>12. hits[1] + Window <= rejectedAt + retryAfter
      BY <2>0, <2>10 DEF OldestHitLeaves
    <2>13. hits[1] \in Readings
      BY <2>0, <2>9, <2>10
    <2>14. hits[1] \in Nat
      BY <2>0, <2>13 DEF Readings
    <2>15. RetryAfterHeader \in Nat /\ retryAfter < RetryAfterHeader
      BY <2>0, HeaderIsLonger
    <2> QED BY <2>0, <2>5, <2>8, <2>11, <2>12, <2>14, <2>15
  <1>2. LimiterInv /\ [Next]_vars
          => [\A t \in Threads :
                Rejected(t) => rejectedAt = Idle \/ now[t] < rejectedAt + RetryAfterHeader]_vars
    BY <1>1
  <1> QED BY <1>2, LimiterInvariant, PTL DEF Spec, HeaderWaitIsEnough

-----------------------------------------------------------------------------
\* What a step of the dashboard does to the limiter is a step of the limiter.
LEMMA DashboardStepIsLimiterStep == [DashboardNext]_dashboardVars => [Next]_vars
  <1> SUFFICES ASSUME [DashboardNext]_dashboardVars PROVE [Next]_vars
    OBVIOUS
  <1>1. CASE (Tick \/ Reset) /\ UNCHANGED storeVars
    BY <1>1 DEF Next
  <1>2. CASE Commit
    BY <1>2 DEF Commit, limiterVars, vars
  <1>3. ASSUME NEW t \in Threads, Arrive(t) PROVE Next
    BY <1>3 DEF Arrive, Next
  <1>4. ASSUME NEW t \in Threads, RateLimit(t) PROVE Next
    BY <1>4 DEF RateLimit, Next
  <1>5. ASSUME NEW t \in Threads, Authenticate(t) \/ Recent(t) \/ CountAll(t)
                                    \/ CountVerdicts(t) \/ ReadFails(t) \/ Send(t)
        PROVE  UNCHANGED vars
    BY <1>5 DEF Authenticate, Recent, CountAll, CountVerdicts, ReadFails, Send, limiterVars, vars
  <1>6. CASE UNCHANGED dashboardVars
    BY <1>6 DEF dashboardVars, limiterVars, vars
  <1> QED BY <1>1, <1>2, <1>3, <1>4, <1>5, <1>6 DEF DashboardNext, ThreadStep

\* The dashboard uses the limiter as the limiter is specified: whatever the
\* requests do besides, its part of their state behaves as a RateLimiter.
THEOREM DashboardImplementsLimiter == DashboardSpec => Spec
  <1>1. DashboardInit => Init
    BY DEF DashboardInit
  <1> QED BY <1>1, DashboardStepIsLimiterStep, PTL DEF DashboardSpec, Spec

\* The dashboard keeps the rate, and its Retry-After header is long enough.
THEOREM DashboardKeepsRate == DashboardSpec => []CurrentWindowRate /\ HeaderWaitIsEnough
  BY DashboardImplementsLimiter, RateAlwaysKept, HeaderWaitAlwaysEnough, PTL

-----------------------------------------------------------------------------
\* The rows among some positions that have a verdict: no fewer among more
\* positions, and at most one more for each further position.
LEMMA CountGrows ==
  ASSUME NEW m \in Nat, NEW n \in Nat, m <= n, NEW v
  PROVE  /\ CountOf(m, v) \in Nat /\ CountOf(n, v) \in Nat
         /\ CountOf(m, v) <= CountOf(n, v)
         /\ CountOf(n, v) <= CountOf(m, v) + (n - m)
         /\ CountOf(m, v) <= m
  <1> DEFINE few == {i \in 1 .. m : rows[i] = v}
             many == {i \in 1 .. n : rows[i] = v}
             more == m + 1 .. n
  <1>1. IsFiniteSet(1 .. m) /\ Cardinality(1 .. m) = m /\ IsFiniteSet(1 .. n)
    <2>1. /\ IsFiniteSet(1 .. m) /\ IsFiniteSet(1 .. n)
          /\ Cardinality(1 .. m) = IF 1 > m THEN 0 ELSE m - 1 + 1
      BY FS_Interval
    <2> QED BY <2>1
  <1>2. IsFiniteSet(more) /\ Cardinality(more) = n - m
    <2>1. m + 1 \in Int /\ n \in Int
      OBVIOUS
    <2>2. IsFiniteSet(more) /\ Cardinality(more) = IF m + 1 > n THEN 0 ELSE n - (m + 1) + 1
      BY <2>1, FS_Interval
    <2> QED BY <2>2
  <1>3. few \subseteq 1 .. m /\ many \subseteq 1 .. n /\ few \subseteq many
        /\ many \subseteq few \cup more
    OBVIOUS
  <1>4. CountOf(m, v) = Cardinality(few) /\ CountOf(n, v) = Cardinality(many)
    BY DEF CountOf
  <1> HIDE DEF few, many, more
  <1>5. IsFiniteSet(few) /\ IsFiniteSet(many) /\ Cardinality(few) <= m
    BY <1>1, <1>3, FS_Subset
  <1>6. Cardinality(few) <= Cardinality(many)
    BY <1>3, <1>5, FS_Subset
  <1>7. Cardinality(few) \in Nat /\ Cardinality(many) \in Nat
    BY <1>5, FS_CardinalityType
  <1>8. Cardinality(many) <= Cardinality(few) + (n - m)
    <2> DEFINE both == few \cup more
    <2>1. /\ IsFiniteSet(both)
          /\ Cardinality(both)
               = Cardinality(few) + Cardinality(more) - Cardinality(few \cap more)
      BY <1>2, <1>5, FS_Union
    <2>2. Cardinality(few \cap more) \in Nat
      BY <1>5, FS_Intersection, FS_CardinalityType
    <2>3. many \subseteq both
      BY <1>3
    <2> HIDE DEF both
    <2>4. Cardinality(many) <= Cardinality(both)
      BY <2>1, <2>3, FS_Subset
    <2>5. Cardinality(both) \in Nat
      BY <2>1, FS_CardinalityType
    <2> QED BY <1>2, <1>7, <2>1, <2>2, <2>4, <2>5
  <1> QED BY <1>4, <1>5, <1>6, <1>7, <1>8

\* A table that only grows does not lose rows with a verdict.
LEMMA CountKept ==
  ASSUME rows \in Seq(Verdicts), NEW v \in Verdicts, rows' = Append(rows, v)
  PROVE  /\ Len(rows') = Len(rows) + 1
         /\ CountOf(Len(rows), "BLOCK") <= CountOf(Len(rows), "BLOCK")'
  <1> DEFINE old == {i \in 1 .. Len(rows) : rows[i] = "BLOCK"}
             new == {i \in 1 .. Len(rows') : rows'[i] = "BLOCK"}
  <1>1. Len(rows') = Len(rows) + 1 /\ Len(rows) \in Nat
        /\ \A i \in 1 .. Len(rows) : rows'[i] = rows[i]
    OBVIOUS
  <1>2. old \subseteq new /\ new \subseteq 1 .. Len(rows')
    BY <1>1
  <1>3. IsFiniteSet(1 .. Len(rows'))
    BY <1>1, FS_Interval
  <1> HIDE DEF old, new
  <1>4. Cardinality(old) <= Cardinality(new)
    BY <1>2, <1>3, FS_Subset
  <1> QED BY <1>1, <1>4 DEF CountOf, old, new

\* An empty table has no rows.
LEMMA InitStoreInv == DashboardInit => StoreInv
  <1> SUFFICES ASSUME DashboardInit PROVE StoreInv
    OBVIOUS
  <1>1. <<>> \in Seq(Verdicts) /\ Len(<<>>) = 0
    OBVIOUS
  <1>2. CountOf(0, "BLOCK") = 0
    BY CountGrows
  <1>3. StoreTypeOK
    BY <1>1 DEF DashboardInit, StoreTypeOK, NotRead, Steps
  <1>4. ReadsAreOrdered /\ LockIsHeldByReader
    BY <1>1, DashboardAssumption DEF DashboardInit, ReadsAreOrdered, LockIsHeldByReader, NotRead
  <1>5. ShownIsPast
    BY <1>1, <1>2 DEF DashboardInit, ShownIsPast
  <1> QED BY <1>3, <1>4, <1>5 DEF StoreInv

\* Every step of the dashboard keeps the store's invariant.
LEMMA StepStoreInv == StoreInv /\ [DashboardNext]_dashboardVars => StoreInv'
  <1> SUFFICES ASSUME StoreInv, [DashboardNext]_dashboardVars PROVE StoreInv'
    OBVIOUS
  <1>0. /\ StoreTypeOK /\ ReadsAreOrdered /\ LockIsHeldByReader /\ ShownIsPast
        /\ rows \in Seq(Verdicts) /\ Len(rows) \in Nat
        /\ step \in [Threads -> Steps] /\ read \in [Threads -> [recent : Nat, total : Nat, verdicts : Nat]]
        /\ shown \in [total : Nat, blocked : Nat]
        /\ lock \in Threads \cup {Nothing} /\ Nothing \notin Threads
    BY DashboardAssumption DEF StoreInv, StoreTypeOK
  <1>1. ASSUME UNCHANGED <<rows, step, read, lock, shown>> PROVE StoreInv'
    <2>1. CountOf(Len(rows), "BLOCK")' = CountOf(Len(rows), "BLOCK")
      BY <1>1 DEF CountOf
    <2> QED BY <1>0, <1>1, <2>1
            DEF StoreInv, StoreTypeOK, ReadsAreOrdered, LockIsHeldByReader, ShownIsPast
  <1>2. ASSUME NEW t \in Threads, NEW s \in Steps \ {"verdicts", "sending"},
               step[t] # "verdicts",
               step' = [step EXCEPT ![t] = s], UNCHANGED <<rows, read, lock, shown>>
        PROVE  StoreInv'
    <2>1. CountOf(Len(rows), "BLOCK")' = CountOf(Len(rows), "BLOCK")
      BY <1>2 DEF CountOf
    <2> QED BY <1>0, <1>2, <2>1
            DEF StoreInv, StoreTypeOK, ReadsAreOrdered, LockIsHeldByReader, ShownIsPast
  <1>3. CASE (Tick \/ Reset) /\ UNCHANGED storeVars
    BY <1>1, <1>3 DEF storeVars
  <1>4. CASE Commit
    <2>1. PICK v \in Verdicts : rows' = Append(rows, v)
      BY <1>4 DEF Commit
    <2>2. UNCHANGED <<step, read, lock, shown>>
      BY <1>4 DEF Commit
    <2>3. /\ Len(rows') = Len(rows) + 1 /\ rows' \in Seq(Verdicts)
          /\ CountOf(Len(rows), "BLOCK") <= CountOf(Len(rows), "BLOCK")'
      BY <1>0, <2>1, CountKept
    <2>4. StoreTypeOK' /\ LockIsHeldByReader'
      BY <1>0, <2>2, <2>3 DEF StoreTypeOK, LockIsHeldByReader
    <2>5. ReadsAreOrdered'
      BY <1>0, <2>2, <2>3 DEF ReadsAreOrdered
    <2>6. CountOf(Len(rows), "BLOCK") \in Nat
      BY <1>0, CountGrows
    <2>7. CountOf(Len(rows), "BLOCK")' \in Nat
      <3> DEFINE new == {i \in 1 .. Len(rows') : rows'[i] = "BLOCK"}
      <3>1. IsFiniteSet(1 .. Len(rows'))
        BY <1>0, <2>3, FS_Interval
      <3>2. IsFiniteSet(new)
        BY <3>1, FS_Subset
      <3> HIDE DEF new
      <3>3. Cardinality(new) \in Nat
        BY <3>2, FS_CardinalityType
      <3> QED BY <3>3 DEF CountOf, new
    <2>8. shown.total \in Nat /\ shown.blocked \in Nat
      BY <1>0
    <2>9. shown.blocked <= CountOf(Len(rows), "BLOCK")'
      BY <1>0, <2>3, <2>6, <2>7, <2>8 DEF ShownIsPast
    <2>10. ShownIsPast'
      BY <1>0, <2>2, <2>3, <2>8, <2>9 DEF ShownIsPast
    <2> QED BY <2>4, <2>5, <2>10 DEF StoreInv
  <1>5. ASSUME NEW t \in Threads, Arrive(t) PROVE StoreInv'
    BY <1>0, <1>2, <1>5 DEF Arrive, Steps
  <1>6. ASSUME NEW t \in Threads, RateLimit(t) PROVE StoreInv'
    BY <1>0, <1>2, <1>6 DEF RateLimit, Steps
  <1>7. ASSUME NEW t \in Threads, Authenticate(t) PROVE StoreInv'
    <2>1. PICK s \in {"recent", "total", "idle"} : step' = [step EXCEPT ![t] = s]
      BY <1>7 DEF Authenticate
    <2> QED BY <1>0, <1>2, <1>7, <2>1 DEF Authenticate, Steps
  <1>8. ASSUME NEW t \in Threads, Recent(t) PROVE StoreInv'
    <2>1. /\ step[t] = "recent" /\ UNCHANGED <<rows, lock, shown>>
          /\ read' = [read EXCEPT ![t].recent = Len(rows)]
          /\ step' = [step EXCEPT ![t] = "total"]
      BY <1>8 DEF Recent
    <2> DEFINE r == [recent |-> Len(rows), total |-> read[t].total,
                     verdicts |-> read[t].verdicts]
    <2>2. read' = [read EXCEPT ![t] = r] /\ r \in [recent : Nat, total : Nat, verdicts : Nat]
          /\ r.recent = Len(rows) /\ r.total = read[t].total /\ r.verdicts = read[t].verdicts
      <3>1. read[t] \in [recent : Nat, total : Nat, verdicts : Nat]
        BY <1>0
      <3>2. r \in [recent : Nat, total : Nat, verdicts : Nat]
        BY <1>0, <3>1
      <3> DEFINE old == read[t]
      <3> HIDE DEF old
      <3>3. old = [recent |-> old.recent, total |-> old.total, verdicts |-> old.verdicts]
        BY <3>1 DEF old
      <3>4. [old EXCEPT !.recent = Len(rows)] = r
        BY <3>3 DEF old
      <3>5. read' = [read EXCEPT ![t] = [old EXCEPT !.recent = Len(rows)]]
        BY <2>1 DEF old
      <3> QED BY <3>2, <3>4, <3>5
    <2> HIDE DEF r
    <2>3. CountOf(Len(rows), "BLOCK")' = CountOf(Len(rows), "BLOCK")
      BY <2>1 DEF CountOf
    <2>4. StoreTypeOK' /\ LockIsHeldByReader'
      <3>1. read' \in [Threads -> [recent : Nat, total : Nat, verdicts : Nat]]
        BY <1>0, <2>2 DEF StoreTypeOK
      <3>2. step' \in [Threads -> Steps]
        BY <1>0, <2>1 DEF StoreTypeOK, Steps
      <3>3. LockIsHeldByReader'
        BY <1>0, <2>1 DEF StoreTypeOK, LockIsHeldByReader
      <3> QED BY <1>0, <2>1, <3>1, <3>2, <3>3 DEF StoreTypeOK
    <2>5. ReadsAreOrdered'
      BY <1>0, <2>1, <2>2 DEF ReadsAreOrdered
    <2>6. ShownIsPast'
      BY <1>0, <2>1, <2>2, <2>3 DEF ShownIsPast
    <2> QED BY <2>4, <2>5, <2>6 DEF StoreInv
  <1>9. ASSUME NEW t \in Threads, CountAll(t) PROVE StoreInv'
    <2>1. /\ step[t] = "total" /\ lock = Nothing /\ lock' = t /\ UNCHANGED <<rows, shown>>
          /\ read' = [read EXCEPT ![t].total = Len(rows)]
          /\ step' = [step EXCEPT ![t] = "verdicts"]
      BY <1>9 DEF CountAll
    <2> DEFINE r == [recent |-> read[t].recent, total |-> Len(rows),
                     verdicts |-> read[t].verdicts]
    <2>2. read' = [read EXCEPT ![t] = r] /\ r \in [recent : Nat, total : Nat, verdicts : Nat]
          /\ r.recent = read[t].recent /\ r.total = Len(rows) /\ r.verdicts = read[t].verdicts
      <3>1. read[t] \in [recent : Nat, total : Nat, verdicts : Nat]
        BY <1>0
      <3>2. r \in [recent : Nat, total : Nat, verdicts : Nat]
        BY <1>0, <3>1
      <3> DEFINE old == read[t]
      <3> HIDE DEF old
      <3>3. old = [recent |-> old.recent, total |-> old.total, verdicts |-> old.verdicts]
        BY <3>1 DEF old
      <3>4. [old EXCEPT !.total = Len(rows)] = r
        BY <3>3 DEF old
      <3>5. read' = [read EXCEPT ![t] = [old EXCEPT !.total = Len(rows)]]
        BY <2>1 DEF old
      <3> QED BY <3>2, <3>4, <3>5
    <2> HIDE DEF r
    <2>3. CountOf(Len(rows), "BLOCK")' = CountOf(Len(rows), "BLOCK")
      BY <2>1 DEF CountOf
    <2>4. StoreTypeOK'
      <3>1. read' \in [Threads -> [recent : Nat, total : Nat, verdicts : Nat]]
        BY <1>0, <2>2 DEF StoreTypeOK
      <3>2. step' \in [Threads -> Steps]
        BY <1>0, <2>1 DEF StoreTypeOK, Steps
      <3> QED BY <1>0, <2>1, <3>1, <3>2 DEF StoreTypeOK
    <2>5. LockIsHeldByReader'
      BY <1>0, <2>1 DEF LockIsHeldByReader
    <2>6. ReadsAreOrdered'
      BY <1>0, <2>1, <2>2 DEF ReadsAreOrdered
    <2>7. ShownIsPast'
      <3>1. \A u \in Threads : step'[u] = "verdicts" => u = t
        BY <1>0, <2>1 DEF LockIsHeldByReader
      <3>2. ASSUME NEW u \in Threads, step'[u] = "sending"
            PROVE  read'[u].total <= Len(rows)
        BY <1>0, <2>1, <2>2, <3>2 DEF ReadsAreOrdered
      <3>3. read'[t].total = Len(rows) /\ rows' = rows /\ shown' = shown
        BY <1>0, <2>1, <2>2
      <3>4. shown.total <= Len(rows) /\ shown.blocked <= CountOf(Len(rows), "BLOCK")'
        BY <1>0, <2>3 DEF ShownIsPast
      <3> QED BY <3>1, <3>2, <3>3, <3>4 DEF ShownIsPast
    <2> QED BY <2>4, <2>5, <2>6, <2>7 DEF StoreInv
  <1>10. ASSUME NEW t \in Threads, CountVerdicts(t) PROVE StoreInv'
    <2>1. /\ step[t] = "verdicts" /\ lock' = Nothing /\ UNCHANGED <<rows, shown>>
          /\ read' = [read EXCEPT ![t].verdicts = Len(rows)]
          /\ step' = [step EXCEPT ![t] = "sending"]
      BY <1>10 DEF CountVerdicts
    <2> DEFINE r == [recent |-> read[t].recent, total |-> read[t].total,
                     verdicts |-> Len(rows)]
    <2>2. read' = [read EXCEPT ![t] = r] /\ r \in [recent : Nat, total : Nat, verdicts : Nat]
          /\ r.recent = read[t].recent /\ r.total = read[t].total /\ r.verdicts = Len(rows)
      <3>1. read[t] \in [recent : Nat, total : Nat, verdicts : Nat]
        BY <1>0
      <3>2. r \in [recent : Nat, total : Nat, verdicts : Nat]
        BY <1>0, <3>1
      <3> DEFINE old == read[t]
      <3> HIDE DEF old
      <3>3. old = [recent |-> old.recent, total |-> old.total, verdicts |-> old.verdicts]
        BY <3>1 DEF old
      <3>4. [old EXCEPT !.verdicts = Len(rows)] = r
        BY <3>3 DEF old
      <3>5. read' = [read EXCEPT ![t] = [old EXCEPT !.verdicts = Len(rows)]]
        BY <2>1 DEF old
      <3> QED BY <3>2, <3>4, <3>5
    <2> HIDE DEF r
    <2>3. lock = t
      BY <1>0, <2>1 DEF LockIsHeldByReader
    <2>4. CountOf(Len(rows), "BLOCK")' = CountOf(Len(rows), "BLOCK")
      BY <2>1 DEF CountOf
    <2>5. StoreTypeOK'
      <3>1. read' \in [Threads -> [recent : Nat, total : Nat, verdicts : Nat]]
        BY <1>0, <2>2 DEF StoreTypeOK
      <3>2. step' \in [Threads -> Steps]
        BY <1>0, <2>1 DEF StoreTypeOK, Steps
      <3> QED BY <1>0, <2>1, <3>1, <3>2 DEF StoreTypeOK
    <2>6. \A u \in Threads : step'[u] # "verdicts"
      BY <1>0, <2>1, <2>3 DEF LockIsHeldByReader
    <2>7. LockIsHeldByReader'
      BY <1>0, <2>1, <2>6 DEF LockIsHeldByReader
    <2>8. ReadsAreOrdered'
      BY <1>0, <2>1, <2>2 DEF ReadsAreOrdered
    <2>9. ShownIsPast'
      BY <1>0, <2>1, <2>4, <2>6 DEF ShownIsPast
    <2> QED BY <2>5, <2>7, <2>8, <2>9 DEF StoreInv
  <1>11. ASSUME NEW t \in Threads, ReadFails(t) PROVE StoreInv'
    <2>1. /\ lock \in {Nothing, t} /\ lock' = Nothing /\ UNCHANGED <<rows, shown>>
          /\ step' = [step EXCEPT ![t] = "idle"]
          /\ read' = [read EXCEPT ![t] = NotRead]
      BY <1>11 DEF ReadFails, Leave
    <2>2. CountOf(Len(rows), "BLOCK")' = CountOf(Len(rows), "BLOCK")
      BY <2>1 DEF CountOf
    <2>3. StoreTypeOK'
      BY <1>0, <2>1 DEF StoreTypeOK, Steps, NotRead
    <2>4. LockIsHeldByReader'
      BY <1>0, <2>1 DEF LockIsHeldByReader
    <2>5. ReadsAreOrdered'
      BY <1>0, <2>1 DEF ReadsAreOrdered, NotRead
    <2>6. ShownIsPast'
      BY <1>0, <2>1, <2>2 DEF ShownIsPast
    <2> QED BY <2>3, <2>4, <2>5, <2>6 DEF StoreInv
  <1>12. ASSUME NEW t \in Threads, Send(t) PROVE StoreInv'
    <2>1. /\ step[t] = "sending" /\ UNCHANGED <<rows, lock>>
          /\ shown' = [total |-> Higher(shown.total, Stats(t).total),
                       blocked |-> Higher(shown.blocked, Stats(t).blocked)]
          /\ step' = [step EXCEPT ![t] = "idle"]
          /\ read' = [read EXCEPT ![t] = NotRead]
      BY <1>12 DEF Send, Leave
    <2>2. CountOf(Len(rows), "BLOCK")' = CountOf(Len(rows), "BLOCK")
      BY <2>1 DEF CountOf
    <2>3. read[t].total \in Nat /\ read[t].total <= Len(rows)
          /\ read[t].verdicts \in Nat /\ read[t].verdicts <= Len(rows)
      <3>1. read[t] \in [recent : Nat, total : Nat, verdicts : Nat]
        BY <1>0
      <3> QED BY <1>0, <3>1 DEF ReadsAreOrdered
    <2>4. /\ CountOf(read[t].verdicts, "BLOCK") \in Nat /\ CountOf(Len(rows), "BLOCK") \in Nat
          /\ CountOf(read[t].verdicts, "BLOCK") <= CountOf(Len(rows), "BLOCK")
      BY <1>0, <2>3, CountGrows
    <2>5. Stats(t).total = read[t].total /\ Stats(t).blocked = CountOf(read[t].verdicts, "BLOCK")
      BY DEF Stats
    <2>6. shown.total \in Nat /\ shown.blocked \in Nat
      BY <1>0
    <2>7. /\ shown'.total \in {shown.total, read[t].total}
          /\ shown'.blocked \in {shown.blocked, CountOf(read[t].verdicts, "BLOCK")}
          /\ shown' = [total |-> shown'.total, blocked |-> shown'.blocked]
      BY <2>1, <2>5 DEF Higher
    <2>8. StoreTypeOK'
      <3>1. shown' \in [total : Nat, blocked : Nat]
        BY <2>3, <2>4, <2>6, <2>7
      <3>2. read' \in [Threads -> [recent : Nat, total : Nat, verdicts : Nat]]
        BY <1>0, <2>1 DEF NotRead
      <3>3. step' \in [Threads -> Steps]
        BY <1>0, <2>1 DEF Steps
      <3> QED BY <1>0, <2>1, <3>1, <3>2, <3>3 DEF StoreTypeOK
    <2>9. LockIsHeldByReader'
      BY <1>0, <2>1 DEF LockIsHeldByReader
    <2>10. ReadsAreOrdered'
      BY <1>0, <2>1 DEF ReadsAreOrdered, NotRead
    <2>11. shown'.total <= Len(rows') /\ shown'.blocked <= CountOf(Len(rows), "BLOCK")'
      BY <1>0, <2>1, <2>2, <2>3, <2>4, <2>7 DEF ShownIsPast
    <2>12. ASSUME NEW u \in Threads, step'[u] = "verdicts"
           PROVE  /\ shown'.total <= read'[u].total
                  /\ \A w \in Threads : step'[w] = "sending" => read'[w].total <= read'[u].total
      <3>1. u # t /\ step[u] = "verdicts" /\ read'[u] = read[u]
        BY <1>0, <2>1, <2>12
      <3>2. shown.total <= read[u].total /\ read[t].total <= read[u].total
        BY <1>0, <2>1, <3>1 DEF ShownIsPast
      <3>3. ASSUME NEW w \in Threads, step'[w] = "sending" PROVE read'[w].total <= read'[u].total
        <4>1. w # t /\ step[w] = "sending" /\ read'[w] = read[w]
          BY <1>0, <2>1, <3>3
        <4> QED BY <1>0, <3>1, <4>1 DEF ShownIsPast
      <3> QED BY <2>7, <3>1, <3>2, <3>3
    <2>13. ShownIsPast'
      BY <2>11, <2>12 DEF ShownIsPast
    <2> QED BY <2>8, <2>9, <2>10, <2>13 DEF StoreInv
  <1>13. CASE UNCHANGED dashboardVars
    BY <1>1, <1>13 DEF dashboardVars, storeVars
  <1> QED BY <1>3, <1>4, <1>5, <1>6, <1>7, <1>8, <1>9, <1>10, <1>11, <1>12, <1>13
          DEF DashboardNext, ThreadStep

\* The invariant holds in every state the dashboard reaches: threads read growing
\* parts of the table, one at a time holds the lock, and what was shown is past.
THEOREM StoreInvariant == DashboardSpec => []StoreInv
  BY InitStoreInv, StepStoreInv, PTL DEF DashboardSpec

-----------------------------------------------------------------------------
\* The counts of a thread that has left stats(), in their order.
LEMMA CountsInOrder ==
  ASSUME StoreInv, NEW t \in Threads, Answering(t)
  PROVE  /\ read[t].recent \in Nat /\ read[t].total \in Nat /\ read[t].verdicts \in Nat
         /\ read[t].recent <= read[t].total /\ read[t].total <= read[t].verdicts
         /\ rows \in Seq(Verdicts)
  <1>1. read \in [Threads -> [recent : Nat, total : Nat, verdicts : Nat]] /\ rows \in Seq(Verdicts)
    BY DEF StoreInv, StoreTypeOK
  <1>2. read[t] \in [recent : Nat, total : Nat, verdicts : Nat]
    BY <1>1
  <1> QED BY <1>1, <1>2 DEF StoreInv, ReadsAreOrdered, Answering

\* A page never shows more requests as let through than were, and no more too few
\* than were blocked between the SELECTs (DecisionStore.stats).
THEOREM ThroughNeverOverstated == DashboardSpec => []ThroughIsNeverOverstated
  <1>1. StoreInv => ThroughIsNeverOverstated
    <2> SUFFICES ASSUME StoreInv, NEW t \in Threads, Answering(t)
                 PROVE  LET blocked == CountOf(read[t].total, "BLOCK")
                            since == CountOf(read[t].verdicts, "BLOCK") - blocked
                        IN  /\ Stats(t).through <= read[t].total - blocked
                            /\ Stats(t).through >= read[t].total - blocked - since
      BY DEF ThroughIsNeverOverstated
    <2> DEFINE total == read[t].total
               before == CountOf(read[t].total, "BLOCK")
               after == CountOf(read[t].verdicts, "BLOCK")
    <2>1. total \in Nat /\ read[t].verdicts \in Nat /\ total <= read[t].verdicts
      BY CountsInOrder
    <2>2. before \in Nat /\ after \in Nat /\ before <= after
      BY <2>1, CountGrows
    <2>3. Stats(t).through = total - after
      BY DEF Stats
    <2> HIDE DEF total, before, after
    <2>4. total - after <= total - before
          /\ total - after >= (total - before) - (after - before)
      BY <2>1, <2>2
    <2> QED BY <2>3, <2>4 DEF total, before, after
  <1> QED BY <1>1, StoreInvariant, PTL

\* Every decision that /events lists is counted in the statistics it shows with
\* them, also when decisions are committed in between (events, server.py).
THEOREM EventsAlwaysCounted == DashboardSpec => []EventsAreCounted
  <1>1. StoreInv => EventsAreCounted
    <2> SUFFICES ASSUME StoreInv, NEW t \in Threads, NEW limit \in 1 .. MaxDecisions,
                        NEW v \in Verdicts \cup {Nothing}, Answering(t)
                 PROVE  LET listed == Events(t, limit, v) IN
                        /\ Cardinality(listed) <= Stats(t).total
                        /\ Cardinality({i \in listed : rows[i] = "BLOCK"}) <= Stats(t).blocked
      BY DEF EventsAreCounted
    <2> DEFINE listed == Events(t, limit, v)
               total == read[t].total
               all == read[t].verdicts
               hidden == {i \in listed : rows[i] = "BLOCK"}
               blocked == {i \in 1 .. read[t].verdicts : rows[i] = "BLOCK"}
    <2>1. total \in Nat /\ all \in Nat /\ total <= all
          /\ read[t].recent \in Nat /\ read[t].recent <= total
      BY CountsInOrder
    <2>2. listed \subseteq 1 .. read[t].recent
      BY DEF Events, Newest
    <2>3. listed \subseteq 1 .. total /\ listed \subseteq 1 .. all
      <3> HIDE DEF listed, total, all
      <3> QED BY <2>1, <2>2
    <2>4. hidden \subseteq blocked /\ blocked \subseteq 1 .. all
      <3> HIDE DEF listed
      <3> QED BY <2>3
    <2>5. Stats(t).total = total /\ Stats(t).blocked = Cardinality(blocked)
      BY DEF Stats, CountOf
    <2> HIDE DEF listed, total, all, hidden, blocked
    <2>6. IsFiniteSet(1 .. total) /\ Cardinality(1 .. total) = total /\ IsFiniteSet(1 .. all)
      <3>1. /\ IsFiniteSet(1 .. total) /\ IsFiniteSet(1 .. all)
            /\ Cardinality(1 .. total) = IF 1 > total THEN 0 ELSE total - 1 + 1
        BY <2>1, FS_Interval
      <3> QED BY <3>1, <2>1
    <2>7. Cardinality(listed) <= total
      BY <2>3, <2>6, FS_Subset
    <2>8. IsFiniteSet(blocked)
      BY <2>4, <2>6, FS_Subset
    <2>9. Cardinality(hidden) <= Cardinality(blocked)
      BY <2>4, <2>8, FS_Subset
    <2> QED BY <2>5, <2>7, <2>9 DEF listed, hidden
  <1> QED BY <1>1, StoreInvariant, PTL

\* When stats() returns, neither its total nor its number of blocks is below that
\* of a page sent before, whichever threads computed the two (the lock of stats()).
THEOREM TotalsNeverFall == DashboardSpec => TotalsNeverGoBack
  <1> DEFINE Kept == \A t \in Threads : step[t] = "verdicts" /\ step'[t] = "sending" =>
                       /\ shown.total <= Stats(t)'.total
                       /\ shown.blocked <= Stats(t)'.blocked
  <1>1. StoreInv /\ [DashboardNext]_dashboardVars => [Kept]_dashboardVars
    <2> SUFFICES ASSUME StoreInv, DashboardNext, NEW t \in Threads,
                        step[t] = "verdicts", step'[t] = "sending"
                 PROVE  shown.total <= Stats(t)'.total /\ shown.blocked <= Stats(t)'.blocked
      OBVIOUS
    <2>0. /\ step \in [Threads -> Steps] /\ read \in [Threads -> [recent : Nat, total : Nat, verdicts : Nat]]
          /\ shown.total <= read[t].total /\ shown.blocked <= CountOf(Len(rows), "BLOCK")
      BY DEF StoreInv, StoreTypeOK, ShownIsPast
    <2>1. step' # step
      OBVIOUS
    <2>2. PICK u \in Threads : Arrive(u) \/ ThreadStep(u)
      BY <2>1 DEF DashboardNext, Commit, storeVars
    <2>3. CountVerdicts(t)
      BY <2>0, <2>2
         DEF ThreadStep, Arrive, RateLimit, Authenticate, Recent, CountAll, CountVerdicts,
             ReadFails, Send, Leave, Steps
    <2>4. /\ rows' = rows /\ read'[t].total = read[t].total
          /\ read'[t].verdicts = Len(rows)
      BY <2>0, <2>3 DEF CountVerdicts
    <2>5. Stats(t)'.total = read'[t].total
          /\ Stats(t)'.blocked = CountOf(read[t].verdicts, "BLOCK")'
      BY DEF Stats
    <2>6. CountOf(read[t].verdicts, "BLOCK")' = CountOf(Len(rows), "BLOCK")
      BY <2>4 DEF CountOf
    <2> QED BY <2>0, <2>4, <2>5, <2>6
  <1> QED BY <1>1, StoreInvariant, PTL DEF DashboardSpec, TotalsNeverGoBack

=============================================================================
