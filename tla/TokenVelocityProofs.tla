------------------------- MODULE TokenVelocityProofs -------------------------
(***************************************************************************)
(* Proofs about TokenVelocity: the type invariant, the budget of the       *)
(* current window and the justification of rejections, for every number of *)
(* threads, window, clock bound and set of integer counts.                 *)
(***************************************************************************)
EXTENDS TokenVelocity, FiniteSetTheorems, WellFoundedInduction, TLAPS

-----------------------------------------------------------------------------
\* A non-empty set of natural numbers has a least element.
LEMMA LeastNatural ==
  ASSUME NEW X \in SUBSET Nat, X # {}
  PROVE  \E m \in X : \A k \in X : m <= k
  <1> DEFINE Upto(n) == 0 .. n
             Ts == {Upto(n) : n \in X}
  <1>1. ASSUME NEW n \in X PROVE Upto(n) \in FiniteSubsetsOf(Nat)
    <2>1. IsFiniteSet(0 .. n) /\ 0 .. n \in SUBSET Nat
      BY FS_Interval
    <2> QED BY <2>1 DEF FiniteSubsetsOf
  <1>2. Ts \subseteq FiniteSubsetsOf(Nat) /\ Ts # {}
    <2> HIDE DEF Upto
    <2> QED BY <1>1
  <1>3. PICK m \in X : \A J \in Ts : <<J, Upto(m)>> \notin StrictSubsetOrdering(Nat)
    <2> HIDE DEF Upto, Ts
    <2>1. PICK I \in Ts : \A J \in Ts : <<J, I>> \notin StrictSubsetOrdering(Nat)
      BY <1>2, WFMin, FS_StrictSubsetOrderingWellFounded
    <2> QED BY <2>1 DEF Ts
  <1>4. ASSUME NEW k \in X, k < m PROVE FALSE
    <2>1. Upto(k) \in Ts
      OBVIOUS
    <2>2. Upto(k) \subseteq Upto(m) /\ m \in Upto(m) /\ m \notin Upto(k)
          /\ Upto(m) \subseteq Nat /\ Upto(k) \subseteq Nat
      BY <1>4
    <2>3. <<Upto(k), Upto(m)>> \in StrictSubsetOrdering(Nat)
      <3> HIDE DEF Upto
      <3> QED BY <2>2 DEF StrictSubsetOrdering
    <2> QED BY <1>3, <2>1, <2>3
  <1> QED BY <1>4

\* Min picks the least element of a non-empty set of natural numbers.
LEMMA LeastElement ==
  ASSUME NEW X \in SUBSET Nat, X # {}
  PROVE  Min(X) \in X /\ \A k \in X : Min(X) <= k
  BY LeastNatural DEF Min

\* Induction, for a property given as the set of numbers that have it.
LEMMA InductionOverNat ==
  ASSUME NEW X, 0 \in X, \A n \in Nat : n \in X => n + 1 \in X
  PROVE  Nat \subseteq X
  <1> DEFINE Others == Nat \ X
  <1> SUFFICES ASSUME Others # {} PROVE FALSE
    OBVIOUS
  <1>1. PICK m \in Others : \A k \in Others : m <= k
    <2>1. Others \in SUBSET Nat
      OBVIOUS
    <2> HIDE DEF Others
    <2> QED BY <2>1, LeastNatural
  <1>2. m \in Nat /\ m # 0
    OBVIOUS
  <1>3. m - 1 \in Nat /\ m - 1 \notin Others
    BY <1>1, <1>2
  <1> QED BY <1>2, <1>3

-----------------------------------------------------------------------------
\* The elements of a sequence are of its elements' type.
LEMMA ElementType ==
  ASSUME NEW S, NEW s \in Seq(S), NEW i \in 1 .. Len(s)
  PROVE  s[i] \in S
  OBVIOUS

\* f[n] is the sum of the first n elements of s.
IsPrefixSum(f, s) ==
    /\ f \in [0 .. Len(s) -> Nat]
    /\ f[0] = 0
    /\ \A n \in 1 .. Len(s) : f[n] = f[n - 1] + s[n]

\* Total is the last of the prefix sums.
LEMMA TotalIsLastSum ==
  ASSUME NEW s \in Seq(Nat)
  PROVE  \E f : IsPrefixSum(f, s) /\ Total(s) = f[Len(s)]
  <1> DEFINE L == Len(s)
             Upto(f, n) == /\ f \in [0 .. n -> Nat]
                           /\ f[0] = 0
                           /\ \A m \in 1 .. n : f[m] = f[m - 1] + s[m]
             Sums(f) == [n \in 0 .. L |-> IF n = 0 THEN 0 ELSE f[n - 1] + s[n]]
             X == {n \in Nat : n <= L => \E f : Upto(f, n)}
  <1>0. L \in Nat /\ \A n \in 1 .. L : s[n] \in Nat
    OBVIOUS
  <1>1. 0 \in X
    <2>1. Upto([m \in 0 .. 0 |-> 0], 0)
      OBVIOUS
    <2> QED BY <2>1
  <1>2. ASSUME NEW n \in Nat, n \in X PROVE n + 1 \in X
    <2> SUFFICES ASSUME n + 1 <= L PROVE \E f : Upto(f, n + 1)
      <3> HIDE DEF Upto
      <3> QED OBVIOUS
    <2>1. PICK f : Upto(f, n)
      <3> HIDE DEF Upto
      <3>1. n <= L
        BY <1>0
      <3> QED BY <1>2, <3>1
    <2> DEFINE g == [m \in 0 .. n + 1 |-> IF m = n + 1 THEN f[n] + s[n + 1] ELSE f[m]]
    <2>2. s[n + 1] \in Nat /\ f[n] \in Nat
      BY <1>0, <2>1
    <2>3. g \in [0 .. n + 1 -> Nat]
      BY <2>1, <2>2
    <2>4. g[0] = 0
      BY <2>1
    <2>5. ASSUME NEW m \in 1 .. n + 1 PROVE g[m] = g[m - 1] + s[m]
      <3>1. CASE m = n + 1
        BY <3>1
      <3>2. CASE m # n + 1
        <4>1. m \in 1 .. n /\ m - 1 \in 0 .. n
          BY <3>2
        <4> QED BY <4>1, <2>1
      <3> QED BY <3>1, <3>2
    <2> QED BY <2>3, <2>4, <2>5
  <1>3. \E f : Upto(f, L)
    <2> HIDE DEF X
    <2>1. Nat \subseteq X
      BY <1>1, <1>2, InductionOverNat
    <2>2. L \in X
      BY <2>1, <1>0
    <2> QED BY <2>2, <1>0 DEF X
  <1>4. PICK f : Upto(f, L)
    BY <1>3
  <1>5. f = Sums(f)
    BY <1>4, <1>0
  <1> DEFINE g == CHOOSE h : h = Sums(h)
  <1>6. g = Sums(g)
    <2> HIDE DEF Sums
    <2> QED BY <1>5
  <1> HIDE DEF g
  <1> DEFINE Y == {n \in Nat : n <= L => g[n] = f[n]}
  <1>7. 0 \in Y
    BY <1>6, <1>4, <1>0
  <1>8. ASSUME NEW n \in Nat, n \in Y PROVE n + 1 \in Y
    <2> SUFFICES ASSUME n + 1 <= L PROVE g[n + 1] = f[n + 1]
      OBVIOUS
    <2>1. g[n] = f[n]
      BY <1>0, <1>8
    <2>2. g[n + 1] = g[n] + s[n + 1]
      <3>1. n + 1 \in 0 .. L /\ n + 1 # 0 /\ (n + 1) - 1 = n
        BY <1>0
      <3> QED BY <1>6, <3>1
    <2>3. f[n + 1] = f[n] + s[n + 1]
      <3>1. n + 1 \in 1 .. L /\ (n + 1) - 1 = n
        BY <1>0
      <3> QED BY <1>4, <3>1
    <2> QED BY <2>1, <2>2, <2>3
  <1>9. g[L] = f[L]
    <2> HIDE DEF Y
    <2>1. L \in Y
      BY <1>7, <1>8, InductionOverNat, <1>0
    <2> QED BY <2>1, <1>0 DEF Y
  <1>10. Total(s) = g[L]
    BY DEF Total, g
  <1>11. IsPrefixSum(f, s)
    BY <1>4 DEF IsPrefixSum
  <1> QED BY <1>9, <1>10, <1>11

\* A total is a natural number.
LEMMA TotalType ==
  ASSUME NEW s \in Seq(Nat)
  PROVE  Total(s) \in Nat
  BY TotalIsLastSum DEF IsPrefixSum

\* What follows a prefix adds up to at most the whole.
LEMMA TotalOfSuffix ==
  ASSUME NEW s \in Seq(Nat), NEW t \in Seq(Nat), NEW j \in Nat,
         Len(t) = j + Len(s),
         \A i \in 1 .. Len(s) : s[i] <= t[j + i]
  PROVE  Total(s) <= Total(t)
  <1>1. PICK f : IsPrefixSum(f, s) /\ Total(s) = f[Len(s)]
    BY TotalIsLastSum
  <1>2. PICK g : IsPrefixSum(g, t) /\ Total(t) = g[Len(t)]
    BY TotalIsLastSum
  <1> DEFINE X == {n \in Nat : n <= Len(s) => f[n] <= g[j + n]}
  <1>3. 0 \in X
    <2>1. j \in 0 .. Len(t) /\ j + 0 = j
      OBVIOUS
    <2>2. g[j + 0] \in Nat /\ f[0] = 0
      BY <2>1, <1>1, <1>2 DEF IsPrefixSum
    <2> QED BY <2>2
  <1>4. ASSUME NEW n \in Nat, n \in X PROVE n + 1 \in X
    <2> SUFFICES ASSUME n + 1 <= Len(s) PROVE f[n + 1] <= g[j + (n + 1)]
      OBVIOUS
    <2>1. f[n] <= g[j + n]
      BY <1>4
    <2>2. n + 1 \in 1 .. Len(s) /\ (n + 1) - 1 = n /\ n \in 0 .. Len(s)
          /\ j + (n + 1) \in 1 .. Len(t) /\ (j + (n + 1)) - 1 = j + n /\ j + n \in 0 .. Len(t)
      OBVIOUS
    <2>3. f[n + 1] = f[n] + s[n + 1] /\ g[j + (n + 1)] = g[j + n] + t[j + (n + 1)]
      BY <2>2, <1>1, <1>2 DEF IsPrefixSum
    <2>4. f[n] \in Nat /\ g[j + n] \in Nat
      BY <2>2, <1>1, <1>2 DEF IsPrefixSum
    <2>5. s[n + 1] \in Nat /\ t[j + (n + 1)] \in Nat
      BY <2>2, ElementType
    <2>6. s[n + 1] <= t[j + (n + 1)]
      BY <2>2
    <2>7. f[n] + s[n + 1] <= g[j + n] + t[j + (n + 1)]
      <3> DEFINE a == f[n]
                 b == s[n + 1]
                 c == g[j + n]
                 d == t[j + (n + 1)]
      <3>1. /\ a \in Nat /\ b \in Nat /\ c \in Nat /\ d \in Nat
            /\ a <= c /\ b <= d
        BY <2>1, <2>4, <2>5, <2>6
      <3> HIDE DEF a, b, c, d
      <3>2. a + b <= c + d
        BY <3>1
      <3> QED BY <3>2 DEF a, b, c, d
    <2> QED BY <2>3, <2>7
  <1>5. Len(s) \in X
    <2> HIDE DEF X
    <2>1. Len(s) \in Nat
      OBVIOUS
    <2> QED BY <2>1, <1>3, <1>4, InductionOverNat
  <1> QED BY <1>1, <1>2, <1>5

\* A prefix of zeros adds nothing.
LEMMA TotalAfterZeros ==
  ASSUME NEW s \in Seq(Nat), NEW t \in Seq(Nat), NEW j \in Nat,
         Len(t) = j + Len(s),
         \A i \in 1 .. j : t[i] = 0,
         \A i \in 1 .. Len(s) : t[j + i] <= s[i]
  PROVE  Total(t) <= Total(s)
  <1>1. PICK f : IsPrefixSum(f, s) /\ Total(s) = f[Len(s)]
    BY TotalIsLastSum
  <1>2. PICK g : IsPrefixSum(g, t) /\ Total(t) = g[Len(t)]
    BY TotalIsLastSum
  <1> DEFINE Z == {n \in Nat : n <= j => g[n] = 0}
  <1>3. 0 \in Z
    BY <1>2 DEF IsPrefixSum
  <1>4. ASSUME NEW n \in Nat, n \in Z PROVE n + 1 \in Z
    <2> SUFFICES ASSUME n + 1 <= j PROVE g[n + 1] = 0
      OBVIOUS
    <2>1. g[n] = 0
      BY <1>4
    <2>2. n + 1 \in 1 .. Len(t) /\ (n + 1) - 1 = n /\ n + 1 \in 1 .. j
      OBVIOUS
    <2>3. g[n + 1] = g[n] + t[n + 1]
      BY <2>2, <1>2 DEF IsPrefixSum
    <2> QED BY <2>1, <2>2, <2>3
  <1>5. g[j] = 0
    <2> HIDE DEF Z
    <2>1. j \in Z
      BY <1>3, <1>4, InductionOverNat
    <2> QED BY <2>1 DEF Z
  <1> DEFINE X == {n \in Nat : n <= Len(s) => g[j + n] <= f[n]}
  <1>6. 0 \in X
    BY <1>1, <1>5 DEF IsPrefixSum
  <1>7. ASSUME NEW n \in Nat, n \in X PROVE n + 1 \in X
    <2> SUFFICES ASSUME n + 1 <= Len(s) PROVE g[j + (n + 1)] <= f[n + 1]
      OBVIOUS
    <2>1. g[j + n] <= f[n]
      BY <1>7
    <2>2. n + 1 \in 1 .. Len(s) /\ (n + 1) - 1 = n /\ n \in 0 .. Len(s)
          /\ j + (n + 1) \in 1 .. Len(t) /\ (j + (n + 1)) - 1 = j + n /\ j + n \in 0 .. Len(t)
      OBVIOUS
    <2>3. f[n + 1] = f[n] + s[n + 1] /\ g[j + (n + 1)] = g[j + n] + t[j + (n + 1)]
      BY <2>2, <1>1, <1>2 DEF IsPrefixSum
    <2>4. f[n] \in Nat /\ g[j + n] \in Nat
      BY <2>2, <1>1, <1>2 DEF IsPrefixSum
    <2>5. s[n + 1] \in Nat /\ t[j + (n + 1)] \in Nat
      BY <2>2, ElementType
    <2>6. t[j + (n + 1)] <= s[n + 1]
      BY <2>2
    <2>7. g[j + n] + t[j + (n + 1)] <= f[n] + s[n + 1]
      <3> DEFINE a == g[j + n]
                 b == t[j + (n + 1)]
                 c == f[n]
                 d == s[n + 1]
      <3>1. /\ a \in Nat /\ b \in Nat /\ c \in Nat /\ d \in Nat
            /\ a <= c /\ b <= d
        BY <2>1, <2>4, <2>5, <2>6
      <3> HIDE DEF a, b, c, d
      <3>2. a + b <= c + d
        BY <3>1
      <3> QED BY <3>2 DEF a, b, c, d
    <2> QED BY <2>3, <2>7
  <1>8. Len(s) \in X
    <2> HIDE DEF X
    <2>1. Len(s) \in Nat
      OBVIOUS
    <2> QED BY <2>1, <1>6, <1>7, InductionOverNat
  <1> QED BY <1>1, <1>2, <1>8

\* Appending an amount adds it.
LEMMA TotalOfAppend ==
  ASSUME NEW s \in Seq(Nat), NEW c \in Nat, NEW t \in Seq(Nat),
         Len(t) = Len(s) + 1, t[Len(t)] = c,
         \A i \in 1 .. Len(s) : t[i] = s[i]
  PROVE  Total(t) = Total(s) + c
  <1>1. PICK f : IsPrefixSum(f, s) /\ Total(s) = f[Len(s)]
    BY TotalIsLastSum
  <1>2. PICK g : IsPrefixSum(g, t) /\ Total(t) = g[Len(t)]
    BY TotalIsLastSum
  <1> DEFINE X == {n \in Nat : n <= Len(s) => g[n] = f[n]}
  <1>3. 0 \in X
    BY <1>1, <1>2 DEF IsPrefixSum
  <1>4. ASSUME NEW n \in Nat, n \in X PROVE n + 1 \in X
    <2> SUFFICES ASSUME n + 1 <= Len(s) PROVE g[n + 1] = f[n + 1]
      OBVIOUS
    <2>1. g[n] = f[n]
      BY <1>4
    <2>2. n + 1 \in 1 .. Len(s) /\ n + 1 \in 1 .. Len(t) /\ (n + 1) - 1 = n
      OBVIOUS
    <2>3. f[n + 1] = f[n] + s[n + 1] /\ g[n + 1] = g[n] + t[n + 1]
      BY <2>2, <1>1, <1>2 DEF IsPrefixSum
    <2> QED BY <2>1, <2>2, <2>3
  <1>5. g[Len(s)] = f[Len(s)]
    <2> HIDE DEF X
    <2>1. Len(s) \in Nat
      OBVIOUS
    <2>2. Len(s) \in X
      BY <2>1, <1>3, <1>4, InductionOverNat
    <2> QED BY <2>1, <2>2 DEF X
  <1>6. g[Len(t)] = g[Len(s)] + c
    <2>1. Len(t) \in 1 .. Len(t) /\ Len(t) - 1 = Len(s)
      OBVIOUS
    <2> QED BY <2>1, <1>2 DEF IsPrefixSum
  <1> QED BY <1>1, <1>2, <1>5, <1>6

-----------------------------------------------------------------------------
(* The inductive invariant: the deque is what is left of everything ever     *)
(* granted after some prefix expired, and it never exceeds the limits.        *)
ReadingsArePast ==
    \A t \in Threads : now[t] # Idle => now[t] <= clock /\ cost[t] \in Costs

SpendsArePast == \A i \in DOMAIN granted : granted[i].at <= clock

\* dq is what is left of the history after some expired entries went first.
IsWhatIsLeft(dq, history, at) ==
    \E k \in 0 .. Len(history) :
        /\ Len(history) = k + Len(dq)
        /\ \A i \in 1 .. Len(dq) : dq[i] = history[k + i]
        /\ \A i \in 1 .. k : history[i].at + Window < at

EventsAreWhatIsLeft == IsWhatIsLeft(events, granted, clock)

WithinLimits ==
    /\ Len(events) <= MaxEvents
    /\ NoneNegative => Tokens(events) <= MaxTokens

GuardInv ==
    TypeOK /\ ReadingsArePast /\ SpendsArePast /\ EventsAreWhatIsLeft /\ WithinLimits

-----------------------------------------------------------------------------
\* The types of the constants, singly.
LEMMA ConstantTypes ==
  /\ Costs \subseteq Int
  /\ MaxTokens \in Nat /\ MaxEvents \in Nat /\ Window \in Nat /\ MaxTime \in Nat
  BY GuardAssumption

\* A spend whose count is not negative.
Paid == [at : 0 .. MaxTime, tokens : Costs \cap Nat]

\* A spend that is not negative is one.
LEMMA PaidSpend ==
  ASSUME NEW e \in Spend, e.tokens >= 0
  PROVE  e \in Paid
  <1>1. e.tokens \in Costs /\ e.at \in 0 .. MaxTime
        /\ e = [at |-> e.at, tokens |-> e.tokens]
    BY DEF Spend
  <1>2. e.tokens \in Int
    BY <1>1, ConstantTypes
  <1>3. e.tokens \in Nat
    BY <1>2
  <1> DEFINE a == e.at
             c == e.tokens
  <1>4. [at |-> a, tokens |-> c] \in Paid
    <2>1. a \in 0 .. MaxTime /\ c \in Costs \cap Nat
      BY <1>1, <1>3
    <2> HIDE DEF a, c
    <2> QED BY <2>1 DEF Paid
  <1> QED BY <1>1, <1>4

\* A sequence of spends none of which is negative.
LEMMA PaidSequence ==
  ASSUME NEW dq \in Seq(Spend), \A i \in 1 .. Len(dq) : dq[i].tokens >= 0
  PROVE  dq \in Seq(Paid)
  <1>1. DOMAIN dq = 1 .. Len(dq) /\ Len(dq) \in Nat
    OBVIOUS
  <1>2. ASSUME NEW i \in 1 .. Len(dq) PROVE dq[i] \in Paid
    <2>1. dq[i] \in Spend /\ dq[i].tokens >= 0
      BY <1>1
    <2> QED BY <2>1, PaidSpend
  <1> QED BY <1>1, <1>2

\* If none of the spends ever granted is negative, none in the deque is.
LEMMA EventsArePaid ==
  ASSUME TypeOK, EventsAreWhatIsLeft, NoneNegative
  PROVE  events \in Seq(Paid) /\ granted \in Seq(Paid)
  <1>1. events \in Seq(Spend) /\ granted \in Seq(Spend) /\ DOMAIN granted = 1 .. Len(granted)
        /\ Len(events) \in Nat /\ Len(granted) \in Nat
    BY DEF TypeOK
  <1>2. PICK k \in 0 .. Len(granted) :
          /\ Len(granted) = k + Len(events)
          /\ \A i \in 1 .. Len(events) : events[i] = granted[k + i]
    BY DEF EventsAreWhatIsLeft, IsWhatIsLeft
  <1>3. \A i \in 1 .. Len(granted) : granted[i].tokens >= 0
    BY <1>1 DEF NoneNegative
  <1>4. ASSUME NEW i \in 1 .. Len(events) PROVE events[i].tokens >= 0
    <2>1. k + i \in 1 .. Len(granted)
      BY <1>1, <1>2
    <2> QED BY <1>2, <1>3, <2>1
  <1>5. events \in Seq(Paid)
    BY <1>1, <1>4, PaidSequence
  <1>6. granted \in Seq(Paid)
    BY <1>1, <1>3, PaidSequence
  <1> QED BY <1>5, <1>6

\* The amounts of a sequence of such spends form a sequence of natural numbers.
Amounts(dq) == [i \in DOMAIN dq |-> dq[i].tokens]

LEMMA AmountsType ==
  ASSUME NEW dq \in Seq(Paid)
  PROVE  /\ Amounts(dq) \in Seq(Nat)
         /\ Len(Amounts(dq)) = Len(dq)
         /\ \A i \in 1 .. Len(dq) : Amounts(dq)[i] = dq[i].tokens /\ dq[i].tokens \in Nat
         /\ Tokens(dq) = Total(Amounts(dq))
  <1>1. DOMAIN dq = 1 .. Len(dq) /\ Len(dq) \in Nat
    OBVIOUS
  <1>2. ASSUME NEW i \in 1 .. Len(dq) PROVE dq[i].tokens \in Nat
    <2>1. dq[i] \in Paid
      BY <1>1
    <2> QED BY <2>1, ConstantTypes DEF Paid
  <1>3. Amounts(dq) \in [1 .. Len(dq) -> Nat]
    BY <1>1, <1>2 DEF Amounts
  <1>4. Amounts(dq) \in Seq(Nat) /\ Len(Amounts(dq)) = Len(dq)
    BY <1>1, <1>3
  <1> QED BY <1>1, <1>2, <1>4 DEF Amounts, Tokens

\* _trim drops the expired entries up to the first that is not.
LEMMA TrimmedIsSuffix ==
  ASSUME NEW dq \in Seq(Spend), NEW at \in Nat
  PROVE  /\ Trimmed(dq, at) \in Seq(Spend)
         /\ \E j \in 0 .. Len(dq) :
              /\ Len(dq) = j + Len(Trimmed(dq, at))
              /\ \A i \in 1 .. Len(Trimmed(dq, at)) : Trimmed(dq, at)[i] = dq[j + i]
              /\ \A i \in 1 .. j : Expired(dq[i], at)
              /\ j < Len(dq) => ~ Expired(dq[j + 1], at)
  <1> DEFINE live == {i \in DOMAIN dq : ~ Expired(dq[i], at)}
  <1>1. DOMAIN dq = 1 .. Len(dq) /\ Len(dq) \in Nat
    OBVIOUS
  <1>2. CASE live = {}
    <2>1. Trimmed(dq, at) = <<>>
      BY <1>2 DEF Trimmed
    <2>2. \A i \in 1 .. Len(dq) : Expired(dq[i], at)
      BY <1>1, <1>2
    <2>3. Len(<<>>) = 0 /\ <<>> \in Seq(Spend) /\ Len(dq) \in 0 .. Len(dq)
      BY <1>1
    <2> DEFINE j == Len(dq)
    <2>4. /\ j \in 0 .. Len(dq)
          /\ Len(dq) = j + 0
          /\ \A i \in 1 .. j : Expired(dq[i], at)
          /\ ~ (j < Len(dq))
      BY <1>1, <2>2
    <2>5. \A i \in 1 .. Len(<<>>) : FALSE
      OBVIOUS
    <2> HIDE DEF live, j
    <2> QED BY <2>1, <2>3, <2>4, <2>5
  <1>3. CASE live # {}
    <2> DEFINE m == Min(live)
               j == m - 1
    <2>1. live \in SUBSET Nat
      BY <1>1
    <2>2. m \in live /\ \A i \in live : m <= i
      <3> HIDE DEF live
      <3> QED BY <1>3, <2>1, LeastElement
    <2>3. Trimmed(dq, at) = SubSeq(dq, m, Len(dq))
      BY <1>3 DEF Trimmed
    <2>4. m \in 1 .. Len(dq) /\ ~ Expired(dq[m], at)
      BY <1>1, <2>2
    <2>5. ASSUME NEW i \in 1 .. j PROVE Expired(dq[i], at)
      <3> HIDE DEF m
      <3>1. i \in 1 .. Len(dq) /\ ~ m <= i
        BY <1>1, <2>4
      <3>2. i \notin live
        BY <2>2, <3>1
      <3> QED BY <1>1, <3>1, <3>2
    <2> HIDE DEF live, m
    <2>6. /\ SubSeq(dq, m, Len(dq)) \in Seq(Spend)
          /\ Len(SubSeq(dq, m, Len(dq))) = Len(dq) - j
          /\ \A i \in 1 .. Len(dq) - j : SubSeq(dq, m, Len(dq))[i] = dq[j + i]
      BY <1>1, <2>4
    <2>7. j \in 0 .. Len(dq) /\ j + 1 = m
      BY <1>1, <2>4
    <2> HIDE DEF j
    <2>8. Len(dq) = j + Len(Trimmed(dq, at))
      <3>1. Len(dq) \in Nat /\ j \in Nat
        BY <1>1, <2>7
      <3>2. Len(Trimmed(dq, at)) = Len(dq) - j
        BY <2>3, <2>6
      <3> QED BY <3>1, <3>2
    <2> QED BY <1>1, <2>3, <2>4, <2>5, <2>6, <2>7, <2>8
  <1> QED BY <1>2, <1>3

\* A suffix has no more tokens and no more entries.
LEMMA SuffixWithinLimits ==
  ASSUME NEW dq \in Seq(Paid), NEW rest \in Seq(Paid), NEW j \in Nat,
         Len(dq) = j + Len(rest),
         \A i \in 1 .. Len(rest) : rest[i] = dq[j + i]
  PROVE  Tokens(rest) <= Tokens(dq) /\ Len(rest) <= Len(dq)
  <1>1. ASSUME NEW i \in 1 .. Len(Amounts(rest))
        PROVE  Amounts(rest)[i] <= Amounts(dq)[j + i]
    <2>1. i \in 1 .. Len(rest) /\ j + i \in 1 .. Len(dq)
      BY AmountsType
    <2>2. Amounts(rest)[i] = rest[i].tokens /\ rest[i].tokens \in Nat
      BY <2>1, AmountsType
    <2>3. Amounts(dq)[j + i] = dq[j + i].tokens
      BY <2>1, AmountsType
    <2> QED BY <2>1, <2>2, <2>3
  <1>2. Len(Amounts(dq)) = j + Len(Amounts(rest))
    BY AmountsType
  <1>3. Total(Amounts(rest)) <= Total(Amounts(dq))
    BY <1>1, <1>2, AmountsType, TotalOfSuffix
  <1> QED BY <1>3, AmountsType

\* Recording a spend adds its tokens.
LEMMA TokensOfAppend ==
  ASSUME NEW dq \in Seq(Paid), NEW e \in Paid
  PROVE  Tokens(Append(dq, e)) = Tokens(dq) + e.tokens
  <1> DEFINE more == Append(dq, e)
  <1>1. /\ more \in Seq(Paid) /\ Len(more) = Len(dq) + 1 /\ more[Len(dq) + 1] = e
        /\ \A i \in 1 .. Len(dq) : more[i] = dq[i]
    OBVIOUS
  <1> HIDE DEF more
  <1>2. e.tokens \in Nat
    BY ConstantTypes DEF Paid
  <1>3. Len(Amounts(more)) = Len(Amounts(dq)) + 1
    BY <1>1, AmountsType
  <1>4. Amounts(more)[Len(Amounts(more))] = e.tokens
    <2>1. Len(more) \in 1 .. Len(more) /\ Len(Amounts(more)) = Len(more)
      BY <1>1, AmountsType
    <2> QED BY <1>1, <2>1, AmountsType
  <1>5. ASSUME NEW i \in 1 .. Len(Amounts(dq)) PROVE Amounts(more)[i] = Amounts(dq)[i]
    <2>1. i \in 1 .. Len(dq) /\ i \in 1 .. Len(more)
      BY <1>1, AmountsType
    <2>2. Amounts(more)[i] = more[i].tokens
      BY <1>1, <2>1, AmountsType
    <2>3. Amounts(dq)[i] = dq[i].tokens
      BY <2>1, AmountsType
    <2> QED BY <1>1, <2>1, <2>2, <2>3
  <1>6. Total(Amounts(more)) = Total(Amounts(dq)) + e.tokens
    BY <1>1, <1>2, <1>3, <1>4, <1>5, AmountsType, TotalOfAppend
  <1> QED BY <1>1, <1>6, AmountsType DEF more

\* Trimming with a reading that is not in the future keeps the invariant's parts.
LEMMA TrimmedIsWhatIsLeft ==
  ASSUME TypeOK, EventsAreWhatIsLeft, WithinLimits, NEW at \in Nat, at <= clock
  PROVE  /\ Trimmed(events, at) \in Seq(Spend)
         /\ NoneNegative => /\ Trimmed(events, at) \in Seq(Paid)
                            /\ Tokens(Trimmed(events, at)) <= MaxTokens
         /\ Len(Trimmed(events, at)) <= MaxEvents
         /\ IsWhatIsLeft(Trimmed(events, at), granted, clock)
  <1> DEFINE dq == Trimmed(events, at)
  <1>1. events \in Seq(Spend) /\ granted \in Seq(Spend) /\ clock \in Nat
    BY ConstantTypes DEF TypeOK
  <1>2. dq \in Seq(Spend)
    BY <1>1, TrimmedIsSuffix
  <1>3. PICK j \in 0 .. Len(events) :
          /\ Len(events) = j + Len(dq)
          /\ \A i \in 1 .. Len(dq) : dq[i] = events[j + i]
          /\ \A i \in 1 .. j : Expired(events[i], at)
    BY <1>1, TrimmedIsSuffix
  <1>4. PICK k \in 0 .. Len(granted) :
          /\ Len(granted) = k + Len(events)
          /\ \A i \in 1 .. Len(events) : events[i] = granted[k + i]
          /\ \A i \in 1 .. k : granted[i].at + Window < clock
    BY DEF EventsAreWhatIsLeft, IsWhatIsLeft
  <1> HIDE DEF dq
  <1>5. Len(dq) \in Nat /\ Len(events) \in Nat /\ Len(granted) \in Nat /\ j \in Nat /\ k \in Nat
    BY <1>1, <1>2
  <1>6. Len(dq) <= MaxEvents
    BY <1>3, <1>5, ConstantTypes DEF WithinLimits
  <1>8. ASSUME NoneNegative PROVE dq \in Seq(Paid) /\ Tokens(dq) <= MaxTokens
    <2>1. events \in Seq(Paid)
      BY <1>8, EventsArePaid
    <2>2. ASSUME NEW i \in 1 .. Len(dq) PROVE dq[i].tokens >= 0
      <3>1. j + i \in 1 .. Len(events) /\ dq[i] = events[j + i]
        BY <1>3, <1>5
      <3>2. events[j + i] \in Paid
        BY <2>1, <3>1
      <3> QED BY <3>1, <3>2 DEF Paid
    <2>3. dq \in Seq(Paid)
      BY <1>2, <2>2, PaidSequence
    <2>4. Tokens(dq) <= Tokens(events)
      BY <2>1, <2>3, <1>3, <1>5, SuffixWithinLimits
    <2>5. Tokens(dq) \in Nat /\ Tokens(events) \in Nat
      BY <2>1, <2>3, AmountsType, TotalType
    <2> QED BY <1>8, <2>3, <2>4, <2>5, ConstantTypes DEF WithinLimits
  <1>7. IsWhatIsLeft(dq, granted, clock)
    <2>1. j + k \in 0 .. Len(granted) /\ Len(granted) = (j + k) + Len(dq)
      BY <1>3, <1>4, <1>5
    <2>2. ASSUME NEW i \in 1 .. Len(dq) PROVE dq[i] = granted[(j + k) + i]
      <3>1. j + i \in 1 .. Len(events) /\ k + (j + i) = (j + k) + i
        BY <1>3, <1>5
      <3> QED BY <1>3, <1>4, <3>1
    <2>3. ASSUME NEW i \in 1 .. j + k PROVE granted[i].at + Window < clock
      <3>1. CASE i <= k
        BY <3>1, <1>4, <1>5
      <3>2. CASE k < i
        <4>1. i - k \in 1 .. j /\ k + (i - k) = i
          BY <3>2, <1>5
        <4>2. i - k \in 1 .. Len(events) /\ i \in 1 .. Len(granted)
          BY <4>1, <1>3, <1>4, <1>5
        <4>3. granted[i] = events[i - k] /\ Expired(events[i - k], at)
          BY <4>1, <4>2, <1>3, <1>4
        <4>4. granted[i] \in Spend
          BY <1>1, <4>2
        <4>5. granted[i].at \in Nat /\ granted[i].at + Window < at
          BY <4>3, <4>4 DEF Expired, Spend
        <4> QED BY <4>5, <1>1, ConstantTypes
      <3> QED BY <1>5, <3>1, <3>2
    <2> QED BY <2>1, <2>2, <2>3 DEF IsWhatIsLeft
  <1> QED BY <1>2, <1>6, <1>7, <1>8 DEF dq

\* The deque and the history grow together.
LEMMA AppendedIsWhatIsLeft ==
  ASSUME NEW dq \in Seq(Spend), NEW history \in Seq(Spend), NEW e \in Spend, NEW at \in Nat,
         IsWhatIsLeft(dq, history, at)
  PROVE  IsWhatIsLeft(Append(dq, e), Append(history, e), at)
  <1>1. PICK k \in 0 .. Len(history) :
          /\ Len(history) = k + Len(dq)
          /\ \A i \in 1 .. Len(dq) : dq[i] = history[k + i]
          /\ \A i \in 1 .. k : history[i].at + Window < at
    BY DEF IsWhatIsLeft
  <1> DEFINE more == Append(dq, e)
             longer == Append(history, e)
  <1>2. /\ Len(more) = Len(dq) + 1 /\ more[Len(dq) + 1] = e
        /\ \A i \in 1 .. Len(dq) : more[i] = dq[i]
        /\ Len(longer) = Len(history) + 1 /\ longer[Len(history) + 1] = e
        /\ \A i \in 1 .. Len(history) : longer[i] = history[i]
    OBVIOUS
  <1>3. Len(dq) \in Nat /\ Len(history) \in Nat /\ k \in Nat
    OBVIOUS
  <1> HIDE DEF more, longer
  <1>4. k \in 0 .. Len(longer) /\ Len(longer) = k + Len(more)
    BY <1>1, <1>2, <1>3
  <1>5. ASSUME NEW i \in 1 .. Len(more) PROVE more[i] = longer[k + i]
    <2>1. CASE i <= Len(dq)
      <3>1. i \in 1 .. Len(dq) /\ k + i \in 1 .. Len(history)
        BY <2>1, <1>1, <1>2, <1>3
      <3> QED BY <3>1, <1>1, <1>2
    <2>2. CASE i = Len(dq) + 1
      <3>1. k + i = Len(history) + 1
        BY <2>2, <1>1, <1>3
      <3> QED BY <2>2, <3>1, <1>2
    <2> QED BY <2>1, <2>2, <1>2, <1>3
  <1>6. ASSUME NEW i \in 1 .. k PROVE longer[i].at + Window < at
    <2>1. i \in 1 .. Len(history)
      BY <1>1, <1>3
    <2> QED BY <2>1, <1>1, <1>2
  <1>7. IsWhatIsLeft(more, longer, at)
    BY <1>4, <1>5, <1>6 DEF IsWhatIsLeft
  <1> QED BY <1>7 DEF more, longer

\* What has expired stays expired.
LEMMA WhatIsLeftLater ==
  ASSUME NEW dq, NEW history \in Seq(Spend), NEW at \in Nat, NEW later \in Nat, at <= later,
         IsWhatIsLeft(dq, history, at)
  PROVE  IsWhatIsLeft(dq, history, later)
  <1>1. PICK k \in 0 .. Len(history) :
          /\ Len(history) = k + Len(dq)
          /\ \A i \in 1 .. Len(dq) : dq[i] = history[k + i]
          /\ \A i \in 1 .. k : history[i].at + Window < at
    BY DEF IsWhatIsLeft
  <1>2. ASSUME NEW i \in 1 .. k PROVE history[i].at + Window < later
    <2>1. history[i] \in Spend
      OBVIOUS
    <2>2. history[i].at \in Nat
      BY <2>1 DEF Spend
    <2> QED BY <1>1, <2>2, ConstantTypes
  <1> QED BY <1>1, <1>2 DEF IsWhatIsLeft

-----------------------------------------------------------------------------
\* The empty deque is within the limits.
LEMMA InitGuardInv == Init => GuardInv
  <1> SUFFICES ASSUME Init PROVE GuardInv
    OBVIOUS
  <1>1. <<>> \in Seq(Spend) /\ <<>> \in Seq(Paid) /\ Len(<<>>) = 0 /\ 0 \in 0 .. MaxTime
        /\ Idle \in 0 .. Idle
    BY ConstantTypes DEF Idle
  <1>2. TypeOK
    BY <1>1 DEF Init, TypeOK
  <1>3. Tokens(<<>>) = 0
    <2>1. Len(Amounts(<<>>)) = 0 /\ Amounts(<<>>) \in Seq(Nat) /\ Tokens(<<>>) = Total(Amounts(<<>>))
      BY <1>1, AmountsType
    <2>2. PICK f : IsPrefixSum(f, Amounts(<<>>)) /\ Total(Amounts(<<>>)) = f[0]
      BY <2>1, TotalIsLastSum
    <2> QED BY <2>1, <2>2 DEF IsPrefixSum
  <1>4. EventsAreWhatIsLeft
    <2>1. Len(granted) = 0 /\ Len(events) = 0 /\ 0 \in 0 .. Len(granted)
      BY DEF Init
    <2> QED BY <2>1 DEF EventsAreWhatIsLeft, IsWhatIsLeft
  <1> QED BY <1>1, <1>2, <1>3, <1>4, ConstantTypes
        DEF Init, GuardInv, ReadingsArePast, SpendsArePast, WithinLimits

\* Every step keeps the invariant.
LEMMA StepGuardInv == GuardInv /\ [Next]_vars => GuardInv'
  <1> SUFFICES ASSUME GuardInv, [Next]_vars PROVE GuardInv'
    OBVIOUS
  <1>0. /\ TypeOK /\ ReadingsArePast /\ SpendsArePast /\ EventsAreWhatIsLeft /\ WithinLimits
        /\ clock \in Nat /\ clock \in 0 .. MaxTime
        /\ events \in Seq(Spend) /\ granted \in Seq(Spend)
    BY DEF GuardInv, TypeOK
  <1>1. CASE Tick
    <2>1. clock' \in 0 .. MaxTime /\ clock <= clock' /\ clock' \in Nat
      BY <1>0, <1>1, ConstantTypes DEF Tick
    <2>2. TypeOK'
      BY <1>0, <1>1, <2>1 DEF Tick, TypeOK, Spend
    <2>3. ReadingsArePast'
      <3> SUFFICES ASSUME NEW t \in Threads, now[t] # Idle
                   PROVE now[t] <= clock' /\ cost[t] \in Costs
        BY <1>1 DEF Tick, ReadingsArePast
      <3>1. now[t] <= clock /\ cost[t] \in Costs /\ now[t] \in Nat
        BY <1>0, ConstantTypes DEF ReadingsArePast, TypeOK, Idle
      <3> QED BY <3>1, <1>0, <2>1
    <2>4. SpendsArePast'
      <3> SUFFICES ASSUME NEW i \in DOMAIN granted PROVE granted[i].at <= clock'
        BY <1>1 DEF Tick, SpendsArePast
      <3>1. granted[i] \in Spend /\ granted[i].at <= clock
        BY <1>0 DEF SpendsArePast
      <3>2. granted[i].at \in Nat
        BY <3>1 DEF Spend
      <3> QED BY <3>1, <3>2, <1>0, <2>1
    <2>5. IsWhatIsLeft(events, granted, clock')
      BY <1>0, <2>1, WhatIsLeftLater DEF EventsAreWhatIsLeft
    <2>6. EventsAreWhatIsLeft' /\ WithinLimits'
      BY <1>0, <1>1, <2>5 DEF Tick, EventsAreWhatIsLeft, WithinLimits, NoneNegative
    <2> QED BY <2>2, <2>3, <2>4, <2>6 DEF GuardInv
  <1>2. ASSUME NEW t \in Threads, ReadClock(t) PROVE GuardInv'
    <2>1. PICK c \in Costs : cost' = [cost EXCEPT ![t] = c]
      BY <1>2 DEF ReadClock
    <2>2. now' = [now EXCEPT ![t] = clock] /\ UNCHANGED <<clock, events, granted>>
      BY <1>2 DEF ReadClock
    <2>3. TypeOK'
      BY <1>0, <2>1, <2>2, ConstantTypes DEF TypeOK, Spend, Idle
    <2>4. ReadingsArePast'
      BY <1>0, <2>1, <2>2 DEF ReadingsArePast, TypeOK
    <2>5. SpendsArePast' /\ EventsAreWhatIsLeft' /\ WithinLimits'
      BY <1>0, <2>2 DEF SpendsArePast, EventsAreWhatIsLeft, WithinLimits, NoneNegative
    <2> QED BY <2>3, <2>4, <2>5 DEF GuardInv
  <1>3. ASSUME NEW t \in Threads, Check(t) PROVE GuardInv'
    <2> DEFINE dq == Trimmed(events, now[t])
               spend == [at |-> now[t], tokens |-> cost[t]]
    <2>1. /\ now[t] # Idle /\ now[t] <= clock /\ cost[t] \in Costs
          /\ now[t] \in 0 .. MaxTime /\ now[t] \in Nat
      BY <1>0, <1>3, ConstantTypes DEF Check, ReadingsArePast, TypeOK, Idle
    <2>2. /\ dq \in Seq(Spend) /\ Len(dq) <= MaxEvents
          /\ NoneNegative => dq \in Seq(Paid) /\ Tokens(dq) <= MaxTokens
          /\ IsWhatIsLeft(dq, granted, clock)
      BY <1>0, <2>1, TrimmedIsWhatIsLeft
    <2>3. spend \in Spend
      BY <2>1 DEF Spend
    <2>4. \/ /\ Fits(dq, cost[t])
             /\ events' = Append(dq, spend) /\ granted' = Append(granted, spend)
          \/ events' = dq /\ granted' = granted
      BY <1>3 DEF Check
    <2>5. now' = [now EXCEPT ![t] = Idle] /\ UNCHANGED <<clock, cost>>
      BY <1>3 DEF Check
    <2>6. ReadingsArePast'
      BY <1>0, <2>5 DEF ReadingsArePast, TypeOK
    <2>7. spend.at = now[t] /\ spend.tokens = cost[t]
      OBVIOUS
    <2> HIDE DEF dq, spend
    <2>8. events' \in Seq(Spend) /\ granted' \in Seq(Spend)
      <3>1. Append(dq, spend) \in Seq(Spend) /\ Append(granted, spend) \in Seq(Spend)
        BY <1>0, <2>2, <2>3
      <3>2. dq \in Seq(Spend) /\ granted \in Seq(Spend)
        BY <1>0, <2>2
      <3> QED BY <2>4, <3>1, <3>2
    <2>9. TypeOK'
      BY <1>0, <2>5, <2>8, ConstantTypes DEF TypeOK, Spend, Idle
    <2>10. SpendsArePast'
      <3>1. CASE granted' = granted
        BY <3>1, <1>0, <2>5 DEF SpendsArePast
      <3>2. CASE granted' = Append(granted, spend)
        <4>1. ASSUME NEW i \in DOMAIN granted' PROVE granted'[i].at <= clock
          <5>1. DOMAIN granted' = 1 .. Len(granted) + 1 /\ DOMAIN granted = 1 .. Len(granted)
                /\ Len(granted) \in Nat
            BY <3>2, <1>0, <2>3
          <5>2. CASE i = Len(granted) + 1
            <6>1. granted'[i] = spend
              BY <5>2, <3>2, <1>0, <2>3
            <6> QED BY <6>1, <2>1, <2>7
          <5>3. CASE i # Len(granted) + 1
            <6>1. i \in DOMAIN granted /\ granted'[i] = granted[i]
              BY <5>1, <5>3, <3>2, <1>0, <2>3
            <6> QED BY <6>1, <1>0 DEF SpendsArePast
          <5> QED BY <5>2, <5>3
        <4> QED BY <4>1, <2>5 DEF SpendsArePast
      <3> QED BY <2>4, <3>1, <3>2
    <2>11. EventsAreWhatIsLeft' /\ WithinLimits'
      <3>1. CASE events' = dq /\ granted' = granted
        BY <3>1, <2>2, <2>5 DEF EventsAreWhatIsLeft, WithinLimits, NoneNegative
      <3>2. CASE /\ Fits(dq, cost[t])
                 /\ events' = Append(dq, spend) /\ granted' = Append(granted, spend)
        <4>1. IsWhatIsLeft(Append(dq, spend), Append(granted, spend), clock)
          BY <1>0, <2>2, <2>3, AppendedIsWhatIsLeft
        <4>2. Len(Append(dq, spend)) = Len(dq) + 1
          BY <2>2
        <4>3. Tokens(dq) + cost[t] <= MaxTokens /\ Len(dq) + 1 <= MaxEvents
          BY <3>2 DEF Fits
        <4>4. ASSUME NoneNegative' PROVE Tokens(events') <= MaxTokens
          <5>1. /\ granted' = Append(granted, spend) /\ Len(granted) \in Nat
                /\ DOMAIN granted = 1 .. Len(granted)
                /\ DOMAIN granted' = 1 .. Len(granted) + 1
                /\ granted'[Len(granted) + 1] = spend
                /\ \A i \in 1 .. Len(granted) : granted'[i] = granted[i]
            BY <3>2, <1>0, <2>3
          <5>2. NoneNegative
            BY <4>4, <5>1 DEF NoneNegative
          <5>3. spend.tokens >= 0
            BY <4>4, <5>1 DEF NoneNegative
          <5>4. spend \in Paid
            BY <5>3, <2>3, PaidSpend
          <5>5. Tokens(Append(dq, spend)) = Tokens(dq) + spend.tokens
            BY <2>2, <5>2, <5>4, TokensOfAppend
          <5> QED BY <3>2, <4>3, <5>5, <2>7
        <4>5. EventsAreWhatIsLeft'
          BY <3>2, <4>1, <2>5 DEF EventsAreWhatIsLeft
        <4>6. WithinLimits'
          BY <3>2, <4>2, <4>3, <4>4 DEF WithinLimits
        <4> QED BY <4>5, <4>6
      <3> QED BY <2>4, <3>1, <3>2
    <2> QED BY <2>6, <2>9, <2>10, <2>11 DEF GuardInv
  <1>4. ASSUME NEW t \in Threads, Usage(t) PROVE GuardInv'
    <2> DEFINE dq == Trimmed(events, clock)
    <2>1. /\ dq \in Seq(Spend) /\ Len(dq) <= MaxEvents
          /\ NoneNegative => Tokens(dq) <= MaxTokens
          /\ IsWhatIsLeft(dq, granted, clock)
      BY <1>0, TrimmedIsWhatIsLeft
    <2>2. events' = dq /\ UNCHANGED <<clock, now, cost, granted>>
      BY <1>4 DEF Usage
    <2> HIDE DEF dq
    <2>3. TypeOK'
      BY <1>0, <2>1, <2>2 DEF TypeOK, Spend, Idle
    <2>4. ReadingsArePast' /\ SpendsArePast' /\ EventsAreWhatIsLeft' /\ WithinLimits'
      BY <1>0, <2>1, <2>2
         DEF ReadingsArePast, SpendsArePast, EventsAreWhatIsLeft, WithinLimits, NoneNegative
    <2> QED BY <2>3, <2>4 DEF GuardInv
  <1>5. CASE UNCHANGED vars
    BY <1>0, <1>5 DEF vars, GuardInv, TypeOK, ReadingsArePast, SpendsArePast,
                      EventsAreWhatIsLeft, WithinLimits, NoneNegative
  <1> QED BY <1>1, <1>2, <1>3, <1>4, <1>5 DEF Next

\* The invariant holds in every state the guard reaches: the deque holds what is
\* left of the spends ever granted and never exceeds the rate, nor, unless a negative
\* count was ever allowed, the budget.
THEOREM GuardInvariant == Spec => []GuardInv
  BY InitGuardInv, StepGuardInv, PTL DEF Spec

\* Every variable keeps its type.
THEOREM GuardTypeCorrect == Spec => []TypeOK
  BY GuardInvariant, PTL DEF GuardInv

-----------------------------------------------------------------------------
\* The amounts granted in the window that ends at a given time, zero elsewhere.
InWindowAmounts(at) ==
    [i \in DOMAIN granted |-> IF InWindow(granted[i], at) THEN granted[i].tokens ELSE 0]

LEMMA InWindowAmountsType ==
  ASSUME granted \in Seq(Paid), NEW at
  PROVE  /\ InWindowAmounts(at) \in Seq(Nat)
         /\ Len(InWindowAmounts(at)) = Len(granted)
         /\ \A i \in 1 .. Len(granted) :
              /\ granted[i].tokens \in Nat
              /\ InWindowAmounts(at)[i] =
                   IF InWindow(granted[i], at) THEN granted[i].tokens ELSE 0
         /\ TokensInWindow(at) = Total(InWindowAmounts(at))
  <1>1. DOMAIN granted = 1 .. Len(granted) /\ Len(granted) \in Nat
    OBVIOUS
  <1>2. ASSUME NEW i \in 1 .. Len(granted) PROVE granted[i].tokens \in Nat
    BY <1>1, AmountsType
  <1>3. InWindowAmounts(at) \in [1 .. Len(granted) -> Nat]
    BY <1>1, <1>2 DEF InWindowAmounts
  <1>4. InWindowAmounts(at) \in Seq(Nat) /\ Len(InWindowAmounts(at)) = Len(granted)
    BY <1>1, <1>3
  <1> QED BY <1>1, <1>2, <1>4 DEF InWindowAmounts, TokensInWindow

\* The number of spends in a window is a natural number.
LEMMA EventsInWindowType ==
  ASSUME granted \in Seq(Spend), NEW at
  PROVE  EventsInWindow(at) \in Nat
  <1> DEFINE inside == {i \in DOMAIN granted : InWindow(granted[i], at)}
  <1>1. inside \subseteq 1 .. Len(granted) /\ Len(granted) \in Nat
    OBVIOUS
  <1>2. IsFiniteSet(1 .. Len(granted))
    BY <1>1, FS_Interval
  <1> HIDE DEF inside
  <1>3. IsFiniteSet(inside)
    BY <1>1, <1>2, FS_Subset
  <1> QED BY <1>3, FS_CardinalityType DEF EventsInWindow, inside

\* What the invariant says of the current window.
LEMMA GuardInvBudget == GuardInv => CurrentWindowBudget
  <1> SUFFICES ASSUME GuardInv PROVE CurrentWindowBudget
    OBVIOUS
  <1>0. /\ clock \in Nat /\ events \in Seq(Spend) /\ granted \in Seq(Spend)
        /\ Len(events) <= MaxEvents
        /\ NoneNegative => Tokens(events) <= MaxTokens
    BY ConstantTypes DEF GuardInv, TypeOK, WithinLimits
  <1>1. PICK k \in 0 .. Len(granted) :
          /\ Len(granted) = k + Len(events)
          /\ \A i \in 1 .. Len(events) : events[i] = granted[k + i]
          /\ \A i \in 1 .. k : granted[i].at + Window < clock
    BY DEF GuardInv, EventsAreWhatIsLeft, IsWhatIsLeft
  <1>2. Len(granted) \in Nat /\ Len(events) \in Nat /\ k \in Nat
    BY <1>0
  <1>3. ASSUME NEW i \in 1 .. k PROVE i \in 1 .. Len(granted) /\ ~ InWindow(granted[i], clock)
    <2>1. i \in 1 .. Len(granted)
      BY <1>1, <1>2
    <2>2. granted[i] \in Spend
      BY <1>0, <2>1
    <2>3. granted[i].at \in Nat
      BY <2>2 DEF Spend
    <2> QED BY <1>0, <1>1, <2>1, <2>3, ConstantTypes DEF InWindow
  <1>4. ASSUME NoneNegative PROVE TokensInWindow(clock) <= MaxTokens
    <2>0. events \in Seq(Paid) /\ granted \in Seq(Paid)
      BY <1>4, EventsArePaid DEF GuardInv
    <2> DEFINE s == Amounts(events)
               t == InWindowAmounts(clock)
    <2>1. s \in Seq(Nat) /\ Len(s) = Len(events) /\ Total(s) = Tokens(events)
          /\ \A i \in 1 .. Len(events) : s[i] = events[i].tokens /\ events[i].tokens \in Nat
      BY <2>0, AmountsType
    <2>2. t \in Seq(Nat) /\ Len(t) = Len(granted) /\ Total(t) = TokensInWindow(clock)
      BY <2>0, InWindowAmountsType
    <2>3. ASSUME NEW i \in 1 .. Len(granted)
          PROVE  t[i] = IF InWindow(granted[i], clock) THEN granted[i].tokens ELSE 0
      BY <2>0, InWindowAmountsType
    <2> HIDE DEF s, t
    <2>4. Len(t) = k + Len(s)
      BY <1>1, <2>1, <2>2
    <2>5. \A i \in 1 .. k : t[i] = 0
      BY <1>3, <2>3
    <2>6. ASSUME NEW i \in 1 .. Len(s) PROVE t[k + i] <= s[i]
      <3>1. i \in 1 .. Len(events) /\ k + i \in 1 .. Len(granted)
        BY <1>1, <1>2, <2>1
      <3>2. granted[k + i] = events[i]
        BY <1>1, <3>1
      <3>3. s[i] = events[i].tokens /\ events[i].tokens \in Nat
        BY <2>1, <3>1
      <3>4. t[k + i] = events[i].tokens \/ t[k + i] = 0
        BY <2>3, <3>1, <3>2
      <3> QED BY <3>3, <3>4
    <2>7. Total(t) <= Total(s)
      BY <1>2, <2>1, <2>2, <2>4, <2>5, <2>6, TotalAfterZeros
    <2>8. Total(t) \in Nat /\ Total(s) \in Nat
      BY <2>1, <2>2, TotalType
    <2> QED BY <1>0, <1>4, <2>1, <2>2, <2>7, <2>8, ConstantTypes
  <1>5. EventsInWindow(clock) <= Len(events)
    <2> DEFINE inside == {i \in DOMAIN granted : InWindow(granted[i], clock)}
               rest == k + 1 .. Len(granted)
    <2>1. inside \subseteq rest
      BY <1>0, <1>2, <1>3
    <2>2. IsFiniteSet(rest) /\ Cardinality(rest) = Len(events)
      <3>1. k + 1 \in Int /\ Len(granted) \in Int
        BY <1>2
      <3>2. IsFiniteSet(rest)
            /\ Cardinality(rest) = IF k + 1 > Len(granted) THEN 0 ELSE Len(granted) - (k + 1) + 1
        BY <3>1, FS_Interval
      <3> QED BY <3>2, <1>1, <1>2
    <2> HIDE DEF inside, rest
    <2>3. Cardinality(inside) <= Cardinality(rest)
      BY <2>1, <2>2, FS_Subset
    <2> QED BY <2>2, <2>3 DEF EventsInWindow, inside
  <1>6. EventsInWindow(clock) \in Nat
    BY <1>0, EventsInWindowType
  <1>7. EventsInWindow(clock) <= MaxEvents
    BY <1>0, <1>2, <1>5, <1>6, ConstantTypes
  <1> QED BY <1>4, <1>7 DEF CurrentWindowBudget

\* However the threads overtake one another, what was allowed in the window that
\* ends now stays within the rate, and, unless a negative count was ever allowed,
\* within the budget (check(), guards.token_velocity).
THEOREM BudgetAlwaysKept == Spec => []CurrentWindowBudget
  BY GuardInvariant, GuardInvBudget, PTL

\* When thread t was not overtaken, the deque it trimmed lies wholly in the
\* window that ends at its reading.
LEMMA TrimmedLiesInWindow ==
  ASSUME GuardInv, NEW t \in Threads, now[t] # Idle, NotOvertaken(t)
  PROVE  /\ NoneNegative => Tokens(Trimmed(events, now[t])) <= TokensInWindow(now[t])
         /\ Len(Trimmed(events, now[t])) <= EventsInWindow(now[t])
  <1> DEFINE n == now[t]
             dq == Trimmed(events, n)
  <1>0. /\ clock \in Nat /\ events \in Seq(Spend) /\ granted \in Seq(Spend)
        /\ n \in Nat
    BY ConstantTypes DEF GuardInv, TypeOK, Idle
  <1>1. PICK k \in 0 .. Len(granted) :
          /\ Len(granted) = k + Len(events)
          /\ \A i \in 1 .. Len(events) : events[i] = granted[k + i]
    BY DEF GuardInv, EventsAreWhatIsLeft, IsWhatIsLeft
  <1>2. PICK j \in 0 .. Len(events) :
          /\ Len(events) = j + Len(dq)
          /\ \A i \in 1 .. Len(dq) : dq[i] = events[j + i]
          /\ j < Len(events) => ~ Expired(events[j + 1], n)
    BY <1>0, TrimmedIsSuffix
  <1>3. dq \in Seq(Spend)
    BY <1>0, TrimmedIsSuffix
  <1>4. ASSUME NEW i \in 1 .. Len(events)
        PROVE  events[i].at <= n /\ \A m \in 1 .. i : events[m].at <= events[i].at
    <2>1. DOMAIN events = 1 .. Len(events)
      BY <1>0
    <2> QED BY <2>1 DEF NotOvertaken
  <1>9. NoneNegative => dq \in Seq(Paid)
    <2>1. n <= clock
      BY DEF GuardInv, ReadingsArePast
    <2> QED BY <1>0, <2>1, TrimmedIsWhatIsLeft DEF GuardInv
  <1> HIDE DEF dq, n
  <1>5. Len(granted) \in Nat /\ Len(events) \in Nat /\ Len(dq) \in Nat /\ k \in Nat /\ j \in Nat
    BY <1>0, <1>3
  <1>6. ASSUME NEW i \in 1 .. Len(dq)
        PROVE  /\ (k + j) + i \in 1 .. Len(granted)
               /\ granted[(k + j) + i] = dq[i]
               /\ InWindow(dq[i], n)
    <2>1. j + i \in 1 .. Len(events) /\ j + 1 \in 1 .. j + i /\ j < Len(events)
      BY <1>2, <1>5
    <2>2. (k + j) + i \in 1 .. Len(granted) /\ (k + j) + i = k + (j + i)
      BY <1>1, <1>5, <2>1
    <2>3. granted[(k + j) + i] = events[j + i] /\ dq[i] = events[j + i]
      BY <1>1, <1>2, <2>1, <2>2
    <2>4. events[j + i] \in Spend /\ events[j + 1] \in Spend
      BY <1>0, <1>5, <2>1
    <2>5. events[j + i].at \in Nat /\ events[j + 1].at \in Nat
      BY <2>4 DEF Spend
    <2>6. events[j + i].at <= n /\ events[j + 1].at <= events[j + i].at
      BY <1>4, <2>1
    <2>7. ~ (events[j + 1].at + Window < n)
      BY <1>2, <2>1 DEF Expired
    <2>8. InWindow(events[j + i], n)
      <3> DEFINE a == events[j + i].at
                 b == events[j + 1].at
      <3>1. a \in Nat /\ b \in Nat /\ a <= n /\ b <= a /\ ~ (b + Window < n)
        BY <2>5, <2>6, <2>7
      <3> HIDE DEF a, b
      <3>2. a <= n /\ n <= a + Window
        BY <1>0, <3>1, ConstantTypes
      <3> QED BY <3>2 DEF InWindow, a
    <2> QED BY <2>2, <2>3, <2>8
  <1>7. ASSUME NoneNegative PROVE Tokens(dq) <= TokensInWindow(n)
    <2>0. dq \in Seq(Paid) /\ granted \in Seq(Paid)
      BY <1>7, <1>9, EventsArePaid DEF GuardInv
    <2> DEFINE s == Amounts(dq)
               w == InWindowAmounts(n)
    <2>1. s \in Seq(Nat) /\ Len(s) = Len(dq) /\ Total(s) = Tokens(dq)
          /\ \A i \in 1 .. Len(dq) : s[i] = dq[i].tokens /\ dq[i].tokens \in Nat
      BY <2>0, AmountsType
    <2>2. w \in Seq(Nat) /\ Len(w) = Len(granted) /\ Total(w) = TokensInWindow(n)
      BY <2>0, InWindowAmountsType
    <2>3. ASSUME NEW i \in 1 .. Len(granted)
          PROVE  w[i] = IF InWindow(granted[i], n) THEN granted[i].tokens ELSE 0
      BY <2>0, InWindowAmountsType
    <2> HIDE DEF s, w
    <2>4. Len(w) = (k + j) + Len(s) /\ k + j \in Nat
      <3>1. Len(granted) = (k + j) + Len(dq) /\ k + j \in Nat
        BY <1>1, <1>2, <1>5
      <3> QED BY <3>1, <2>1, <2>2
    <2>5. ASSUME NEW i \in 1 .. Len(s) PROVE s[i] <= w[(k + j) + i]
      <3>1. i \in 1 .. Len(dq)
        BY <2>1
      <3>2. w[(k + j) + i] = dq[i].tokens
        BY <3>1, <1>6, <2>3
      <3>3. s[i] = dq[i].tokens /\ dq[i].tokens \in Nat
        BY <3>1, <2>1
      <3> QED BY <3>2, <3>3
    <2>6. Total(s) <= Total(w)
      BY <2>1, <2>2, <2>4, <2>5, TotalOfSuffix
    <2> QED BY <2>1, <2>2, <2>6
  <1>8. Len(dq) <= EventsInWindow(n)
    <2> DEFINE inside == {i \in DOMAIN granted : InWindow(granted[i], n)}
               rest == (k + j) + 1 .. Len(granted)
    <2>1. rest \subseteq inside
      <3> SUFFICES ASSUME NEW m \in rest PROVE m \in inside
        OBVIOUS
      <3>1. m - (k + j) \in 1 .. Len(dq) /\ (k + j) + (m - (k + j)) = m
        BY <1>1, <1>2, <1>5
      <3>2. m \in 1 .. Len(granted) /\ InWindow(granted[m], n)
        BY <1>6, <3>1
      <3> QED BY <1>0, <3>2
    <2>2. Cardinality(rest) = Len(dq)
      <3>1. (k + j) + 1 \in Int /\ Len(granted) \in Int
        BY <1>5
      <3>2. Cardinality(rest) = IF (k + j) + 1 > Len(granted) THEN 0
                                ELSE Len(granted) - ((k + j) + 1) + 1
        BY <3>1, FS_Interval
      <3> QED BY <3>2, <1>1, <1>2, <1>5
    <2>3. inside \subseteq 1 .. Len(granted)
      BY <1>0
    <2>4. IsFiniteSet(1 .. Len(granted))
      BY <1>5, FS_Interval
    <2> HIDE DEF inside, rest
    <2>5. IsFiniteSet(inside)
      BY <2>3, <2>4, FS_Subset
    <2>6. Cardinality(rest) <= Cardinality(inside)
      BY <2>1, <2>5, FS_Subset
    <2> QED BY <2>2, <2>6 DEF EventsInWindow, inside
  <1> QED BY <1>7, <1>8 DEF dq, n

\* A request that was not overtaken between the clock and the lock is turned away
\* only when it would have exceeded the budget or the rate of its own window,
\* unless a negative count was ever allowed (check(), guards.token_velocity).
THEOREM RejectionsAlwaysJustified == Spec => RejectionsAreJustified
  <1>1. ASSUME GuardInv, [Next]_vars, NEW t \in Threads,
               Rejected(t), NotOvertaken(t), NoneNegative
        PROVE  \/ TokensInWindow(now[t]) + cost[t] > MaxTokens
               \/ EventsInWindow(now[t]) + 1 > MaxEvents
    <2>r. now[t] # Idle /\ now'[t] = Idle /\ granted' = granted
      BY <1>1 DEF Rejected
    <2>0. /\ events \in Seq(Spend) /\ granted \in Seq(Spend) /\ clock \in 0 .. MaxTime
          /\ now \in [Threads -> 0 .. Idle] /\ now[t] \in Nat /\ cost[t] \in Int
      <3>1. /\ events \in Seq(Spend) /\ granted \in Seq(Spend) /\ clock \in 0 .. MaxTime
            /\ now \in [Threads -> 0 .. Idle] /\ cost[t] \in Costs
        BY <1>1, <2>r DEF GuardInv, TypeOK, ReadingsArePast
      <3>2. Idle \in Nat /\ Costs \subseteq Int
        BY ConstantTypes DEF Idle
      <3>3. now[t] \in 0 .. Idle
        BY <3>1
      <3>4. now[t] \in Nat
        BY <3>2, <3>3
      <3> QED BY <3>1, <3>2, <3>4
    <2>1. Check(t)
      <3>1. CASE Tick
        BY <1>1, <2>r, <3>1 DEF Tick
      <3>2. ASSUME NEW u \in Threads, ReadClock(u) PROVE FALSE
        <4>1. now' = [now EXCEPT ![u] = clock] /\ clock # Idle
          BY <2>0, <3>2, ConstantTypes DEF ReadClock, Idle
        <4> QED BY <1>1, <2>r, <2>0, <4>1
      <3>3. ASSUME NEW u \in Threads, Usage(u) PROVE FALSE
        BY <1>1, <2>r, <3>3 DEF Usage
      <3>4. ASSUME NEW u \in Threads, Check(u) PROVE u = t
        BY <1>1, <2>r, <2>0, <3>4 DEF Check
      <3>5. CASE UNCHANGED vars
        BY <1>1, <2>r, <3>5 DEF vars
      <3> QED BY <1>1, <3>1, <3>2, <3>3, <3>4, <3>5 DEF Next
    <2> DEFINE dq == Trimmed(events, now[t])
    <2>2. dq \in Seq(Spend)
      BY <2>0, TrimmedIsSuffix
    <2>3. ~ Fits(dq, cost[t])
      <3> DEFINE spend == [at |-> now[t], tokens |-> cost[t]]
      <3>1. Append(granted, spend) # granted
        BY <2>0
      <3> QED BY <1>1, <2>r, <2>1, <3>1 DEF Check
    <2>4. Tokens(dq) <= TokensInWindow(now[t]) /\ Len(dq) <= EventsInWindow(now[t])
      BY <1>1, <2>r, TrimmedLiesInWindow
    <2>7. dq \in Seq(Paid) /\ granted \in Seq(Paid)
      <3>1. now[t] <= clock
        BY <1>1, <2>r DEF GuardInv, ReadingsArePast
      <3>2. dq \in Seq(Paid)
        BY <1>1, <2>0, <3>1, TrimmedIsWhatIsLeft DEF GuardInv
      <3> QED BY <1>1, <3>2, EventsArePaid DEF GuardInv
    <2> HIDE DEF dq
    <2>5. Tokens(dq) \in Nat /\ TokensInWindow(now[t]) \in Nat /\ Len(dq) \in Nat
      BY <2>7, AmountsType, InWindowAmountsType, TotalType
    <2>6. EventsInWindow(now[t]) \in Nat
      BY <2>0, EventsInWindowType
    <2> QED BY <2>0, <2>3, <2>4, <2>5, <2>6, ConstantTypes DEF Fits
  <1>2. GuardInv /\ [Next]_vars
          => [\A t \in Threads :
                Rejected(t) /\ NotOvertaken(t) /\ NoneNegative
                  => \/ TokensInWindow(now[t]) + cost[t] > MaxTokens
                     \/ EventsInWindow(now[t]) + 1 > MaxEvents]_vars
    BY <1>1
  <1> QED BY <1>2, GuardInvariant, PTL DEF Spec, RejectionsAreJustified

=============================================================================
