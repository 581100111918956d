-------------------------- MODULE PipelineStartProofs --------------------------
(***************************************************************************)
(* Theorems about what a pipeline finds when it starts: about SwarmDetector*)
(* for all rates, boundaries and principals, about SigningKey for any      *)
(* number of processes that start, stop and die at any time, and about the *)
(* two together in PipelineStart.                                          *)
(***************************************************************************)
EXTENDS PipelineStart, FiniteSetTheorems, TLAPS

-----------------------------------------------------------------------------
(* SwarmDetector.                                                          *)

\* The evidence of a streak is at least what the streak added to a start above
\* the lower boundary.
StreakCounts == \A p \in Principals : streak[p] * IncPos < logLR[p] + Lower

SwarmInv == TypeOK /\ EvidenceIsBounded /\ StreakCounts

LEMMA InitSwarmInv == Init => SwarmInv
  BY RatesAssumption DEF Init, SwarmInv, TypeOK, EvidenceIsBounded, StreakCounts

LEMMA StepSwarmInv == SwarmInv /\ [Next]_vars => SwarmInv'
  <1> SUFFICES ASSUME SwarmInv, [Next]_vars PROVE SwarmInv'
    OBVIOUS
  <1>1. ASSUME NEW p \in Principals, NEW s \in BOOLEAN, Observe(p, s) PROVE SwarmInv'
    <2> DEFINE lr == Evidence(p, s)
               n == streak[p]
    <2>1. /\ logLR[p] \in Int /\ n \in Nat /\ lr \in Int
          /\ - Lower < logLR[p] /\ logLR[p] < Upper
          /\ n * IncPos < logLR[p] + Lower
      BY RatesAssumption
         DEF SwarmInv, TypeOK, EvidenceIsBounded, StreakCounts, Evidence
    <2>2. /\ logLR' = [logLR EXCEPT ![p] = IF Decision(lr) = "continue" THEN lr ELSE 0]
          /\ streak' = [streak EXCEPT ![p] =
                          IF s /\ Decision(lr) # "swarm" THEN n + 1 ELSE 0]
      BY <1>1 DEF Observe, SwarmInv, TypeOK
    <2>3. Decision(lr) = "continue" => - Lower < lr /\ lr < Upper
      BY <2>1, RatesAssumption DEF Decision
    <2>4. s => lr = logLR[p] + IncPos
      BY DEF Evidence
    <2>5. s => Decision(lr) # "benign"
      <3>1. s => lr > - Lower
        <4> HIDE DEF lr, n
        <4> QED BY <2>1, <2>4, RatesAssumption
      <3>2. s => ~ (lr <= - Lower)
        <4> HIDE DEF lr, n
        <4> QED BY <3>1, <2>1, RatesAssumption
      <3> QED BY <3>2 DEF Decision
    <2>6. (n + 1) * IncPos = n * IncPos + IncPos
      BY <2>1, RatesAssumption
    <2>7. 0 * IncPos = 0
      BY RatesAssumption
    <2> HIDE DEF lr, n
    <2>8. logLR'[p] \in Int /\ - Lower < logLR'[p] /\ logLR'[p] < Upper
      BY <2>1, <2>2, <2>3, RatesAssumption DEF SwarmInv, TypeOK
    <2>9. streak'[p] \in Nat /\ streak'[p] * IncPos < logLR'[p] + Lower
      <3>1. CASE s /\ Decision(lr) # "swarm"
        <4>1. Decision(lr) = "continue"
          BY <3>1, <2>5 DEF Decision
        <4>2. streak'[p] = n + 1 /\ logLR'[p] = logLR[p] + IncPos
          BY <3>1, <4>1, <2>2, <2>4 DEF SwarmInv, TypeOK
        <4>3. n * IncPos \in Int
          BY <2>1, RatesAssumption
        <4> HIDE DEF SwarmInv
        <4> QED BY <4>2, <4>3, <2>1, <2>6, RatesAssumption
      <3>2. CASE ~ (s /\ Decision(lr) # "swarm")
        <4>1. streak'[p] = 0
          BY <3>2, <2>2 DEF SwarmInv, TypeOK
        <4> QED BY <4>1, <2>7, <2>8, RatesAssumption
      <3> QED BY <3>1, <3>2
    <2>10. \A q \in Principals \ {p} : logLR'[q] = logLR[q] /\ streak'[q] = streak[q]
      BY <2>2 DEF SwarmInv, TypeOK
    <2>11. TypeOK'
      BY <2>2, <2>8, <2>9, <2>10 DEF SwarmInv, TypeOK
    <2>12. EvidenceIsBounded'
      BY <2>8, <2>10 DEF SwarmInv, EvidenceIsBounded
    <2>13. StreakCounts'
      BY <2>9, <2>10 DEF SwarmInv, StreakCounts
    <2> QED BY <2>11, <2>12, <2>13 DEF SwarmInv
  <1>2. CASE UNCHANGED vars
    BY <1>2 DEF vars, SwarmInv, TypeOK, EvidenceIsBounded, StreakCounts
  <1> QED BY <1>1, <1>2 DEF Next

\* The invariant holds whatever a principal's requests are.
THEOREM SwarmInvariant == Spec => []SwarmInv
  BY InitSwarmInv, StepSwarmInv, PTL DEF Spec

LEMMA SwarmInvBounds == SwarmInv => EvidenceIsBounded /\ StreaksAreCaught
  <1> SUFFICES ASSUME SwarmInv, NEW p \in Principals
               PROVE  streak[p] * IncPos < Upper + Lower
    BY DEF SwarmInv, StreaksAreCaught
  <1>1. streak[p] * IncPos < logLR[p] + Lower /\ logLR[p] < Upper
        /\ logLR[p] \in Int /\ streak[p] \in Nat
    BY DEF SwarmInv, TypeOK, EvidenceIsBounded, StreakCounts
  <1>2. streak[p] * IncPos \in Int
    BY <1>1, RatesAssumption
  <1> QED BY <1>1, <1>2, RatesAssumption

\* Between two requests the evidence lies strictly between the boundaries.
THEOREM EvidenceStaysBounded == Spec => []EvidenceIsBounded
  BY SwarmInvariant, SwarmInvBounds, PTL

\* A principal that only sends suspicious requests is declared a swarm before
\* its streak covers the distance between the boundaries.
THEOREM StreaksAreAlwaysCaught == Spec => []StreaksAreCaught
  BY SwarmInvariant, SwarmInvBounds, PTL

-----------------------------------------------------------------------------
(* SigningKey.                                                             *)

LEMMA InitKeyTypeOK == KeyInit => KeyTypeOK
  <1> SUFFICES ASSUME KeyInit PROVE KeyTypeOK
    OBVIOUS
  <1>1. exists \in BOOLEAN /\ content \in Nat /\ generated \in Nat /\ used \subseteq Nat
    BY DEF KeyInit, NoKey
  <1>2. phase \in [Processes -> {"down", "found", "missing", "writing", "up"}]
    BY DEF KeyInit
  <1>3. key \in [Processes -> Nat]
    BY DEF KeyInit, NoKey
  <1> QED BY <1>1, <1>2, <1>3 DEF KeyTypeOK

LEMMA StepKeyTypeOK == KeyTypeOK /\ [KeyNext]_keyVars => KeyTypeOK'
  <1> SUFFICES ASSUME KeyTypeOK, [KeyNext]_keyVars PROVE KeyTypeOK'
    OBVIOUS
  <1> USE DEF KeyTypeOK, NoKey
  <1>1. ASSUME NEW p \in Processes, ProcessStep(p) PROVE KeyTypeOK'
    <2>1. CASE Look(p)
      BY <2>1 DEF Look
    <2>2. CASE Load(p)
      BY <2>2 DEF Load
    <2>3. CASE LoadFails(p)
      BY <2>3 DEF LoadFails
    <2>4. CASE Create(p)
      BY <2>4 DEF Create
    <2>5. CASE Fill(p)
      BY <2>5 DEF Fill
    <2>6. CASE Stop(p)
      BY <2>6 DEF Stop
    <2>7. CASE Sign(p)
      BY <2>7 DEF Sign
    <2> QED BY <1>1, <2>1, <2>2, <2>3, <2>4, <2>5, <2>6, <2>7 DEF ProcessStep
  <1>2. CASE UNCHANGED keyVars
    BY <1>2 DEF keyVars
  <1> QED BY <1>1, <1>2 DEF KeyNext

\* Every variable keeps its type.
THEOREM KeyTypeCorrect == KeySpec => []KeyTypeOK
  BY InitKeyTypeOK, StepKeyTypeOK, PTL DEF KeySpec

-----------------------------------------------------------------------------
(* Whoever will still create a key found the file missing, and nobody finds *)
(* it missing once it is there: each creation uses one such process up.     *)

Creators == {p \in Processes : phase[p] = "missing"}

KeysInv ==
    /\ KeyTypeOK
    /\ content \in 0 .. generated
    /\ \A p \in Processes : key[p] \in 0 .. generated
    /\ \A p \in Processes : phase[p] \in {"up", "writing"} => key[p] # NoKey
    /\ used \subseteq 1 .. generated
    /\ ~ exists => generated = 0
    /\ exists => generated + Cardinality(Creators) <= Cardinality(Processes)

LEMMA CreatorsShrink ==
  ASSUME IsFiniteSet(Processes), NEW S, NEW T, S \subseteq Processes, T \subseteq S
  PROVE  /\ IsFiniteSet(S) /\ Cardinality(S) \in Nat
         /\ Cardinality(T) \in Nat /\ Cardinality(T) <= Cardinality(S)
         /\ Cardinality(Processes) \in Nat /\ Cardinality(S) <= Cardinality(Processes)
         /\ \A p \in S : Cardinality(S \ {p}) = Cardinality(S) - 1
  <1>1. IsFiniteSet(S)
    BY FS_Subset
  <1>2. /\ Cardinality(T) <= Cardinality(S) /\ IsFiniteSet(T)
        /\ Cardinality(S) <= Cardinality(Processes)
    BY <1>1, FS_Subset
  <1>3. \A p \in S : Cardinality(S \ {p}) = Cardinality(S) - 1
    BY <1>1, FS_RemoveElement
  <1> QED BY <1>1, <1>2, <1>3, FS_CardinalityType

LEMMA InitKeysInv == KeyInit => KeysInv
  BY InitKeyTypeOK DEF KeyInit, KeysInv, NoKey

LEMMA StepKeysInv ==
  ASSUME IsFiniteSet(Processes) PROVE KeysInv /\ [KeyNext]_keyVars => KeysInv'
  <1> SUFFICES ASSUME KeysInv, [KeyNext]_keyVars PROVE KeysInv'
    OBVIOUS
  <1> USE DEF KeysInv, NoKey
  <1>1. KeyTypeOK'
    BY StepKeyTypeOK
  <1>2. ASSUME Creators' \subseteq Creators, exists' = exists, generated' = generated
        PROVE  exists' => generated' + Cardinality(Creators') <= Cardinality(Processes)
    <2>1. Creators \subseteq Processes
      BY DEF Creators
    <2>2. /\ Cardinality(Creators') <= Cardinality(Creators)
          /\ Cardinality(Creators') \in Nat /\ Cardinality(Creators) \in Nat
          /\ Cardinality(Processes) \in Nat
      BY <1>2, <2>1, CreatorsShrink
    <2> QED BY <1>2, <2>2 DEF KeyTypeOK
  <1>3. ASSUME NEW p \in Processes, Look(p) PROVE KeysInv'
    <2>1. exists => Creators' \subseteq Creators
      BY <1>3 DEF Look, Creators, KeyTypeOK
    <2> QED BY <1>1, <1>2, <1>3, <2>1 DEF Look, KeyTypeOK
  <1>4. ASSUME NEW p \in Processes, Create(p) PROVE KeysInv'
    <2> DEFINE n == Cardinality(Creators)
    <2>1. Creators' = Creators \ {p} /\ p \in Creators /\ Creators \subseteq Processes
      BY <1>4 DEF Create, Creators, KeyTypeOK
    <2>2. Cardinality(Creators') = n - 1 /\ n \in Nat /\ Cardinality(Processes) \in Nat
          /\ n <= Cardinality(Processes)
      BY <2>1, CreatorsShrink
    <2>3. generated + n <= Cardinality(Processes)
      BY <2>2 DEF KeyTypeOK
    <2>4. generated' + Cardinality(Creators') <= Cardinality(Processes)
      BY <1>4, <2>2, <2>3 DEF Create, KeyTypeOK
    <2> QED BY <1>1, <1>4, <2>4 DEF Create, KeyTypeOK
  <1>5. ASSUME NEW p \in Processes, Load(p) \/ LoadFails(p) \/ Fill(p) \/ Stop(p) \/ Sign(p)
        PROVE  KeysInv'
    <2>1. Creators' \subseteq Creators /\ exists' = exists /\ generated' = generated
      BY <1>5 DEF Load, LoadFails, Fill, Stop, Sign, Creators, KeyTypeOK
    <2>2. /\ content' \in 0 .. generated'
          /\ \A q \in Processes : key'[q] \in 0 .. generated'
          /\ \A q \in Processes : phase'[q] \in {"up", "writing"} => key'[q] # NoKey
      BY <1>5 DEF Load, LoadFails, Fill, Stop, Sign, KeyTypeOK
    <2>3. used' \subseteq 1 .. generated'
      <3>1. CASE Sign(p)
        <4>1. key[p] \in 1 .. generated
          BY <3>1 DEF Sign, KeyTypeOK
        <4> QED BY <2>1, <3>1, <4>1 DEF Sign
      <3>2. CASE ~ Sign(p)
        BY <1>5, <2>1, <3>2 DEF Load, LoadFails, Fill, Stop
      <3> QED BY <3>1, <3>2
    <2> QED BY <1>1, <1>2, <2>1, <2>2, <2>3
  <1>6. CASE UNCHANGED keyVars
    BY <1>1, <1>2, <1>6 DEF keyVars, Creators
  <1> QED BY <1>3, <1>4, <1>5, <1>6 DEF KeyNext, ProcessStep

\* Whatever number of processes start, stop and die, no more keys are ever used
\* than there are processes.
THEOREM KeysStayFew ==
  ASSUME IsFiniteSet(Processes) PROVE KeySpec => []KeysAreFew
  <1>1. KeysInv => KeysAreFew
    <2> SUFFICES ASSUME KeysInv PROVE KeysAreFew
      OBVIOUS
    <2>1. IsFiniteSet(1 .. generated) /\ Cardinality(1 .. generated) = generated
      BY FS_Interval DEF KeysInv, KeyTypeOK
    <2>2. Cardinality(used) <= generated /\ IsFiniteSet(used)
      BY <2>1, FS_Subset DEF KeysInv
    <2>3. Cardinality(used) \in Nat /\ Cardinality(Processes) \in Nat
      BY <2>2, FS_CardinalityType
    <2>4. generated <= Cardinality(Processes)
      <3>1. Creators \subseteq Processes
        BY DEF Creators
      <3>2. Cardinality(Creators) \in Nat
        BY <3>1, CreatorsShrink
      <3> QED BY <3>2, <2>3 DEF KeysInv, KeyTypeOK
    <2> QED BY <2>2, <2>3, <2>4 DEF KeysAreFew, KeysInv, KeyTypeOK
  <1> QED BY <1>1, InitKeysInv, StepKeysInv, PTL DEF KeySpec

\* Once the first starts are over the file and its key are final, for any number
\* of processes.
THEOREM SettledKeyStays == KeySpec => SettledKeyIsFinal
  <1> DEFINE Step ==
        Settled =>
          /\ Settled' /\ content' = content
          /\ \A p \in Processes :
               phase[p] # "up" /\ phase'[p] = "up" => key'[p] = content
  <1>1. KeyTypeOK /\ [KeyNext]_keyVars => [Step]_keyVars
    <2> SUFFICES ASSUME KeyTypeOK, KeyNext, Settled PROVE Step
      BY DEF Settled
    <2>1. PICK p \in Processes : ProcessStep(p)
      BY DEF KeyNext
    <2> QED BY <2>1 DEF ProcessStep, Look, Load, LoadFails, Create, Fill, Stop, Sign,
                        Settled, KeyTypeOK
  <1> QED BY <1>1, KeyTypeCorrect, PTL DEF KeySpec, SettledKeyIsFinal

-----------------------------------------------------------------------------
(* The two together.                                                       *)

LEMMA StepImplementsKey == [StartNext]_startVars => [KeyNext]_keyVars
  <1> SUFFICES ASSUME [StartNext]_startVars PROVE [KeyNext]_keyVars
    OBVIOUS
  <1>1. ASSUME NEW p \in Processes, ConstructPipeline(p) PROVE KeyNext
    BY <1>1 DEF ConstructPipeline, KeyNext, ProcessStep
  <1>2. ASSUME NEW p \in Processes, KeyStep(p) PROVE KeyNext
    BY <1>2 DEF KeyStep, KeyNext, ProcessStep
  <1>3. ASSUME NEW p \in Processes, NEW a \in Agents, NEW s \in BOOLEAN, ObserveRequest(p, a, s)
        PROVE  UNCHANGED keyVars
    BY <1>3 DEF ObserveRequest
  <1>4. CASE UNCHANGED startVars
    BY <1>4 DEF startVars
  <1> QED BY <1>1, <1>2, <1>3, <1>4 DEF StartNext

\* Whatever the detectors do between and during starts, the key file and the
\* processes that share it behave as SigningKey says, so its theorems hold here.
THEOREM StartImplementsKey == StartSpec => KeySpec
  <1>1. StartInit => KeyInit
    BY DEF StartInit
  <1> QED BY <1>1, StepImplementsKey, PTL DEF StartSpec, KeySpec

LEMMA StepStartSwarmInv == SwarmInv /\ [StartNext]_startVars => SwarmInv'
  <1> SUFFICES ASSUME SwarmInv, [StartNext]_startVars PROVE SwarmInv'
    OBVIOUS
  <1>1. ASSUME NEW p \in Processes, ConstructPipeline(p) PROVE SwarmInv'
    <2>1. logLR' = Fresh(logLR, p) /\ streak' = Fresh(streak, p)
      BY <1>1 DEF ConstructPipeline
    <2>2. 0 * IncPos = 0
      BY RatesAssumption
    <2>3. \A d \in Principals :
            \/ logLR'[d] = 0 /\ streak'[d] = 0
            \/ logLR'[d] = logLR[d] /\ streak'[d] = streak[d]
      BY <2>1 DEF Fresh
    <2>4. TypeOK'
      BY <2>1 DEF SwarmInv, TypeOK, Fresh
    <2>5. EvidenceIsBounded'
      BY <2>3, RatesAssumption DEF SwarmInv, EvidenceIsBounded
    <2>6. StreakCounts'
      BY <2>2, <2>3, RatesAssumption DEF SwarmInv, StreakCounts
    <2> QED BY <2>4, <2>5, <2>6 DEF SwarmInv
  <1>2. ASSUME UNCHANGED vars PROVE SwarmInv'
    BY <1>2, StepSwarmInv
  <1>3. ASSUME NEW p \in Processes, NEW a \in Agents, NEW s \in BOOLEAN, ObserveRequest(p, a, s)
        PROVE  SwarmInv'
    <2>1. <<p, a>> \in Principals
      BY DetectorsAssumption
    <2>2. Next
      BY <1>3, <2>1 DEF ObserveRequest, Next
    <2> QED BY <2>2, StepSwarmInv
  <1>4. CASE UNCHANGED startVars
    BY <1>2, <1>4 DEF startVars
  <1> QED BY <1>1, <1>2, <1>3, <1>4 DEF StartNext, KeyStep

\* A start takes nothing from the detectors' promises: the evidence is bounded
\* and every streak is caught also when processes start afresh at any time.
THEOREM DetectorsSurviveStarts == StartSpec => [](EvidenceIsBounded /\ StreaksAreCaught)
  <1>1. StartInit => SwarmInv
    BY InitSwarmInv DEF StartInit
  <1>2. SwarmInv => EvidenceIsBounded /\ StreaksAreCaught
    BY SwarmInvBounds
  <1> QED BY <1>1, <1>2, StepStartSwarmInv, PTL DEF StartSpec

\* In the service as it starts, stops and dies, no more keys are used than there
\* are processes.
THEOREM StartedKeysStayFew ==
  ASSUME IsFiniteSet(Processes) PROVE StartSpec => []KeysAreFew
  BY StartImplementsKey, KeysStayFew
=============================================================================
