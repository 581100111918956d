------------------------ MODULE CircuitBreakerProofs ------------------------
(***************************************************************************)
(* Theorems about CircuitBreaker, for every limit, timeout and set of      *)
(* calling threads; the last one for a single thread.                      *)
(***************************************************************************)
EXTENDS CircuitBreaker, TLAPS

BreakerInv == TypeOK /\ TrippedIffExhausted

LEMMA InitBreakerInv == Init => BreakerInv
  BY LimitsAssumption DEF Init, BreakerInv, TypeOK, TrippedIffExhausted

LEMMA StepBreakerInv == BreakerInv /\ [Next]_vars => BreakerInv'
  <1> SUFFICES ASSUME BreakerInv, [Next]_vars PROVE BreakerInv'
    OBVIOUS
  <1> USE LimitsAssumption DEF BreakerInv, TypeOK, TrippedIffExhausted
  <1>1. CASE Look
    BY <1>1 DEF Look, Looked
  <1>2. CASE Tick
    BY <1>2 DEF Tick
  <1>3. ASSUME NEW c \in Callers, CallerStep(c) PROVE BreakerInv'
    <2>1. CASE Enter(c)
      BY <2>1 DEF Enter, Looked
    <2>2. CASE Succeed(c)
      BY <2>2 DEF Succeed, Leave
    <2>3. CASE Fail(c)
      <3>1. pc' \in [Callers -> {"outside", "running"}] /\ outcome' = "raised"
        BY <2>3 DEF Fail, Leave
      <3>2. failures' \in 0 .. MaxFailures
        BY <2>3 DEF Fail, Count
      <3>3. CASE state = "half_open" \/ failures' >= MaxFailures
        \* a trial only runs with the counter at the limit, where it stays
        <4>1. failures' = MaxFailures
          BY <2>3, <3>2, <3>3 DEF Fail, Count
        <4> QED BY <2>3, <3>1, <3>3, <4>1 DEF Fail
      <3>4. CASE ~ (state = "half_open" \/ failures' >= MaxFailures)
        BY <2>3, <3>1, <3>2, <3>4 DEF Fail, Count
      <3> QED BY <3>3, <3>4
    <2>4. CASE Abandon(c)
      BY <2>4 DEF Abandon, Leave
    <2> QED BY <1>3, <2>1, <2>2, <2>3, <2>4 DEF CallerStep
  <1>4. CASE UNCHANGED vars
    BY <1>4 DEF vars
  <1> QED BY <1>1, <1>2, <1>3, <1>4 DEF Next

\* Every variable keeps its type.
THEOREM TypeCorrect == Spec => []TypeOK
  <1>1. BreakerInv => TypeOK
    BY DEF BreakerInv
  <1> QED BY <1>1, InitBreakerInv, StepBreakerInv, PTL DEF Spec

\* However calls overlap, the breaker is closed exactly while the failures in
\* a row are below the limit.
THEOREM AlwaysTrippedIffExhausted == Spec => []TrippedIffExhausted
  <1>1. BreakerInv => TrippedIffExhausted
    BY DEF BreakerInv
  <1> QED BY <1>1, InitBreakerInv, StepBreakerInv, PTL DEF Spec

-----------------------------------------------------------------------------
(* One calling thread.  While the breaker is open nobody runs, so no late  *)
(* success can close it; two threads can (see OpenLastsItsTimeout's run).  *)

OneCaller == \A c, d \in Callers : c = d

NobodyRunsWhileOpen == state = "open" => \A c \in Callers : pc[c] = "outside"

\* With a single calling thread an open breaker stays open for the timeout.
THEOREM OneCallerKeepsTimeout == ASSUME OneCaller PROVE Spec => OpenLastsItsTimeout
  <1> DEFINE Inv == BreakerInv /\ NobodyRunsWhileOpen
  <1>1. Init => Inv
    BY InitBreakerInv DEF Init, NobodyRunsWhileOpen
  <1>2. Inv /\ [Next]_vars => Inv'
    <2> SUFFICES ASSUME Inv, [Next]_vars PROVE NobodyRunsWhileOpen'
      BY StepBreakerInv
    <2> USE DEF NobodyRunsWhileOpen, BreakerInv, TypeOK
    <2>1. CASE Look
      BY <2>1 DEF Look, Looked
    <2>2. CASE Tick
      BY <2>2 DEF Tick
    <2>3. ASSUME NEW c \in Callers, CallerStep(c) PROVE NobodyRunsWhileOpen'
      <3>1. CASE Enter(c)
        BY <3>1 DEF Enter
      <3>2. CASE Succeed(c) \/ Fail(c) \/ Abandon(c)
        <4>1. pc' = [pc EXCEPT ![c] = "outside"]
          BY <3>2 DEF Succeed, Fail, Abandon, Leave
        <4> QED BY <4>1, OneCaller DEF OneCaller
      <3> QED BY <2>3, <3>1, <3>2 DEF CallerStep
    <2>4. CASE UNCHANGED vars
      BY <2>4 DEF vars
    <2> QED BY <2>1, <2>2, <2>3, <2>4 DEF Next
  <1>3. Inv /\ [Next]_vars
          => [state = "open" /\ state' # "open" => elapsed >= ResetTimeout]_vars
    <2> SUFFICES ASSUME Inv, Next, state = "open", state' # "open"
                 PROVE  elapsed >= ResetTimeout
      OBVIOUS
    <2>1. CASE Look
      BY <2>1 DEF Look, Looked
    <2>2. CASE Tick
      BY <2>2 DEF Tick
    <2>3. ASSUME NEW c \in Callers, CallerStep(c) PROVE elapsed >= ResetTimeout
      <3>1. pc[c] = "outside"
        BY DEF NobodyRunsWhileOpen
      <3>2. Enter(c)
        BY <2>3, <3>1 DEF CallerStep, Succeed, Fail, Abandon, Leave
      <3> QED BY <3>2 DEF Enter, Looked
    <2> QED BY <2>1, <2>2, <2>3 DEF Next
  <1> QED BY <1>1, <1>2, <1>3, PTL DEF Spec, OpenLastsItsTimeout
=============================================================================
