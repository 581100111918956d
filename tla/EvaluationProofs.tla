--------------------------- MODULE EvaluationProofs ---------------------------
(***************************************************************************)
(* Theorems about Evaluation: which policy decides, what a pass means, how *)
(* the two authority gates relate, that a verdict grows with what is asked *)
(* for and found, and what a disguise of the text can hide, for any grant  *)
(* tables, manifests, alphabets, texts and programs.                       *)
(***************************************************************************)
EXTENDS Evaluation, FiniteSetTheorems, WellFoundedInduction, SequenceTheorems, TLAPS

\* The policy in force, and what each later phase still knows of the earlier
\* ones: the objections are those of this policy, and only without any is the
\* verdict not a block.
PhasesInv ==
    /\ \E cases \in Cases : case \in cases
    /\ policy # Absent =>
         /\ policy = IF case.file = NoPath THEN DefaultPolicy ELSE case.signed
         /\ case.file # NoPath => case.trusted \in {Absent, case.signer}
    /\ objections # Pending => policy # Absent /\ objections = Objections(request)
    /\ verdict \in {"none", "ALLOW", "OBSERVE", "BLOCK"}
    /\ verdict # "none" => objections # Pending
    /\ verdict \in {"ALLOW", "OBSERVE"} => objections = {}
    /\ exit = 0 => verdict \in {"ALLOW", "OBSERVE"}

\* A file that loads holds the policy its author signed, and the trusted key, if
\* there is one, is the author's (load_manifest, _verify_envelope).
LEMMA LoadedIsSigned ==
  ASSUME NEW cases \in Cases, NEW c \in cases, c.file # NoPath,
         Loads(c.file, c.trusted)
  PROVE  c.file.policy = c.signed /\ c.trusted \in {Absent, c.signer}
  <1>1. c.file.signature = SignManifest(c.signed, c.signer).signature
    BY CasesAssumption DEF Loads, Verifies
  <1>2. c.file.signature = [key |-> c.signer, policy |-> c.signed]
    BY <1>1 DEF SignManifest
  <1>3. c.file.signature = [key |-> PublicKey(c.file, c.trusted), policy |-> c.file.policy]
    BY DEF Loads, Verifies
  <1>4. c.file.policy = c.signed /\ PublicKey(c.file, c.trusted) = c.signer
    BY <1>2, <1>3
  <1> QED BY <1>4 DEF PublicKey

LEMMA RulingIsVerdict ==
  ASSUME NEW r, NEW against
  PROVE  /\ Ruling(r, against) \in {"ALLOW", "OBSERVE", "BLOCK"}
         /\ against # {} => Ruling(r, against) = "BLOCK"
  BY DEF Ruling, Judge, Hint

LEMMA InitPhasesInv == Init => PhasesInv
  BY DEF Init, PhasesInv, Pending, Running

LEMMA StepPhasesInv == PhasesInv /\ [Next]_vars => PhasesInv'
  <1> SUFFICES ASSUME PhasesInv, [Next]_vars PROVE PhasesInv'
    OBVIOUS
  <1> USE DEF PhasesInv, request
  <1>1. CASE BuildPipeline
    <2>1. PICK cases \in Cases : case \in cases
      OBVIOUS
    <2>2. CASE case.file = NoPath /\ policy' = DefaultPolicy
      BY <1>1, <2>2 DEF BuildPipeline
    <2>3. CASE case.file # NoPath /\ Loads(case.file, case.trusted)
               /\ policy' = case.file.policy
      <3>1. policy' = case.signed /\ case.trusted \in {Absent, case.signer}
        BY <2>1, <2>3, LoadedIsSigned
      <3> QED BY <1>1, <2>3, <3>1 DEF BuildPipeline
    <2> QED BY <1>1, <2>2, <2>3 DEF BuildPipeline
  <1>2. CASE BuildFails
    BY <1>2 DEF BuildFails
  <1>3. CASE Authorize
    BY <1>3 DEF Authorize, Objections
  <1>4. CASE Evaluate
    <2>1. verdict' = Ruling(found', objections)
      BY <1>4 DEF Evaluate
    <2>2. /\ verdict' \in {"ALLOW", "OBSERVE", "BLOCK"}
          /\ objections # {} => verdict' = "BLOCK"
      BY <2>1, RulingIsVerdict
    <2> QED BY <1>4, <2>2 DEF Evaluate, Objections
  <1>5. CASE Exit
    BY <1>5 DEF Exit, Objections
  <1>6. CASE UNCHANGED vars
    BY <1>6 DEF vars, Objections
  <1> QED BY <1>1, <1>2, <1>3, <1>4, <1>5, <1>6 DEF Next

\* No policy decides but the built-in one, or one its author signed, and signed
\* with the trusted key if there is one, whoever put the file together.
THEOREM PolicyIsAlwaysSigned == Spec => []PolicyIsWhatWasSigned
  <1>1. PhasesInv => PolicyIsWhatWasSigned
    BY DEF PhasesInv, PolicyIsWhatWasSigned
  <1> QED BY <1>1, InitPhasesInv, StepPhasesInv, PTL DEF Spec

\* The command exits with 0 only after the request passed under the policy it
\* was given.
THEOREM ExitZeroAlwaysMeansPassed == Spec => []ExitZeroMeansPassed
  <1>1. PhasesInv => ExitZeroMeansPassed
    BY DEF PhasesInv, ExitZeroMeansPassed
  <1> QED BY <1>1, InitPhasesInv, StepPhasesInv, PTL DEF Spec

-----------------------------------------------------------------------------
\* What the gates let through is declared and granted by name
\* (zero_standing_privileges.py enforce, receipts.py confused_deputy_check).
LEMMA NoObjectionMeansGranted ==
  ASSUME NEW r, Objections(r) = {}, NEW x \in r.requested, r.requested \subseteq Resources
  PROVE  /\ x \in Declared(r)
         /\ r.principal \in DOMAIN policy.grants
         /\ Matched(x, policy.grants[r.principal])
  <1>1. /\ ZSPAllows(policy.grants, r.principal, Declared(r), r.requested)
        /\ DeputyAllows(policy.grants, r.principal, r.requested)
    BY DEF Objections
  <1>2. x \in Declared(r)
    BY <1>1 DEF ZSPAllows
  <1>3. r.principal \in DOMAIN policy.grants
    BY <1>1 DEF DeputyAllows, Get, Matched
  <1>4. Matched(x, policy.grants[r.principal])
    BY <1>1, <1>3 DEF ZSPAllows, Get
  <1> QED BY <1>2, <1>3, <1>4

\* What is not blocked was declared, and granted to the principal by name, for
\* any grant table and any request.
THEOREM PassAlwaysMeansGranted == Spec => []PassMeansGranted
  <1>1. PhasesInv => PassMeansGranted
    <2> SUFFICES ASSUME PhasesInv, Evaluated, verdict # "BLOCK",
                        NEW x \in request.requested
                 PROVE  /\ x \in Declared(request)
                        /\ request.principal \in DOMAIN policy.grants
                        /\ Matched(x, policy.grants[request.principal])
      BY DEF PassMeansGranted
    <2>1. Objections(request) = {}
      BY DEF PhasesInv, Evaluated
    <2>2. request.requested \subseteq Resources
      BY CasesAssumption DEF PhasesInv, request
    <2> QED BY <2>1, <2>2, NoObjectionMeansGranted
  <1> QED BY <1>1, InitPhasesInv, StepPhasesInv, PTL DEF Spec

\* The default manifest grants everything to the principal *, whom Gate C1 does not
\* look up: no request that names a resource passes under it (the run
\* evaluation_default shows one), but those of a principal with that very name.
DefaultBlocksNamed ==
    /\ case.file = NoPath /\ Evaluated
    /\ request.requested # {} /\ request.principal # AnyPrincipal
    => verdict = "BLOCK" /\ exit # 0

THEOREM DefaultAlwaysBlocksNamed == Spec => []DefaultBlocksNamed
  <1>1. PhasesInv /\ PassMeansGranted => DefaultBlocksNamed
    <2> SUFFICES ASSUME PhasesInv, PassMeansGranted, case.file = NoPath, Evaluated,
                        NEW x \in request.requested, request.principal # AnyPrincipal
                 PROVE  verdict = "BLOCK" /\ exit # 0
      BY DEF DefaultBlocksNamed
    <2>1. policy = DefaultPolicy
      BY DEF PhasesInv, Evaluated
    <2>2. request.principal \notin DOMAIN policy.grants
      BY <2>1 DEF DefaultPolicy
    <2>3. verdict = "BLOCK"
      BY <2>2 DEF PassMeansGranted
    <2> QED BY <2>3 DEF PhasesInv
  <1> QED BY <1>1, PassAlwaysMeansGranted, InitPhasesInv, StepPhasesInv, PTL DEF Spec

\* For a principal with grants of its own and a request that declares all it
\* names, either both gates object or none.
THEOREM GatesAlwaysAgree == Spec => []GatesAgree
  <1>1. PhasesInv => GatesAgree
    <2> SUFFICES ASSUME PhasesInv, policy # Absent,
                        request.principal \in DOMAIN policy.grants,
                        request.requested \subseteq Declared(request)
                 PROVE  Objections(request) \in {{}, {"zsp", "confused_deputy"}}
      BY DEF GatesAgree
    <2> DEFINE patterns == policy.grants[request.principal]
    <2>1. request.requested \subseteq Resources
      BY CasesAssumption DEF PhasesInv, request
    <2>2. Star \in patterns => \A x \in request.requested : Matched(x, patterns)
      BY <2>1, PatternsAssumption DEF Matched
    <2>3. ZSPAllows(policy.grants, request.principal, Declared(request), request.requested)
          <=> \A x \in request.requested : Matched(x, patterns)
      BY DEF ZSPAllows, Get
    <2>4. DeputyAllows(policy.grants, request.principal, request.requested)
          <=> \A x \in request.requested : Matched(x, patterns)
      BY <2>2 DEF DeputyAllows, Get
    <2> QED BY <2>3, <2>4 DEF Objections
  <1> QED BY <1>1, InitPhasesInv, StepPhasesInv, PTL DEF Spec

-----------------------------------------------------------------------------
(* The scoring.  Scores are natural numbers; what matters of a maximum is   *)
(* that it is one of its operands and below none of them.                   *)

\* A finite set of numbers has a greatest element: of the finite sets without
\* one, a smallest would lose an element and still have none.
LEMMA GreatestElement ==
  ASSUME NEW S \in SUBSET Int, IsFiniteSet(S), S # {}
  PROVE  Max(S) \in S /\ \A y \in S : Max(S) >= y
  <1> DEFINE Lacking == {U \in SUBSET S : U # {} /\ \A x \in U : \E y \in U : ~ (x >= y)}
  <1>1. Lacking = {}
    <2> SUFFICES ASSUME Lacking # {} PROVE FALSE
      OBVIOUS
    <2>1. Lacking \subseteq FiniteSubsetsOf(S)
      BY FS_FiniteSubsetsOfFinite
    <2>2. PICK U \in Lacking : \A V \in Lacking : <<V, U>> \notin StrictSubsetOrdering(S)
      BY <2>1, WFMin, FS_StrictSubsetOrderingWellFounded
    <2>3. PICK x : x \in U
      OBVIOUS
    <2> DEFINE V == U \ {x}
    <2>4. V \subseteq S /\ U \subseteq S /\ V \subseteq U /\ V # U
      BY <2>3
    <2>5. V \notin Lacking
      BY <2>2, <2>4 DEF StrictSubsetOrdering
    <2> QED BY <2>3, <2>4, <2>5
  <1>2. \E x \in S : \A y \in S : x >= y
    BY <1>1
  <1> QED BY <1>2 DEF Max

\* A non-empty set of natural numbers has a least element.
LEMMA LeastNatural ==
  ASSUME NEW X \in SUBSET Nat, X # {}
  PROVE  \E m \in X : \A k \in X : m <= k
  <1> DEFINE Upto(n) == 0 .. n
             Ts == {Upto(n) : n \in X}
  <1>1. ASSUME NEW n \in X PROVE Upto(n) \in FiniteSubsetsOf(Nat)
    <2>1. IsFiniteSet(0 .. n) /\ 0 .. n \in SUBSET Nat
      BY FS_Interval
    <2> QED BY <2>1 DEF FiniteSubsetsOf
  <1>2. Ts \subseteq FiniteSubsetsOf(Nat) /\ Ts # {}
    <2> HIDE DEF Upto
    <2> QED BY <1>1
  <1>3. PICK m \in X : \A J \in Ts : <<J, Upto(m)>> \notin StrictSubsetOrdering(Nat)
    <2> HIDE DEF Upto, Ts
    <2>1. PICK I \in Ts : \A J \in Ts : <<J, I>> \notin StrictSubsetOrdering(Nat)
      BY <1>2, WFMin, FS_StrictSubsetOrderingWellFounded
    <2> QED BY <2>1 DEF Ts
  <1>4. ASSUME NEW k \in X, k < m PROVE FALSE
    <2>1. Upto(k) \in Ts
      OBVIOUS
    <2>2. Upto(k) \subseteq Upto(m) /\ m \in Upto(m) /\ m \notin Upto(k)
          /\ Upto(m) \subseteq Nat /\ Upto(k) \subseteq Nat
      BY <1>4
    <2>3. <<Upto(k), Upto(m)>> \in StrictSubsetOrdering(Nat)
      <3> HIDE DEF Upto
      <3> QED BY <2>2 DEF StrictSubsetOrdering
    <2> QED BY <1>3, <2>1, <2>3
  <1> QED BY <1>4

\* The best score of narrow() is the score of a category, and below none.
LEMMA BestScore ==
  ASSUME NEW r, r.scores \in [Categories -> Nat]
  PROVE  /\ TopScore(r) \in Nat
         /\ \E c \in Categories : r.scores[c] = TopScore(r)
         /\ \A c \in Categories : r.scores[c] <= TopScore(r)
  <1> DEFINE S == {r.scores[c] : c \in Categories}
  <1>1. S \in SUBSET Int /\ S \subseteq Nat /\ S # {}
    BY CategoriesAssumption DEF Categories
  <1>2. r.scores \in Surjection(Categories, S)
    BY DEF Surjection
  <1>3. IsFiniteSet(S)
    BY <1>2, FS_Surjection, FS_Interval, CategoriesAssumption DEF Categories
  <1>4. Max(S) \in S /\ \A n \in S : Max(S) >= n
    <2> HIDE DEF S
    <2> QED BY <1>1, <1>3, GreatestElement
  <1>5. TopScore(r) = Max(S)
    BY DEF TopScore
  <1> QED BY <1>1, <1>4, <1>5

\* The top category is the first of the best ones.
LEMMA FirstOfTheBest ==
  ASSUME NEW r, r.scores \in [Categories -> Nat]
  PROVE  /\ TopCategory(r) \in Categories /\ r.scores[TopCategory(r)] = TopScore(r)
         /\ \A c \in Categories : r.scores[c] = TopScore(r) => TopCategory(r) <= c
  <1> DEFINE best == {c \in Categories : r.scores[c] = TopScore(r)}
  <1>1. best \in SUBSET Nat /\ best # {}
    BY BestScore DEF Categories
  <1>2. \E m \in best : \A c \in best : m <= c
    <2> HIDE DEF best
    <2> QED BY <1>1, LeastNatural
  <1>3. TopCategory(r) = CHOOSE m \in best : \A c \in best : m <= c
    BY DEF TopCategory, Min
  <1> QED BY <1>2, <1>3

\* One more match of the lexicon lowers no score, and in a denied category it keeps
\* the top category denied.
LEMMA MatchGrows ==
  ASSUME NEW r, r.scores \in [Categories -> Nat], NEW c \in Categories, NEW weight \in Nat,
         NEW q, q.scores = [r.scores EXCEPT ![c] = r.scores[c] + weight], q.deny = r.deny
  PROVE  /\ q.scores \in [Categories -> Nat] /\ TopScore(r) <= TopScore(q)
         /\ Denied(r) /\ c \in r.deny => Denied(q)
  <1>1. q.scores \in [Categories -> Nat]
    OBVIOUS
  <1>2. \A d \in Categories : /\ r.scores[d] \in Nat /\ q.scores[d] \in Nat
                              /\ r.scores[d] <= q.scores[d]
                              /\ d # c => q.scores[d] = r.scores[d]
    OBVIOUS
  <1>3. /\ TopScore(r) \in Nat /\ TopScore(q) \in Nat /\ TopScore(r) <= TopScore(q)
        /\ \A d \in Categories : r.scores[d] <= TopScore(r) /\ q.scores[d] <= TopScore(q)
    BY <1>1, <1>2, BestScore
  <1>4. ASSUME Denied(r), c \in r.deny PROVE Denied(q)
    <2> DEFINE t == TopCategory(r)
               u == TopCategory(q)
    <2>1. /\ t \in Categories /\ r.scores[t] = TopScore(r)
          /\ \A d \in Categories : r.scores[d] = TopScore(r) => t <= d
      BY FirstOfTheBest
    <2>2. /\ u \in Categories /\ q.scores[u] = TopScore(q)
          /\ \A d \in Categories : q.scores[d] = TopScore(q) => u <= d
      BY <1>1, FirstOfTheBest
    <2>3. TopScore(r) > 0 /\ t \in r.deny
      BY <1>4 DEF Denied
    <2> HIDE DEF t, u
    <2>4. u = c \/ u = t
      <3> SUFFICES ASSUME u # c PROVE u = t
        OBVIOUS
      <3>1. q.scores[u] = r.scores[u] /\ r.scores[u] = TopScore(r) /\ TopScore(q) = TopScore(r)
        BY <1>2, <1>3, <2>2
      <3>2. q.scores[t] = TopScore(q)
        BY <1>2, <1>3, <2>1, <3>1
      <3>3. u <= t /\ t <= u
        BY <2>1, <2>2, <3>1, <3>2
      <3> QED BY <2>1, <2>2, <3>3 DEF Categories
    <2> QED BY <1>3, <1>4, <2>3, <2>4 DEF Denied, u
  <1> QED BY <1>1, <1>3, <1>4

LEMMA MaxOfTwo ==
  ASSUME NEW a \in Nat, NEW b \in Nat
  PROVE  /\ Max({a, b}) \in Nat /\ Max({a, b}) >= a /\ Max({a, b}) >= b
         /\ Max({a, b}) = a \/ Max({a, b}) = b
  <1>1. \E x \in {a, b} : \A y \in {a, b} : x >= y
    OBVIOUS
  <1> QED BY <1>1 DEF Max

LEMMA MaxOfFour ==
  ASSUME NEW a \in Nat, NEW b \in Nat, NEW c \in Nat, NEW d \in Nat
  PROVE  LET m == Max({a, b, c, d}) IN
         /\ m \in Nat /\ m >= a /\ m >= b /\ m >= c /\ m >= d
         /\ m = a \/ m = b \/ m = c \/ m = d
  <1>1. \E x \in {a, b, c, d} : \A y \in {a, b, c, d} : x >= y
    OBVIOUS
  <1> QED BY <1>1 DEF Max

\* What is found in a request, with numbers that can be computed with.
Numeric(r) ==
    /\ r.scores \in [Categories -> Nat]
    /\ r.pattern \in Nat /\ r.ratchets \in Nat /\ r.priv \in Nat

LEMMA ScoutScore ==
  ASSUME NEW r, Numeric(r)
  PROVE  LET words == Signal(TopScore(r) > 0, AtMostOne(1800 + 9 * TopScore(r))) IN
         /\ Scout(r) \in Nat /\ words \in Nat
         /\ Scout(r) >= Signal(r.obfuscated, 2400) /\ Scout(r) >= words
         /\ Scout(r) >= Signal(r.code, 4200) /\ Scout(r) >= Signal(r.drift, 2700)
         /\ Scout(r) \in {Signal(r.obfuscated, 2400), words, Signal(r.code, 4200),
                          Signal(r.drift, 2700)}
  <1> DEFINE words == Signal(TopScore(r) > 0, AtMostOne(1800 + 9 * TopScore(r)))
  <1>1. TopScore(r) \in Nat
    BY BestScore DEF Numeric
  <1>2. words \in Nat
    BY <1>1 DEF Signal, AtMostOne, Unit
  <1>3. /\ Signal(r.obfuscated, 2400) \in Nat /\ Signal(r.code, 4200) \in Nat
        /\ Signal(r.drift, 2700) \in Nat
    BY DEF Signal
  <1> HIDE DEF words
  <1>4. Scout(r) = Max({Signal(r.obfuscated, 2400), words, Signal(r.code, 4200),
                        Signal(r.drift, 2700)})
    BY DEF Scout, words
  <1> QED BY <1>2, <1>3, <1>4, MaxOfFour DEF words

\* The gradient of the escalation probe grows with both kinds of evidence.
LEMMA EscalationGrows ==
  ASSUME NEW r, NEW q, Numeric(r), Numeric(q), r.ratchets <= q.ratchets, r.priv <= q.priv
  PROVE  Escalation(r) \in Nat /\ Escalation(r) <= Escalation(q)
  <1> DEFINE product(x) == x.ratchets * x.priv
  <1>1. /\ r.ratchets \in Nat /\ r.priv \in Nat /\ q.ratchets \in Nat /\ q.priv \in Nat
        /\ product(r) \in Nat /\ product(q) \in Nat
    BY DEF Numeric
  <1>2. product(r) <= product(q)
    <2>1. r.ratchets * r.priv <= r.ratchets * q.priv
      BY <1>1
    <2>2. r.ratchets * q.priv <= q.ratchets * q.priv
      BY <1>1
    <2>3. r.ratchets * q.priv \in Nat
      BY <1>1
    <2> QED BY <1>1, <2>1, <2>2, <2>3
  <1>3. /\ Escalation(r) = 700 * AtMost(r.priv, 3) + 650 * AtMost(product(r), 6)
        /\ Escalation(q) = 700 * AtMost(q.priv, 3) + 650 * AtMost(product(q), 6)
    BY DEF Escalation
  <1> HIDE DEF product
  <1> QED BY <1>1, <1>2, <1>3 DEF AtMost

LEMMA NitpickerScore ==
  ASSUME NEW r, Numeric(r)
  PROVE  LET signal == Signal(Escalating(r), Escalation(r))
             worst == Max({r.pattern, signal})
         IN
         /\ signal \in Nat /\ worst \in Nat
         /\ worst >= r.pattern /\ worst >= signal /\ worst \in {r.pattern, signal}
         /\ Nitpicker(r) = IF (r.pattern > 0 \/ Escalating(r)) /\ r.obfuscated
                             THEN AtMostOne(worst + 900) ELSE worst
         /\ Nitpicker(r) \in Nat
  <1> DEFINE signal == Signal(Escalating(r), Escalation(r))
             worst == Max({r.pattern, signal})
  <1>1. Escalation(r) \in Nat /\ r.pattern \in Nat
    <2>1. r.ratchets <= r.ratchets /\ r.priv <= r.priv
      BY DEF Numeric
    <2> QED BY <2>1, EscalationGrows DEF Numeric
  <1>2. signal \in Nat
    BY <1>1 DEF Signal
  <1>3. worst \in Nat /\ worst >= r.pattern /\ worst >= signal /\ worst \in {r.pattern, signal}
    <2> HIDE DEF signal
    <2> QED BY <1>1, <1>2, MaxOfTwo
  <1>4. Nitpicker(r) = IF (r.pattern > 0 \/ Escalating(r)) /\ r.obfuscated
                         THEN AtMostOne(worst + 900) ELSE worst
    BY DEF Nitpicker
  <1> HIDE DEF worst, signal
  <1>5. Nitpicker(r) \in Nat
    BY <1>3, <1>4 DEF AtMostOne, Unit
  <1> QED BY <1>2, <1>3, <1>4, <1>5 DEF worst, signal

LEMMA ScoreTypes ==
  ASSUME NEW r, Numeric(r)
  PROVE  Scout(r) \in Nat /\ Nitpicker(r) \in Nat /\ Combined(r) \in Nat
  <1>1. Scout(r) \in Nat
    BY ScoutScore
  <1>2. Nitpicker(r) \in Nat
    BY NitpickerScore
  <1> DEFINE worst == Max({Scout(r), Nitpicker(r)})
  <1>3. worst \in Nat
    BY <1>1, <1>2, MaxOfTwo
  <1>4. Combined(r) \in {AtMostOne(worst + 600), worst}
    BY DEF Combined
  <1> HIDE DEF worst
  <1> QED BY <1>1, <1>2, <1>3, <1>4 DEF AtMostOne, Unit

LEMMA CombinedScore ==
  ASSUME NEW r, Numeric(r)
  PROVE  LET worst == Max({Scout(r), Nitpicker(r)}) IN
         /\ worst \in Nat /\ worst >= Scout(r) /\ worst >= Nitpicker(r)
         /\ worst \in {Scout(r), Nitpicker(r)}
         /\ Combined(r) = IF Scout(r) >= 1800 /\ Nitpicker(r) >= 1800
                            THEN AtMostOne(worst + 600) ELSE worst
  <1>1. Scout(r) \in Nat /\ Nitpicker(r) \in Nat
    BY ScoreTypes
  <1> QED BY <1>1, MaxOfTwo DEF Combined, OBSERVE_THRESHOLD

\* A higher score never earns a milder hint.
LEMMA HintGrows ==
  ASSUME NEW a \in Nat, NEW b \in Nat, a <= b
  PROVE  /\ Severity[Hint(a)] \in Nat /\ Severity[Hint(b)] \in Nat
         /\ Severity[Hint(a)] <= Severity[Hint(b)]
  BY DEF Severity, Hint, BLOCK_THRESHOLD, OBSERVE_THRESHOLD

\* The two scores together are never taken for less than each of them: Judge's
\* cap lies above its threshold.
LEMMA HintOfCombined ==
  ASSUME NEW r, Numeric(r)
  PROVE  /\ Severity[Hint(Combined(r))] >= Severity[Hint(Scout(r))]
         /\ Severity[Hint(Combined(r))] >= Severity[Hint(Nitpicker(r))]
  <1> DEFINE worst == Max({Scout(r), Nitpicker(r)})
  <1>1. /\ Scout(r) \in Nat /\ Nitpicker(r) \in Nat /\ worst \in Nat
        /\ worst >= Scout(r) /\ worst >= Nitpicker(r)
        /\ Combined(r) = IF Scout(r) >= 1800 /\ Nitpicker(r) >= 1800
                           THEN AtMostOne(worst + 600) ELSE worst
        /\ Combined(r) \in Nat
    BY CombinedScore, ScoreTypes
  <1> HIDE DEF worst
  <1>2. Combined(r) >= worst \/ Combined(r) = 6000
    BY <1>1 DEF AtMostOne, Unit
  <1>3. Severity[Hint(6000)] = 3 /\ \A n \in Nat : Severity[Hint(n)] \in 1 .. 3
    BY DEF Severity, Hint, BLOCK_THRESHOLD, OBSERVE_THRESHOLD
  <1>4. CASE Combined(r) >= worst
    <2>1. Scout(r) <= Combined(r) /\ Nitpicker(r) <= Combined(r)
      BY <1>1, <1>4
    <2>2. Severity[Hint(Scout(r))] <= Severity[Hint(Combined(r))]
      BY <1>1, <2>1, HintGrows
    <2>3. Severity[Hint(Nitpicker(r))] <= Severity[Hint(Combined(r))]
      BY <1>1, <2>1, HintGrows
    <2> QED BY <1>1, <1>3, <2>2, <2>3
  <1>5. CASE Combined(r) = 6000
    BY <1>1, <1>3, <1>5
  <1> QED BY <1>2, <1>4, <1>5

\* q has everything that r has, and may have more; if r drifts, it is enough that
\* q is obfuscated.
NoBetter(r, q) ==
    /\ TopScore(r) <= TopScore(q)
    /\ Denied(r) => Denied(q)
    /\ q.principal = r.principal /\ q.declared = r.declared
    /\ q.cost = r.cost /\ q.ceiling = r.ceiling
    /\ r.requested \subseteq q.requested
    /\ r.obfuscated => q.obfuscated
    /\ r.code => q.code
    /\ r.drift => q.drift \/ q.obfuscated
    /\ r.bound => q.bound
    /\ r.pattern <= q.pattern /\ r.ratchets <= q.ratchets /\ r.priv <= q.priv

\* Obfuscation and drift are not worth the same, but no threshold lies between.
LEMMA ScoutGrows ==
  ASSUME NEW r, NEW q, Numeric(r), Numeric(q), NoBetter(r, q)
  PROVE  Scout(r) <= Scout(q) \/ (Scout(r) = 2700 /\ Scout(q) >= 2400)
  <1> DEFINE words(x) == Signal(TopScore(x) > 0, AtMostOne(1800 + 9 * TopScore(x)))
  <1>1. words(r) \in Nat /\ words(q) \in Nat
    BY ScoutScore
  <1>2. words(r) <= words(q)
    <2>1. TopScore(r) \in Nat /\ TopScore(q) \in Nat /\ TopScore(r) <= TopScore(q)
      BY BestScore DEF Numeric, NoBetter
    <2> QED BY <2>1 DEF Signal, AtMostOne, Unit
  <1>3. /\ Signal(r.obfuscated, 2400) <= Signal(q.obfuscated, 2400)
        /\ Signal(r.code, 4200) <= Signal(q.code, 4200)
        /\ \/ Signal(r.drift, 2700) <= Signal(q.drift, 2700)
           \/ Signal(r.drift, 2700) = 2700 /\ Signal(q.obfuscated, 2400) = 2400
        /\ \A x : Signal(x.obfuscated, 2400) \in Nat /\ Signal(x.code, 4200) \in Nat
                  /\ Signal(x.drift, 2700) \in Nat
    BY DEF Signal, NoBetter
  <1>4. /\ Scout(q) \in Nat
        /\ Scout(q) >= Signal(q.obfuscated, 2400) /\ Scout(q) >= words(q)
        /\ Scout(q) >= Signal(q.code, 4200) /\ Scout(q) >= Signal(q.drift, 2700)
    BY ScoutScore
  <1>5. Scout(r) \in {Signal(r.obfuscated, 2400), words(r), Signal(r.code, 4200),
                      Signal(r.drift, 2700)}
    BY ScoutScore
  <1> HIDE DEF words
  <1>6. CASE Scout(r) = Signal(r.obfuscated, 2400)
    BY <1>3, <1>4, <1>6
  <1>7. CASE Scout(r) = words(r)
    BY <1>1, <1>2, <1>4, <1>7
  <1>8. CASE Scout(r) = Signal(r.code, 4200)
    BY <1>3, <1>4, <1>8
  <1>9. CASE Scout(r) = Signal(r.drift, 2700)
    BY <1>3, <1>4, <1>9
  <1> QED BY <1>5, <1>6, <1>7, <1>8, <1>9

LEMMA NitpickerGrows ==
  ASSUME NEW r, NEW q, Numeric(r), Numeric(q), NoBetter(r, q)
  PROVE  Nitpicker(r) <= Nitpicker(q) \/ Nitpicker(q) = 6000
  <1> DEFINE signal(x) == Signal(Escalating(x), Escalation(x))
             worst(x) == Max({x.pattern, signal(x)})
             seen(x) == x.pattern > 0 \/ Escalating(x)
  <1>1. Escalation(r) \in Nat /\ Escalation(q) \in Nat /\ Escalation(r) <= Escalation(q)
    <2>1. r.ratchets <= q.ratchets /\ r.priv <= q.priv
          /\ q.ratchets <= q.ratchets /\ q.priv <= q.priv
      BY DEF NoBetter, Numeric
    <2> QED BY <2>1, EscalationGrows
  <1>2. (Escalating(r) => Escalating(q)) /\ signal(r) <= signal(q)
    BY <1>1 DEF Escalating, Signal
  <1>3. /\ r.pattern \in Nat /\ q.pattern \in Nat /\ r.pattern <= q.pattern
        /\ r.obfuscated => q.obfuscated
    BY DEF NoBetter, Numeric
  <1>4. seen(r) => seen(q)
    BY <1>2, <1>3
  <1>5. /\ signal(r) \in Nat /\ worst(r) \in Nat /\ worst(r) \in {r.pattern, signal(r)}
        /\ Nitpicker(r) = IF seen(r) /\ r.obfuscated THEN AtMostOne(worst(r) + 900)
                                                     ELSE worst(r)
    BY NitpickerScore
  <1>6. /\ signal(q) \in Nat /\ worst(q) \in Nat
        /\ worst(q) >= q.pattern /\ worst(q) >= signal(q)
        /\ Nitpicker(q) = IF seen(q) /\ q.obfuscated THEN AtMostOne(worst(q) + 900)
                                                     ELSE worst(q)
    BY NitpickerScore
  <1> HIDE DEF signal, worst, seen
  <1>7. worst(r) <= worst(q)
    BY <1>2, <1>3, <1>5, <1>6
  <1> QED BY <1>3, <1>4, <1>5, <1>6, <1>7 DEF AtMostOne, Unit

LEMMA CombinedGrows ==
  ASSUME NEW r, NEW q, Numeric(r), Numeric(q), NoBetter(r, q)
  PROVE  Severity[Hint(Combined(r))] <= Severity[Hint(Combined(q))]
  <1> DEFINE worst(x) == Max({Scout(x), Nitpicker(x)})
             Both(x) == Scout(x) >= 1800 /\ Nitpicker(x) >= 1800
             Score(x) ==
               /\ Scout(x) \in Nat /\ Nitpicker(x) \in Nat /\ worst(x) \in Nat
               /\ worst(x) >= Scout(x) /\ worst(x) >= Nitpicker(x)
               /\ worst(x) \in {Scout(x), Nitpicker(x)}
               /\ Combined(x) = IF Both(x) THEN AtMostOne(worst(x) + 600) ELSE worst(x)
               /\ Combined(x) \in Nat
  <1>1. Score(r)
    BY CombinedScore, ScoreTypes
  <1>2. Score(q)
    BY CombinedScore, ScoreTypes
  <1>3. /\ Scout(r) <= Scout(q) \/ (Scout(r) = 2700 /\ Scout(q) >= 2400)
        /\ Nitpicker(r) <= Nitpicker(q) \/ Nitpicker(q) = 6000
    BY ScoutGrows, NitpickerGrows
  <1>4. /\ \A n \in Nat : n >= 6000 => Severity[Hint(n)] = 3
        /\ \A n \in Nat : n >= 2400 => Severity[Hint(n)] >= 2
        /\ \A n \in Nat : n < 4200 => Severity[Hint(n)] <= 2
        /\ \A n \in Nat : Severity[Hint(n)] \in 1 .. 3
    BY DEF Severity, Hint, BLOCK_THRESHOLD, OBSERVE_THRESHOLD
  <1>5. \/ Combined(q) >= 6000
        \/ Combined(r) <= Combined(q)
        \/ Combined(r) < 4200 /\ Combined(q) >= 2400
    <2> HIDE DEF worst
    <2>1. CASE Nitpicker(q) = 6000
      BY <1>2, <2>1 DEF AtMostOne, Unit
    <2>2. CASE Nitpicker(r) <= Nitpicker(q) /\ Scout(r) <= Scout(q)
      <3>1. worst(r) <= worst(q) /\ (Both(r) => Both(q))
        BY <1>1, <1>2, <2>2
      <3> HIDE DEF Both
      <3> QED BY <1>1, <1>2, <3>1 DEF AtMostOne, Unit
    <2>3. CASE Nitpicker(r) <= Nitpicker(q) /\ Scout(r) = 2700 /\ Scout(q) >= 2400
      <3>1. CASE Nitpicker(r) <= 2700
        <4>1. worst(r) = 2700
          BY <1>1, <2>3, <3>1
        <4>2. Combined(r) < 4200
          BY <1>1, <4>1 DEF AtMostOne, Unit
        <4>3. Combined(q) >= 2400
          BY <1>2, <2>3 DEF AtMostOne, Unit
        <4> QED BY <4>2, <4>3
      <3>2. CASE ~ (Nitpicker(r) <= 2700)
        <4>1. worst(r) = Nitpicker(r) /\ Both(q) /\ worst(r) <= worst(q)
          BY <1>1, <1>2, <2>3, <3>2
        <4> HIDE DEF Both
        <4> QED BY <1>1, <1>2, <4>1 DEF AtMostOne, Unit
      <3> QED BY <3>1, <3>2
    <2> QED BY <1>3, <2>1, <2>2, <2>3
  <1>6. CASE Combined(q) >= 6000
    BY <1>1, <1>2, <1>4, <1>6
  <1>7. CASE Combined(r) <= Combined(q)
    BY <1>1, <1>2, <1>7, HintGrows
  <1>8. CASE Combined(r) < 4200 /\ Combined(q) >= 2400
    BY <1>1, <1>2, <1>4, <1>8
  <1> QED BY <1>5, <1>6, <1>7, <1>8

\* Neither does a gate that objected fall silent when more is asked for.
LEMMA RulingGrows ==
  ASSUME NEW r, NEW q, Numeric(r), Numeric(q), NoBetter(r, q)
  PROVE  Severity[Ruling(r, Objections(r))] <= Severity[Ruling(q, Objections(q))]
  <1>1. \A n \in Nat : Severity[Hint(n)] \in 1 .. 3
    BY DEF Severity, Hint, BLOCK_THRESHOLD, OBSERVE_THRESHOLD
  <1>2. Combined(r) \in Nat
    BY ScoreTypes
  <1>3. Severity["BLOCK"] = 3
    BY DEF Severity
  <1>4. Severity[Ruling(r, Objections(r))] \in 1 .. 3
    BY <1>1, <1>2, <1>3 DEF Ruling, Judge
  <1>5. CASE Ruling(q, Objections(q)) = "BLOCK"
    BY <1>3, <1>4, <1>5
  <1>6. CASE Ruling(q, Objections(q)) # "BLOCK"
    <2>1. Objections(q) = {} /\ ~ Halted(q) /\ ~ Denied(q)
      BY <1>6 DEF Ruling, Judge
    <2>2. Objections(r) = {}
      <3> SUFFICES ASSUME NEW gate \in Objections(r) PROVE FALSE
        OBVIOUS
      <3>1. r.requested # {} /\ q.requested # {}
        BY DEF Objections, NoBetter
      <3>2. /\ ZSPAllows(policy.grants, q.principal, Declared(q), q.requested)
            /\ DeputyAllows(policy.grants, q.principal, q.requested)
        BY <2>1, <3>1 DEF Objections
      <3>3. \A x \in r.requested : x \in Declared(q) => x \in Declared(r)
        BY DEF Declared, NoBetter
      <3>4. ZSPAllows(policy.grants, r.principal, Declared(r), r.requested)
        BY <3>2, <3>3 DEF ZSPAllows, NoBetter
      <3>5. DeputyAllows(policy.grants, r.principal, r.requested)
        BY <3>2 DEF DeputyAllows, NoBetter
      <3> QED BY <3>4, <3>5 DEF Objections
    <2>3. ~ Halted(r)
      BY <2>1 DEF Halted, NoBetter
    <2>4. ~ Denied(r)
      BY <2>1 DEF NoBetter
    <2>5. /\ Ruling(r, Objections(r)) = Hint(Combined(r))
          /\ Ruling(q, Objections(q)) = Hint(Combined(q))
      BY <2>1, <2>2, <2>3, <2>4 DEF Ruling, Judge
    <2> QED BY <2>5, CombinedGrows
  <1> QED BY <1>5, <1>6

-----------------------------------------------------------------------------
(* The verdict and what it was made of.                                     *)

EvaluatedInv ==
    Evaluated =>
        /\ found = Findings(request, Reading(request.text))
        /\ verdict = Ruling(found, objections)

LEMMA StepEvaluatedInv == PhasesInv /\ EvaluatedInv /\ [Next]_vars => EvaluatedInv'
  <1> SUFFICES ASSUME PhasesInv, EvaluatedInv, [Next]_vars PROVE EvaluatedInv'
    OBVIOUS
  <1> USE DEF EvaluatedInv, Evaluated
  <1>1. CASE BuildPipeline
    BY <1>1 DEF BuildPipeline, PhasesInv
  <1>2. CASE BuildFails
    BY <1>2 DEF BuildFails, request, Findings
  <1>3. CASE Authorize
    BY <1>3 DEF Authorize, PhasesInv
  <1>4. CASE Evaluate
    BY <1>4 DEF Evaluate, request, Findings, Ruling
  <1>5. CASE Exit
    BY <1>5 DEF Exit, request, Findings
  <1>6. CASE UNCHANGED vars
    BY <1>6 DEF vars, request, Findings
  <1> QED BY <1>1, <1>2, <1>3, <1>4, <1>5, <1>6 DEF Next

LEMMA EvaluatedInvariant == Spec => [](PhasesInv /\ EvaluatedInv)
  <1>1. Init => EvaluatedInv
    BY DEF Init, EvaluatedInv, Evaluated
  <1> QED BY <1>1, InitPhasesInv, StepPhasesInv, StepEvaluatedInv, PTL DEF Spec

LEMMA FindingsAreNumeric ==
  ASSUME PhasesInv, NEW reading
  PROVE  Numeric(Findings(request, reading))
  <1>1. request.says \in Words
    BY CasesAssumption DEF PhasesInv, request
  <1>2. Nothing \in Words
    BY DEF Nothing, Words
  <1> DEFINE words == IF reading.heard THEN request.says ELSE Nothing
             r == Findings(request, reading)
  <1>3. words \in Words
    BY <1>1, <1>2
  <1>4. /\ r.scores = words.scores /\ r.pattern = words.pattern
        /\ r.ratchets = words.ratchets /\ r.priv = words.priv
    BY DEF Findings
  <1> HIDE DEF words, r
  <1>5. Numeric(r)
    BY <1>3, <1>4 DEF Numeric, Words
  <1> QED BY <1>5 DEF r

LEMMA FoundIsNumeric == PhasesInv /\ EvaluatedInv /\ Evaluated => Numeric(found)
  BY FindingsAreNumeric DEF EvaluatedInv

\* The verdict is never milder than what Scout or Nitpicker would have said, for
\* any lexicon, pattern bank and text: the thresholds and caps of the three files
\* fit together.
THEOREM HintsAreAlwaysHeeded == Spec => []HintsAreHeeded
  <1>1. PhasesInv /\ EvaluatedInv => HintsAreHeeded
    <2> SUFFICES ASSUME PhasesInv, EvaluatedInv, Evaluated
                 PROVE  /\ Severity[verdict] >= Severity[Hint(Scout(found))]
                        /\ Severity[verdict] >= Severity[Hint(Nitpicker(found))]
      BY DEF HintsAreHeeded
    <2>1. Numeric(found)
      BY FoundIsNumeric
    <2>2. verdict = "BLOCK" \/ verdict = Hint(Combined(found))
      BY DEF EvaluatedInv, Ruling, Judge
    <2>3. \A n \in Nat : Severity[Hint(n)] \in 1 .. 3 /\ Severity["BLOCK"] = 3
      BY DEF Severity, Hint, BLOCK_THRESHOLD, OBSERVE_THRESHOLD
    <2>4. Scout(found) \in Nat /\ Nitpicker(found) \in Nat
      BY <2>1, ScoreTypes
    <2> QED BY <2>1, <2>2, <2>3, <2>4, HintOfCombined
  <1> QED BY <1>1, EvaluatedInvariant, PTL

\* A block that neither a rule nor one of the agents alone asked for has both
\* agents behind it, the nearer of them within the corroboration bonus.
THEOREM BlocksAreAlwaysCorroborated == Spec => []BlocksAreCorroborated
  <1>1. PhasesInv /\ EvaluatedInv => BlocksAreCorroborated
    <2> SUFFICES ASSUME PhasesInv, EvaluatedInv, verdict = "BLOCK", objections = {},
                        ~ Halted(found), ~ Denied(found),
                        Hint(Scout(found)) # "BLOCK", Hint(Nitpicker(found)) # "BLOCK"
                 PROVE  /\ Hint(Scout(found)) = "OBSERVE" /\ Hint(Nitpicker(found)) = "OBSERVE"
                        /\ Max({Scout(found), Nitpicker(found)}) >= 3600
      BY DEF BlocksAreCorroborated
    <2> DEFINE s == Scout(found)
               n == Nitpicker(found)
               worst == Max({s, n})
    <2>1. Evaluated /\ Numeric(found)
      BY FoundIsNumeric DEF Evaluated
    <2>2. Hint(Combined(found)) = "BLOCK"
      BY <2>1 DEF EvaluatedInv, Ruling, Judge
    <2>3. /\ s \in Nat /\ n \in Nat /\ worst \in Nat /\ worst \in {s, n}
          /\ Combined(found) = IF s >= 1800 /\ n >= 1800 THEN AtMostOne(worst + 600) ELSE worst
      BY <2>1, CombinedScore, ScoreTypes
    <2> HIDE DEF s, n, worst
    <2>4. s < 4200 /\ n < 4200
      BY <2>3 DEF Hint, BLOCK_THRESHOLD, s, n
    <2>5. Combined(found) >= 4200
      BY <2>2 DEF Hint, BLOCK_THRESHOLD
    <2>6. s >= 1800 /\ n >= 1800 /\ worst >= 3600
      BY <2>3, <2>4, <2>5 DEF AtMostOne, Unit
    <2> QED BY <2>3, <2>4, <2>6 DEF Hint, BLOCK_THRESHOLD, OBSERVE_THRESHOLD, s, n, worst
  <1> QED BY <1>1, EvaluatedInvariant, PTL

\* However many connectors, or however many privilege words, a text has, without
\* the other kind it does not escalate.
THEOREM IsolatedSignalAlwaysStaysUnder == Spec => []IsolatedSignalStaysUnder
  <1>1. PhasesInv /\ EvaluatedInv => IsolatedSignalStaysUnder
    <2> SUFFICES ASSUME PhasesInv, EvaluatedInv, Evaluated,
                        found.ratchets = 0 \/ found.priv = 0
                 PROVE  ~ Escalating(found)
      BY DEF IsolatedSignalStaysUnder
    <2>1. found.ratchets \in Nat /\ found.priv \in Nat
      BY FoundIsNumeric DEF Numeric
    <2>2. found.ratchets * found.priv = 0
      BY <2>1
    <2>3. Escalation(found) <= 2100
      BY <2>1, <2>2 DEF Escalation, AtMost
    <2>4. Escalation(found) \in Nat
      BY <2>1, <2>2 DEF Escalation, AtMost
    <2> QED BY <2>3, <2>4 DEF Escalating
  <1> QED BY <1>1, EvaluatedInvariant, PTL

\* What was found, field by field.
Shaped(r) ==
    r = [principal |-> r.principal, requested |-> r.requested, declared |-> r.declared,
         cost |-> r.cost, ceiling |-> r.ceiling, deny |-> r.deny,
         obfuscated |-> r.obfuscated, drift |-> r.drift, code |-> r.code,
         scores |-> r.scores, pattern |-> r.pattern, bound |-> r.bound,
         ratchets |-> r.ratchets, priv |-> r.priv]

\* The same but for its scores and its deny-list.
SameButScores(r, q) ==
    /\ q.principal = r.principal /\ q.requested = r.requested /\ q.declared = r.declared
    /\ q.cost = r.cost /\ q.ceiling = r.ceiling
    /\ q.obfuscated = r.obfuscated /\ q.drift = r.drift /\ q.code = r.code
    /\ q.bound = r.bound /\ q.pattern = r.pattern
    /\ q.ratchets = r.ratchets /\ q.priv = r.priv

LEMMA OneMoreMatchAdds ==
  ASSUME NEW r, Shaped(r), Numeric(r), NEW categories \in SUBSET Categories,
         NEW q \in OneMoreMatch(r, categories)
  PROVE  /\ SameButScores(r, q) /\ Numeric(q) /\ TopScore(r) <= TopScore(q)
         /\ categories \subseteq r.deny /\ Denied(r) => Denied(q)
  <1>1. PICK c \in categories, weight \in Weights :
          q = [r EXCEPT !.scores = [r.scores EXCEPT ![c] = r.scores[c] + weight]]
    BY DEF OneMoreMatch
  <1>2. /\ q.scores = [r.scores EXCEPT ![c] = r.scores[c] + weight] /\ q.deny = r.deny
        /\ SameButScores(r, q)
    BY <1>1 DEF Shaped, SameButScores
  <1>3. weight \in Nat /\ c \in Categories /\ r.scores \in [Categories -> Nat]
    BY DEF Weights, Numeric
  <1>4. /\ q.scores \in [Categories -> Nat] /\ TopScore(r) <= TopScore(q)
        /\ Denied(r) /\ c \in r.deny => Denied(q)
    BY <1>2, <1>3, MatchGrows
  <1> QED BY <1>2, <1>4 DEF Numeric, SameButScores

\* Every other finding, and a resource more.
LEMMA OneMoreFindingAdds ==
  ASSUME NEW r, Shaped(r), Numeric(r), NEW q \in Worse(r),
         q \notin OneMoreMatch(r, Categories \ Displacers(r))
  PROVE  Numeric(q) /\ NoBetter(r, q)
  <1> DEFINE pattern == Max({r.pattern, 5100})
  <1>1. /\ r.pattern \in Nat /\ r.ratchets \in Nat /\ r.priv \in Nat
        /\ pattern \in Nat /\ pattern >= r.pattern
    BY MaxOfTwo DEF Numeric
  <1> HIDE DEF pattern
  <1>2. \/ q = [r EXCEPT !.obfuscated = TRUE] \/ q = [r EXCEPT !.code = TRUE]
        \/ q = [r EXCEPT !.drift = TRUE] \/ q = [r EXCEPT !.bound = TRUE]
        \/ q = [r EXCEPT !.ratchets = r.ratchets + 1]
        \/ q = [r EXCEPT !.priv = r.priv + 1]
        \/ q = [r EXCEPT !.pattern = pattern]
        \/ \E x \in Resources : q = [r EXCEPT !.requested = r.requested \cup {x}]
    BY DEF Worse, pattern
  <1>3. /\ q.scores = r.scores /\ q.deny = r.deny
        /\ q.principal = r.principal /\ q.declared = r.declared
        /\ q.cost = r.cost /\ q.ceiling = r.ceiling
        /\ q.pattern \in {r.pattern, pattern}
        /\ q.ratchets \in {r.ratchets, r.ratchets + 1}
        /\ q.priv \in {r.priv, r.priv + 1}
    BY <1>2 DEF Shaped
  <1>4. /\ r.requested \subseteq q.requested
        /\ r.obfuscated => q.obfuscated
        /\ r.code => q.code
        /\ r.drift => q.drift
        /\ r.bound => q.bound
    BY <1>2 DEF Shaped
  <1>5. TopScore(q) = TopScore(r) /\ TopCategory(q) = TopCategory(r)
    BY <1>3 DEF TopScore, TopCategory
  <1>6. TopScore(r) <= TopScore(q) /\ (Denied(r) => Denied(q))
    <2>1. TopScore(r) \in Nat
      BY BestScore DEF Numeric
    <2> QED BY <1>3, <1>5, <2>1 DEF Denied
  <1> QED BY <1>1, <1>3, <1>4, <1>6 DEF NoBetter, Numeric

\* One more finding, one more match or one more resource asked for never makes the
\* verdict milder, for any scores, deny-list, ceiling and grants, unless the match
\* takes the place of a denied category; then all that is lost is the deny-list's word.
THEOREM EvidenceCanNeverHelp == Spec => []EvidenceNeverHelps
  <1>1. PhasesInv /\ EvaluatedInv => EvidenceNeverHelps
    <2> SUFFICES ASSUME PhasesInv, EvaluatedInv, Evaluated
                 PROVE  /\ \A r \in Worse(found) :
                             Severity[Ruling(r, Objections(r))] >= Severity[verdict]
                        /\ \A r \in Displacing(found) :
                             Severity[Ruling(r, Objections(r))]
                               >= Severity[Ruling([found EXCEPT !.deny = {}], objections)]
      BY DEF EvidenceNeverHelps
    <2>1. Numeric(found) /\ Shaped(found)
      BY FoundIsNumeric DEF EvaluatedInv, Findings, Shaped
    <2>2. objections = Objections(found)
      <3>1. objections = Objections(request)
        BY DEF PhasesInv, Evaluated
      <3>2. /\ found.requested = request.requested /\ found.principal = request.principal
            /\ found.declared = request.declared
        BY DEF EvaluatedInv, Findings
      <3> QED BY <3>1, <3>2 DEF Objections, Declared
    <2>3. \A x, against : Severity[Ruling(x, against)] \in 1 .. 3
      BY RulingIsVerdict DEF Severity
    <2>4. ASSUME NEW r \in Worse(found)
          PROVE  Severity[Ruling(r, Objections(r))] >= Severity[verdict]
      <3>1. Numeric(r) /\ NoBetter(found, r)
        <4>1. CASE r \in OneMoreMatch(found, Categories \ Displacers(found))
          <5> DEFINE categories == Categories \ Displacers(found)
          <5>1. categories \in SUBSET Categories
                /\ (Denied(found) => categories \subseteq found.deny)
            BY DEF Displacers
          <5> HIDE DEF categories
          <5>2. /\ SameButScores(found, r) /\ Numeric(r) /\ TopScore(found) <= TopScore(r)
                /\ categories \subseteq found.deny /\ Denied(found) => Denied(r)
            BY <2>1, <4>1, <5>1, OneMoreMatchAdds DEF categories
          <5> QED BY <2>1, <5>1, <5>2 DEF NoBetter, SameButScores, Numeric
        <4>2. CASE r \notin OneMoreMatch(found, Categories \ Displacers(found))
          BY <2>1, <4>2, OneMoreFindingAdds
        <4> QED BY <4>1, <4>2
      <3>2. Severity[Ruling(found, Objections(found))] <= Severity[Ruling(r, Objections(r))]
        BY <2>1, <3>1, RulingGrows
      <3> QED BY <2>2, <2>3, <3>2 DEF EvaluatedInv
    <2>5. ASSUME NEW r \in Displacing(found)
          PROVE  Severity[Ruling(r, Objections(r))]
                   >= Severity[Ruling([found EXCEPT !.deny = {}], objections)]
      <3> DEFINE before == [found EXCEPT !.deny = {}]
      <3>1. /\ SameButScores(found, before)
            /\ before.scores = found.scores /\ before.deny = {}
        BY <2>1 DEF Shaped, SameButScores
      <3>2. Displacers(found) \in SUBSET Categories
        BY DEF Displacers
      <3>3. SameButScores(found, r) /\ Numeric(r) /\ TopScore(found) <= TopScore(r)
        BY <2>1, <3>2, OneMoreMatchAdds DEF Displacing
      <3> HIDE DEF before
      <3>4. TopScore(before) = TopScore(found) /\ ~ Denied(before)
        BY <3>1 DEF TopScore, Denied
      <3>5. Numeric(before) /\ NoBetter(before, r)
        BY <2>1, <3>1, <3>3, <3>4 DEF NoBetter, SameButScores, Numeric
      <3>6. Objections(before) = objections
        BY <2>2, <3>1 DEF Objections, Declared, SameButScores
      <3>7. Severity[Ruling(before, Objections(before))] <= Severity[Ruling(r, Objections(r))]
        BY <3>3, <3>5, RulingGrows
      <3> QED BY <2>3, <3>6, <3>7 DEF before
    <2> QED BY <2>4, <2>5
  <1> QED BY <1>1, EvaluatedInvariant, PTL

-----------------------------------------------------------------------------
(* Concatenations.  What FlattenSeq makes of a sequence of pieces follows   *)
(* from what one more piece adds.                                           *)

\* Induction, for a property given as the set of numbers that have it.
LEMMA InductionOverNat ==
  ASSUME NEW X, 0 \in X, \A n \in Nat : n \in X => n + 1 \in X
  PROVE  Nat \subseteq X
  <1> DEFINE Others == Nat \ X
  <1> SUFFICES ASSUME Others # {} PROVE FALSE
    OBVIOUS
  <1>1. PICK m \in Others : \A k \in Others : m <= k
    <2>1. Others \in SUBSET Nat
      OBVIOUS
    <2> HIDE DEF Others
    <2> QED BY <2>1, LeastNatural
  <1>2. m \in Nat /\ m # 0
    OBVIOUS
  <1>3. m - 1 \in Nat /\ m - 1 \notin Others
    BY <1>1, <1>2
  <1> QED BY <1>2, <1>3

\* f[n] is the concatenation of the first n pieces.
IsPrefixConcat(f, pieces) ==
    /\ f[1] = pieces[1]
    /\ \A n \in 2 .. Len(pieces) : f[n] = f[n - 1] \o pieces[n]

\* A concatenation is built up piece by piece.
LEMMA FlattenBuildsUp ==
  ASSUME NEW pieces, Len(pieces) \in Nat \ {0}
  PROVE  \E f : IsPrefixConcat(f, pieces) /\ FlattenSeq(pieces) = f[Len(pieces)]
  <1> DEFINE L == Len(pieces)
             Longer(x, m) == x \o pieces[m]
             first == pieces[1]
             Upto(f, n) == /\ f = [m \in 1 .. n |-> f[m]]
                           /\ f[1] = first
                           /\ \A m \in 2 .. n : f[m] = Longer(f[m - 1], m)
             Grow(f) == [n \in 1 .. L |-> IF n = 1 THEN first ELSE Longer(f[n - 1], n)]
             X == {n \in Nat : n < L => \E f : Upto(f, n + 1)}
  <1>0. L \in Nat /\ 1 <= L /\ Len(pieces) # 0
    OBVIOUS
  <1> HIDE DEF L, Longer, first
  <1>1. 0 \in X
    <2>1. Upto([m \in 1 .. 1 |-> first], 0 + 1)
      OBVIOUS
    <2> HIDE DEF Upto
    <2> QED BY <2>1
  <1>2. ASSUME NEW n \in Nat, n \in X PROVE n + 1 \in X
    <2> SUFFICES ASSUME n + 1 < L PROVE \E f : Upto(f, n + 2)
      <3> HIDE DEF Upto
      <3>1. (n + 1) + 1 = n + 2
        OBVIOUS
      <3> QED BY <3>1
    <2>1. PICK f : Upto(f, n + 1)
      <3> HIDE DEF Upto
      <3>1. n < L
        BY <1>0
      <3> QED BY <1>2, <3>1
    <2> DEFINE g == [m \in 1 .. n + 2 |->
                       IF m = n + 2 THEN Longer(f[n + 1], n + 2) ELSE f[m]]
    <2>2. g[1] = first
      BY <2>1
    <2>3. ASSUME NEW m \in 2 .. n + 2 PROVE g[m] = Longer(g[m - 1], m)
      <3>1. CASE m = n + 2
        <4>1. m - 1 = n + 1 /\ n + 1 \in 1 .. n + 2 /\ n + 1 # n + 2 /\ n + 2 \in 1 .. n + 2
          BY <3>1
        <4> QED BY <3>1, <4>1
      <3>2. CASE m # n + 2
        <4>1. m \in 2 .. n + 1 /\ m - 1 \in 1 .. n + 2 /\ m - 1 # n + 2 /\ m \in 1 .. n + 2
          BY <3>2
        <4>2. g[m] = f[m] /\ g[m - 1] = f[m - 1]
          BY <3>2, <4>1
        <4> HIDE DEF g
        <4> QED BY <4>1, <4>2, <2>1
      <3> QED BY <3>1, <3>2
    <2>4. Upto(g, n + 2)
      BY <2>2, <2>3
    <2> HIDE DEF Upto
    <2> QED BY <2>4
  <1>3. \E f : Upto(f, L)
    <2> HIDE DEF X, Upto
    <2>1. Nat \subseteq X
      BY <1>1, <1>2, InductionOverNat
    <2>2. L - 1 \in Nat /\ L - 1 < L /\ (L - 1) + 1 = L
      BY <1>0
    <2> QED BY <2>1, <2>2 DEF X
  <1>4. PICK f : Upto(f, L)
    BY <1>3
  <1>5. f = Grow(f)
    <2>1. ASSUME NEW n \in 1 .. L PROVE f[n] = Grow(f)[n]
      <3>1. n = 1 \/ n \in 2 .. L
        BY <1>0
      <3> QED BY <1>4, <3>1
    <2>2. f = [n \in 1 .. L |-> f[n]]
      BY <1>4
    <2> QED BY <2>1, <2>2
  <1> DEFINE g == CHOOSE h : h = Grow(h)
  <1>6. g = Grow(g)
    <2> HIDE DEF Grow
    <2> QED BY <1>5
  <1> HIDE DEF g
  <1>7. g[1] = first /\ \A n \in 2 .. L : g[n] = Longer(g[n - 1], n)
    <2>1. 1 \in 1 .. L /\ \A n \in 2 .. L : n \in 1 .. L /\ n # 1
      BY <1>0
    <2> QED BY <1>6, <2>1
  <1>8. FlattenSeq(pieces) = g[L]
    BY <1>0 DEF FlattenSeq, g, L, Longer, first
  <1> QED BY <1>7, <1>8 DEF IsPrefixConcat, L, Longer, first

LEMMA FlattenNothing == FlattenSeq(<<>>) = <<>>
  BY DEF FlattenSeq

\* One more piece goes to the end.
LEMMA FlattenAppend ==
  ASSUME NEW S, NEW pieces \in Seq(Seq(S)), NEW piece \in Seq(S)
  PROVE  FlattenSeq(Append(pieces, piece)) = FlattenSeq(pieces) \o piece
  <1> DEFINE L == Len(pieces)
             more == Append(pieces, piece)
  <1>1. /\ L \in Nat /\ Len(more) = L + 1 /\ more[L + 1] = piece
        /\ \A n \in 1 .. L : more[n] = pieces[n]
    BY AppendProperties
  <1>2. PICK g : IsPrefixConcat(g, more) /\ FlattenSeq(more) = g[L + 1]
    <2> HIDE DEF more, L
    <2>1. Len(more) \in Nat \ {0}
      BY <1>1
    <2> QED BY <1>1, <2>1, FlattenBuildsUp
  <1>3. CASE pieces = <<>>
    <2>1. L = 0
      BY <1>3
    <2>2. FlattenSeq(more) = piece
      BY <1>1, <1>2, <2>1 DEF IsPrefixConcat
    <2>3. <<>> \o piece = piece
      OBVIOUS
    <2> QED BY <1>3, <2>2, <2>3, FlattenNothing
  <1>4. CASE pieces # <<>>
    <2>1. L \in Nat \ {0}
      BY <1>4
    <2>2. PICK f : IsPrefixConcat(f, pieces) /\ FlattenSeq(pieces) = f[L]
      BY <2>1, FlattenBuildsUp
    <2> HIDE DEF more, L
    <2> DEFINE X == {n \in Nat : n < L => g[n + 1] = f[n + 1]}
    <2>3. 0 \in X
      BY <1>1, <1>2, <2>1, <2>2 DEF IsPrefixConcat
    <2>4. ASSUME NEW n \in Nat, n \in X PROVE n + 1 \in X
      <3> SUFFICES ASSUME n + 1 < L PROVE g[n + 2] = f[n + 2]
        OBVIOUS
      <3>1. /\ n + 2 \in 2 .. L /\ n + 2 \in 2 .. Len(more) /\ (n + 2) - 1 = n + 1
            /\ n + 2 \in 1 .. L
        BY <1>1
      <3>2. g[n + 1] = f[n + 1]
        BY <2>4, <1>1
      <3>3. g[n + 2] = g[n + 1] \o more[n + 2]
        BY <1>2, <3>1 DEF IsPrefixConcat
      <3>4. f[n + 2] = f[n + 1] \o pieces[n + 2]
        BY <2>2, <3>1 DEF IsPrefixConcat, L
      <3> QED BY <1>1, <3>1, <3>2, <3>3, <3>4
    <2>5. g[L] = f[L]
      <3> HIDE DEF X
      <3>1. Nat \subseteq X
        BY <2>3, <2>4, InductionOverNat
      <3>2. L - 1 \in Nat /\ L - 1 < L /\ (L - 1) + 1 = L
        BY <2>1
      <3> QED BY <3>1, <3>2 DEF X
    <2>6. g[L + 1] = g[L] \o more[L + 1]
      <3>1. L + 1 \in 2 .. Len(more) /\ (L + 1) - 1 = L
        BY <1>1, <2>1
      <3> QED BY <1>2, <3>1 DEF IsPrefixConcat
    <2> QED BY <1>1, <1>2, <2>2, <2>5, <2>6 DEF more
  <1> QED BY <1>3, <1>4

\* A concatenation is made of what its pieces are made of.
LEMMA FlattenType ==
  ASSUME NEW S, NEW pieces \in Seq(Seq(S))
  PROVE  FlattenSeq(pieces) \in Seq(S)
  <1> DEFINE X == {n \in Nat : \A b \in Seq(Seq(S)) : Len(b) = n => FlattenSeq(b) \in Seq(S)}
  <1>1. 0 \in X
    <2>1. \A b \in Seq(Seq(S)) : Len(b) = 0 => b = <<>>
      OBVIOUS
    <2>2. <<>> \in Seq(S)
      OBVIOUS
    <2> QED BY <2>1, <2>2, FlattenNothing
  <1>2. ASSUME NEW n \in Nat, n \in X PROVE n + 1 \in X
    <2> SUFFICES ASSUME NEW b \in Seq(Seq(S)), Len(b) = n + 1 PROVE FlattenSeq(b) \in Seq(S)
      OBVIOUS
    <2>1. PICK a \in Seq(Seq(S)), piece \in Seq(S) : b = Append(a, piece)
      <3>1. b # <<>>
        OBVIOUS
      <3> QED BY <3>1, SequenceEmptyOrAppend
    <2>2. Len(a) = n
      BY <2>1
    <2>3. FlattenSeq(a) \in Seq(S)
      BY <1>2, <2>2
    <2>4. FlattenSeq(b) = FlattenSeq(a) \o piece
      BY <2>1, FlattenAppend
    <2> QED BY <2>3, <2>4
  <1> HIDE DEF X
  <1>3. Len(pieces) \in X
    <2>1. Len(pieces) \in Nat
      OBVIOUS
    <2> QED BY <1>1, <1>2, <2>1, InductionOverNat
  <1> QED BY <1>3 DEF X

LEMMA Associative == \A S : \A x, y, z \in Seq(S) : (x \o y) \o z = x \o (y \o z)
  BY ConcatAssociative

LEMMA AssociativeFrom ==
  ASSUME NEW S, NEW x \in Seq(S)
  PROVE  \A y, z \in Seq(S) : (x \o y) \o z = x \o (y \o z)
  BY Associative

LEMMA LastOne ==
  ASSUME NEW S, NEW t \in Seq(S), t # <<>>
  PROVE  \E a \in Seq(S), c \in S : t = Append(a, c)
  BY SequenceEmptyOrAppend

LEMMA ConcatAppend ==
  ASSUME NEW S, NEW s \in Seq(S), NEW t \in Seq(S), NEW e \in S
  PROVE  s \o Append(t, e) = Append(s \o t, e) /\ s \o t \in Seq(S)
  <1> DEFINE u == Append(t, e)
             v == s \o t
             x == s \o u
             y == Append(v, e)
  <1>1. /\ u \in Seq(S) /\ Len(u) = Len(t) + 1 /\ u[Len(t) + 1] = e
        /\ \A i \in 1 .. Len(t) : u[i] = t[i]
    BY AppendProperties
  <1>2. /\ v \in Seq(S) /\ Len(v) = Len(s) + Len(t)
        /\ \A i \in 1 .. Len(s) + Len(t) : v[i] = IF i <= Len(s) THEN s[i] ELSE t[i - Len(s)]
    BY ConcatProperties
  <1> HIDE DEF u, v
  <1>3. /\ x \in Seq(S) /\ Len(x) = Len(s) + Len(u)
        /\ \A i \in 1 .. Len(s) + Len(u) : x[i] = IF i <= Len(s) THEN s[i] ELSE u[i - Len(s)]
    BY <1>1, ConcatProperties
  <1>4. /\ y \in Seq(S) /\ Len(y) = Len(v) + 1 /\ y[Len(v) + 1] = e
        /\ \A i \in 1 .. Len(v) : y[i] = v[i]
    <2>1. v \in Seq(S)
      BY <1>2
    <2> QED BY <2>1, AppendProperties
  <1> HIDE DEF x, y
  <1>5. Len(s) \in Nat /\ Len(t) \in Nat /\ Len(u) = Len(t) + 1 /\ Len(v) = Len(s) + Len(t)
    BY <1>1, <1>2
  <1>6. ASSUME NEW i \in 1 .. Len(s) + Len(t) + 1 PROVE x[i] = y[i]
    <2>1. CASE i = Len(s) + Len(t) + 1
      <3>1. x[i] = u[i - Len(s)] /\ i - Len(s) = Len(t) + 1 /\ i = Len(v) + 1
        BY <1>1, <1>2, <1>3, <1>5, <2>1
      <3> QED BY <1>1, <1>4, <3>1
    <2>2. CASE i # Len(s) + Len(t) + 1
      <3>1. i \in 1 .. Len(v) /\ i \in 1 .. Len(s) + Len(u) /\ i \in 1 .. Len(s) + Len(t)
        BY <1>5, <2>2
      <3>2. y[i] = IF i <= Len(s) THEN s[i] ELSE t[i - Len(s)]
        BY <1>2, <1>4, <3>1
      <3>3. x[i] = IF i <= Len(s) THEN s[i] ELSE u[i - Len(s)]
        BY <1>3, <3>1
      <3>4. ~ (i <= Len(s)) => i - Len(s) \in 1 .. Len(t)
        BY <1>5, <3>1
      <3> QED BY <1>1, <3>2, <3>3, <3>4
    <2> QED BY <2>1, <2>2
  <1>7. Len(x) = Len(s) + Len(t) + 1 /\ Len(y) = Len(s) + Len(t) + 1
    BY <1>1, <1>2, <1>3, <1>4, <1>5
  <1>8. x = y
    BY <1>3, <1>4, <1>6, <1>7, SeqEqual
  <1> QED BY <1>2, <1>8 DEF x, y, u, v

\* The pieces can be concatenated in two parts.
LEMMA FlattenConcat ==
  ASSUME NEW S, NEW a \in Seq(Seq(S)), NEW b \in Seq(Seq(S))
  PROVE  FlattenSeq(a \o b) = FlattenSeq(a) \o FlattenSeq(b)
  <1> DEFINE X == {n \in Nat : \A c \in Seq(Seq(S)) :
                      Len(c) = n => FlattenSeq(a \o c) = FlattenSeq(a) \o FlattenSeq(c)}
  <1>0. FlattenSeq(a) \in Seq(S)
    BY FlattenType
  <1>1. \A y, z \in Seq(S) : (FlattenSeq(a) \o y) \o z = FlattenSeq(a) \o (y \o z)
    BY <1>0, AssociativeFrom
  <1>2. 0 \in X
    <2>1. \A c \in Seq(Seq(S)) : Len(c) = 0 => c = <<>>
      OBVIOUS
    <2>2. a \o <<>> = a /\ FlattenSeq(a) \o <<>> = FlattenSeq(a)
      BY <1>0, ConcatEmptySeq
    <2> QED BY <2>1, <2>2, FlattenNothing
  <1>3. ASSUME NEW n \in Nat, n \in X PROVE n + 1 \in X
    <2> SUFFICES ASSUME NEW c \in Seq(Seq(S)), Len(c) = n + 1
                 PROVE  FlattenSeq(a \o c) = FlattenSeq(a) \o FlattenSeq(c)
      OBVIOUS
    <2>1. PICK d \in Seq(Seq(S)), piece \in Seq(S) : c = Append(d, piece)
      <3>1. c # <<>>
        OBVIOUS
      <3> QED BY <3>1, SequenceEmptyOrAppend
    <2>2. Len(d) = n
      BY <2>1
    <2>3. FlattenSeq(a \o d) = FlattenSeq(a) \o FlattenSeq(d)
      BY <1>3, <2>2
    <2>4. a \o c = Append(a \o d, piece) /\ a \o d \in Seq(Seq(S))
      BY <2>1, ConcatAppend
    <2>5. FlattenSeq(a \o c) = FlattenSeq(a \o d) \o piece
      BY <2>4, FlattenAppend
    <2>6. FlattenSeq(c) = FlattenSeq(d) \o piece
      BY <2>1, FlattenAppend
    <2>7. FlattenSeq(d) \in Seq(S)
      BY FlattenType
    <2>8. (FlattenSeq(a) \o FlattenSeq(d)) \o piece = FlattenSeq(a) \o (FlattenSeq(d) \o piece)
      BY <2>7, <1>1
    <2> QED BY <2>3, <2>5, <2>6, <2>8, Zenon
  <1> HIDE DEF X
  <1>4. Len(b) \in X
    <2>1. Len(b) \in Nat
      OBVIOUS
    <2> QED BY <1>2, <1>3, <2>1, InductionOverNat
  <1> QED BY <1>4 DEF X

\* Empty pieces leave nothing.
LEMMA FlattenEmpty ==
  ASSUME NEW n \in Nat
  PROVE  FlattenSeq([i \in 1 .. n |-> <<>>]) = <<>>
  <1> DEFINE pieces == [i \in 1 .. n |-> <<>>]
  <1>1. pieces \in Seq(Seq({}))
    OBVIOUS
  <1>2. FlattenSeq(pieces) \in Seq({})
    <2> HIDE DEF pieces
    <2> QED BY <1>1, FlattenType
  <1> QED BY <1>2

-----------------------------------------------------------------------------
(* Texts.                                                                   *)

Pieces(text, positions) ==
    [i \in DOMAIN text |-> IF i \in positions THEN <<>> ELSE <<text[i]>>]

LEMMA WithoutType ==
  ASSUME NEW S, NEW C, NEW text \in Seq(S), NEW positions,
         \A i \in 1 .. Len(text) : i \notin positions => text[i] \in C
  PROVE  Without(text, positions) \in Seq(C)
  <1>1. Pieces(text, positions) \in Seq(Seq(C))
    <2>1. \A i \in 1 .. Len(text) : Pieces(text, positions)[i] \in Seq(C)
      BY DEF Pieces
    <2>2. Pieces(text, positions) = [i \in 1 .. Len(text) |-> Pieces(text, positions)[i]]
          /\ Len(text) \in Nat
      BY DEF Pieces
    <2> QED BY <2>1, <2>2
  <1>2. Without(text, positions) = FlattenSeq(Pieces(text, positions))
    BY DEF Without, Pieces
  <1> QED BY <1>1, <1>2, FlattenType

\* Only positions of the text count.
LEMMA WithoutSame ==
  ASSUME NEW S, NEW text \in Seq(S), NEW A, NEW B,
         \A i \in 1 .. Len(text) : i \in A <=> i \in B
  PROVE  Without(text, A) = Without(text, B)
  <1>1. Pieces(text, A) = Pieces(text, B)
    BY DEF Pieces
  <1> QED BY <1>1 DEF Without, Pieces

\* Leaving positions out of two parts of a text.
Beyond(n, positions) == {i \in Nat : n + i \in positions}

LEMMA WithoutConcat ==
  ASSUME NEW S, NEW a \in Seq(S), NEW b \in Seq(S), NEW D
  PROVE  Without(a \o b, D) = Without(a, D) \o Without(b, Beyond(Len(a), D))
  <1> DEFINE A == D
             B == Beyond(Len(a), D)
  <1> DEFINE p == Pieces(a, A)
             q == Pieces(b, B)
             r == Pieces(a \o b, D)
  <1>1. p \in Seq(Seq(S)) /\ q \in Seq(Seq(S)) /\ r \in Seq(Seq(S))
        /\ Len(p) = Len(a) /\ Len(q) = Len(b) /\ Len(r) = Len(a) + Len(b)
    <2>1. ASSUME NEW t \in Seq(S), NEW P
          PROVE  Pieces(t, P) \in Seq(Seq(S)) /\ Len(Pieces(t, P)) = Len(t)
      <3>1. \A i \in 1 .. Len(t) : Pieces(t, P)[i] \in Seq(S)
        BY DEF Pieces
      <3>2. Pieces(t, P) = [i \in 1 .. Len(t) |-> Pieces(t, P)[i]] /\ Len(t) \in Nat
        BY DEF Pieces
      <3> QED BY <3>1, <3>2
    <2>2. a \o b \in Seq(S) /\ Len(a \o b) = Len(a) + Len(b)
      BY ConcatProperties
    <2> QED BY <2>1, <2>2
  <1>2. ASSUME NEW i \in 1 .. Len(r) PROVE r[i] = (p \o q)[i]
    <2>1. i \in 1 .. Len(a) + Len(b) /\ Len(a) \in Nat /\ Len(b) \in Nat
      BY <1>1
    <2>2. r[i] = IF i \in D THEN <<>> ELSE <<(a \o b)[i]>>
      <3>1. i \in DOMAIN (a \o b)
        BY <2>1, ConcatProperties
      <3> QED BY <3>1 DEF Pieces
    <2>3. (a \o b)[i] = IF i <= Len(a) THEN a[i] ELSE b[i - Len(a)]
      BY <2>1, ConcatProperties
    <2>4. (p \o q)[i] = IF i <= Len(a) THEN p[i] ELSE q[i - Len(a)]
      <3> HIDE DEF p, q, r
      <3> QED BY <1>1, <2>1, ConcatProperties
    <2>5. CASE i <= Len(a)
      <3>1. i \in 1 .. Len(a)
        BY <2>1, <2>5
      <3>2. p[i] = IF i \in A THEN <<>> ELSE <<a[i]>>
        BY <3>1 DEF Pieces
      <3>3. i \in A <=> i \in D
        OBVIOUS
      <3> HIDE DEF A, p, q, r
      <3> QED BY <2>2, <2>3, <2>4, <2>5, <3>1, <3>2, <3>3
    <2>6. CASE ~ (i <= Len(a))
      <3>1. i - Len(a) \in 1 .. Len(b) /\ Len(a) + (i - Len(a)) = i
        BY <2>1, <2>6
      <3>2. q[i - Len(a)] = IF i - Len(a) \in B THEN <<>> ELSE <<b[i - Len(a)]>>
        BY <3>1 DEF Pieces
      <3>3. i - Len(a) \in B <=> i \in D
        BY <3>1 DEF Beyond
      <3> HIDE DEF B, p, q, r
      <3> QED BY <2>2, <2>3, <2>4, <2>6, <3>1, <3>2, <3>3
    <2> QED BY <2>5, <2>6
  <1> HIDE DEF p, q, r
  <1>3. r = p \o q
    <2>1. p \o q \in Seq(Seq(S)) /\ Len(p \o q) = Len(p) + Len(q)
      BY <1>1, ConcatProperties
    <2>2. Len(r) = Len(p \o q)
      BY <1>1, <2>1
    <2> QED BY <1>1, <1>2, <2>1, <2>2, SeqEqual
  <1>4. FlattenSeq(r) = FlattenSeq(p) \o FlattenSeq(q)
    BY <1>1, <1>3, FlattenConcat
  <1> QED BY <1>4 DEF p, q, r, Without, Pieces

\* Leaving out one character, or none.
LEMMA WithoutOne ==
  ASSUME NEW c, NEW positions
  PROVE  Without(<<c>>, positions) = IF 1 \in positions THEN <<>> ELSE <<c>>
  <1>1. Pieces(<<c>>, positions) = <<IF 1 \in positions THEN <<>> ELSE <<c>> >>
    BY DEF Pieces
  <1>2. \A piece \in Seq({c}) : FlattenSeq(<<piece>>) = piece
    <2> SUFFICES ASSUME NEW piece \in Seq({c}) PROVE FlattenSeq(<<piece>>) = piece
      OBVIOUS
    <2>1. Append(<<>>, piece) = <<piece>> /\ <<>> \o piece = piece /\ <<>> \in Seq(Seq({c}))
      OBVIOUS
    <2> QED BY <2>1, FlattenAppend, FlattenNothing
  <1>3. <<>> \in Seq({c}) /\ <<c>> \in Seq({c})
    OBVIOUS
  <1> QED BY <1>1, <1>2, <1>3 DEF Without, Pieces

\* Leaving nothing out.
LEMMA WithoutNothing ==
  ASSUME NEW S, NEW text \in Seq(S), NEW positions,
         \A i \in 1 .. Len(text) : i \notin positions
  PROVE  Without(text, positions) = text
  <1>0. \A t \in Seq(S) : t # <<>> => \E a \in Seq(S), c \in S : t = Append(a, c)
    BY LastOne
  <1> DEFINE X == {n \in Nat : \A t \in Seq(S) : Len(t) = n => Without(t, {}) = t}
  <1>1. 0 \in X
    <2>1. \A t \in Seq(S) : Len(t) = 0 => t = <<>>
      OBVIOUS
    <2>2. Pieces(<<>>, {}) = <<>>
      BY DEF Pieces
    <2>3. Without(<<>>, {}) = <<>>
      BY <2>2, FlattenNothing DEF Without, Pieces
    <2> QED BY <2>1, <2>3
  <1>2. ASSUME NEW n \in Nat, n \in X PROVE n + 1 \in X
    <2> SUFFICES ASSUME NEW t \in Seq(S), Len(t) = n + 1 PROVE Without(t, {}) = t
      OBVIOUS
    <2>1. PICK a \in Seq(S), c \in S : t = Append(a, c)
      <3>1. t # <<>>
        OBVIOUS
      <3> QED BY <1>0, <3>1
    <2>2. Len(a) = n
      BY <2>1
    <2> DEFINE b == <<c>>
    <2>3. t = a \o b /\ b \in Seq(S) /\ \A D : 1 \notin D => Without(b, D) = b
      BY <2>1, AppendIsConcat, WithoutOne
    <2>4. Without(a, {}) = a
      BY <1>2, <2>2
    <2> HIDE DEF b
    <2>5. Without(a \o b, {}) = Without(a, {}) \o Without(b, Beyond(Len(a), {}))
      BY <2>3, WithoutConcat
    <2>6. 1 \notin Beyond(Len(a), {})
      BY DEF Beyond
    <2> QED BY <2>3, <2>4, <2>5, <2>6
  <1> HIDE DEF X
  <1>3. Len(text) \in X
    <2>1. Len(text) \in Nat
      OBVIOUS
    <2> QED BY <1>1, <1>2, <2>1, InductionOverNat
  <1>4. Without(text, {}) = text
    BY <1>3 DEF X
  <1>5. Pieces(text, positions) = Pieces(text, {})
    BY DEF Pieces
  <1> QED BY <1>4, <1>5 DEF Without, Pieces

\* What Cleaned leaves: characters that are neither stripped nor folded.
Clean == Characters \ (Invisible \cup DOMAIN Fold)

Alphabet == Characters \cup Invisible \cup DOMAIN Fold

LEMMA FoldsToClean == \A c \in DOMAIN Fold : Fold[c] \in Clean
  BY AlphabetAssumption DEF Clean

LEMMA BlobCharacters ==
  Base64 \subseteq Clean /\ DataURI \in Clean /\ Space \in Clean /\ Clean \subseteq Characters
  BY AlphabetAssumption DEF Clean

LEMMA StrippedConcat ==
  ASSUME NEW S, NEW a \in Seq(S), NEW b \in Seq(S)
  PROVE  Stripped(a \o b) = Stripped(a) \o Stripped(b)
  <1> DEFINE Gone(t) == {i \in DOMAIN t : t[i] \in Invisible}
             D == Gone(a \o b)
  <1>1. /\ a \o b \in Seq(S) /\ DOMAIN (a \o b) = 1 .. Len(a) + Len(b)
        /\ Len(a) \in Nat /\ Len(b) \in Nat
        /\ \A i \in 1 .. Len(a) + Len(b) :
             (a \o b)[i] = IF i <= Len(a) THEN a[i] ELSE b[i - Len(a)]
    BY ConcatProperties, LenProperties
  <1>2. \A i \in 1 .. Len(a) : i \in D <=> i \in Gone(a)
    <2> SUFFICES ASSUME NEW i \in 1 .. Len(a) PROVE i \in D <=> i \in Gone(a)
      OBVIOUS
    <2>1. i \in 1 .. Len(a) + Len(b) /\ i <= Len(a)
      BY <1>1
    <2> QED BY <1>1, <2>1
  <1>3. \A i \in 1 .. Len(b) : i \in Beyond(Len(a), D) <=> i \in Gone(b)
    <2> SUFFICES ASSUME NEW i \in 1 .. Len(b)
                 PROVE  i \in Beyond(Len(a), D) <=> i \in Gone(b)
      OBVIOUS
    <2>1. Len(a) + i \in 1 .. Len(a) + Len(b) /\ ~ (Len(a) + i <= Len(a))
          /\ (Len(a) + i) - Len(a) = i /\ i \in Nat
      BY <1>1
    <2> QED BY <1>1, <2>1 DEF Beyond
  <1>4. Without(a \o b, D) = Without(a, D) \o Without(b, Beyond(Len(a), D))
    <2> HIDE DEF D
    <2> QED BY WithoutConcat
  <1>5. Without(a, D) = Without(a, Gone(a))
    <2> HIDE DEF D, Gone
    <2> QED BY <1>2, WithoutSame
  <1>6. Without(b, Beyond(Len(a), D)) = Without(b, Gone(b))
    <2> DEFINE E == Beyond(Len(a), D)
    <2> HIDE DEF D, E, Gone
    <2>1. \A i \in 1 .. Len(b) : i \in E <=> i \in Gone(b)
      BY <1>3 DEF E
    <2>2. Without(b, E) = Without(b, Gone(b))
      BY <2>1, WithoutSame
    <2> QED BY <2>2 DEF E
  <1> QED BY <1>4, <1>5, <1>6 DEF Stripped

LEMMA StrippedOne ==
  ASSUME NEW c
  PROVE  Stripped(<<c>>) = IF c \in Invisible THEN <<>> ELSE <<c>>
  <1>1. 1 \in {i \in DOMAIN <<c>> : <<c>>[i] \in Invisible} <=> c \in Invisible
    OBVIOUS
  <1> QED BY <1>1, WithoutOne DEF Stripped

LEMMA StrippedType ==
  ASSUME NEW text \in Seq(Alphabet)
  PROVE  Stripped(text) \in Seq(Alphabet \ Invisible)
  <1> DEFINE positions == {i \in DOMAIN text : text[i] \in Invisible}
  <1>1. \A i \in 1 .. Len(text) : i \notin positions => text[i] \in Alphabet \ Invisible
    OBVIOUS
  <1> HIDE DEF positions
  <1>2. Without(text, positions) \in Seq(Alphabet \ Invisible)
    BY <1>1, WithoutType
  <1> QED BY <1>2 DEF Stripped, positions

LEMMA FoldedProperties ==
  ASSUME NEW S, NEW text \in Seq(S)
  PROVE  /\ Len(Folded(text)) = Len(text)
         /\ Folded(text) \in Seq(S \cup Clean)
         /\ \A i \in 1 .. Len(text) :
              Folded(text)[i] = IF text[i] \in DOMAIN Fold THEN Fold[text[i]] ELSE text[i]
  <1>1. \A i \in 1 .. Len(text) :
          /\ Folded(text)[i] = IF text[i] \in DOMAIN Fold THEN Fold[text[i]] ELSE text[i]
          /\ Folded(text)[i] \in S \cup Clean
    BY FoldsToClean DEF Folded
  <1>2. Folded(text) = [i \in 1 .. Len(text) |-> Folded(text)[i]] /\ Len(text) \in Nat
    BY DEF Folded
  <1> QED BY <1>1, <1>2

LEMMA FoldedConcat ==
  ASSUME NEW S, NEW a \in Seq(S), NEW b \in Seq(S)
  PROVE  Folded(a \o b) = Folded(a) \o Folded(b)
  <1> DEFINE T == S \cup Clean
             p == Folded(a)
             q == Folded(b)
             r == Folded(a \o b)
             One(c) == IF c \in DOMAIN Fold THEN Fold[c] ELSE c
  <1>1. /\ a \o b \in Seq(S) /\ Len(a \o b) = Len(a) + Len(b)
        /\ Len(a) \in Nat /\ Len(b) \in Nat
        /\ \A i \in 1 .. Len(a) + Len(b) :
             (a \o b)[i] = IF i <= Len(a) THEN a[i] ELSE b[i - Len(a)]
    BY ConcatProperties, LenProperties
  <1>2. /\ p \in Seq(T) /\ Len(p) = Len(a) /\ \A i \in 1 .. Len(a) : p[i] = One(a[i])
        /\ q \in Seq(T) /\ Len(q) = Len(b) /\ \A i \in 1 .. Len(b) : q[i] = One(b[i])
    BY FoldedProperties
  <1>3. r \in Seq(T) /\ Len(r) = Len(a) + Len(b)
        /\ \A i \in 1 .. Len(a) + Len(b) : r[i] = One((a \o b)[i])
    BY <1>1, FoldedProperties
  <1> HIDE DEF p, q, r, T, One
  <1>4. /\ p \o q \in Seq(T) /\ Len(p \o q) = Len(a) + Len(b)
        /\ \A i \in 1 .. Len(a) + Len(b) :
             (p \o q)[i] = IF i <= Len(a) THEN p[i] ELSE q[i - Len(a)]
    <2>1. p \in Seq(T) /\ q \in Seq(T) /\ Len(p) = Len(a) /\ Len(q) = Len(b)
      BY <1>2
    <2>2. /\ p \o q \in Seq(T) /\ Len(p \o q) = Len(p) + Len(q)
          /\ \A i \in 1 .. Len(p) + Len(q) :
               (p \o q)[i] = IF i <= Len(p) THEN p[i] ELSE q[i - Len(p)]
      BY <2>1, ConcatProperties
    <2> QED BY <2>1, <2>2
  <1>5. ASSUME NEW i \in 1 .. Len(a) + Len(b) PROVE r[i] = (p \o q)[i]
    <2>1. CASE i <= Len(a)
      <3>1. i \in 1 .. Len(a)
        BY <1>1, <2>1
      <3> QED BY <1>1, <1>2, <1>3, <1>4, <2>1, <3>1
    <2>2. CASE ~ (i <= Len(a))
      <3>1. i - Len(a) \in 1 .. Len(b)
        BY <1>1, <2>2
      <3> QED BY <1>1, <1>2, <1>3, <1>4, <2>2, <3>1
    <2> QED BY <2>1, <2>2
  <1>6. r = p \o q
    BY <1>3, <1>4, <1>5, SeqEqual
  <1> QED BY <1>6 DEF p, q, r

LEMMA CleanedType ==
  ASSUME NEW text \in Seq(Alphabet)
  PROVE  Cleaned(text) \in Seq(Clean)
  <1> DEFINE s == Stripped(text)
  <1>1. s \in Seq(Alphabet \ Invisible)
    BY StrippedType
  <1> HIDE DEF s
  <1>2. /\ Len(Folded(s)) = Len(s) /\ Folded(s) \in Seq((Alphabet \ Invisible) \cup Clean)
        /\ \A i \in 1 .. Len(s) :
             Folded(s)[i] = IF s[i] \in DOMAIN Fold THEN Fold[s[i]] ELSE s[i]
    BY <1>1, FoldedProperties
  <1>3. \A i \in 1 .. Len(s) : Folded(s)[i] \in Clean
    BY <1>1, <1>2, FoldsToClean DEF Clean, Alphabet
  <1>4. Folded(s) \in Seq(Clean)
    BY <1>2, <1>3
  <1> QED BY <1>4 DEF Cleaned, s

LEMMA CleanedConcat ==
  ASSUME NEW a \in Seq(Alphabet), NEW b \in Seq(Alphabet)
  PROVE  Cleaned(a \o b) = Cleaned(a) \o Cleaned(b)
  <1>1. Stripped(a \o b) = Stripped(a) \o Stripped(b)
    BY StrippedConcat
  <1>2. Stripped(a) \in Seq(Alphabet \ Invisible) /\ Stripped(b) \in Seq(Alphabet \ Invisible)
    BY StrippedType
  <1>3. Folded(Stripped(a) \o Stripped(b)) = Folded(Stripped(a)) \o Folded(Stripped(b))
    BY <1>2, FoldedConcat
  <1> QED BY <1>1, <1>3 DEF Cleaned

\* What is clean stays as it is.
LEMMA CleanStays ==
  ASSUME NEW text \in Seq(Clean)
  PROVE  Stripped(text) = text /\ Folded(text) = text /\ Cleaned(text) = text
  <1> DEFINE positions == {i \in DOMAIN text : text[i] \in Invisible}
  <1>1. \A i \in 1 .. Len(text) : i \notin positions
    BY DEF Clean
  <1>2. Without(text, positions) = text
    <2> HIDE DEF positions
    <2> QED BY <1>1, WithoutNothing
  <1>3. Stripped(text) = text
    BY <1>2 DEF Stripped
  <1>4. Folded(text) = text
    <2>1. Folded(text) \in Seq(Clean) /\ Len(Folded(text)) = Len(text)
      BY FoldedProperties
    <2>2. \A i \in 1 .. Len(text) : Folded(text)[i] = text[i]
      BY FoldedProperties DEF Clean
    <2> QED BY <2>1, <2>2, SeqEqual
  <1> QED BY <1>3, <1>4 DEF Cleaned

LEMMA CleanedOne ==
  ASSUME NEW c \in Alphabet
  PROVE  Cleaned(<<c>>) = IF c \in Invisible THEN <<>>
                          ELSE IF c \in DOMAIN Fold THEN <<Fold[c]>> ELSE <<c>>
  BY StrippedOne DEF Cleaned, Folded

-----------------------------------------------------------------------------
(* Disguises.                                                               *)

\* A character between two parts of a text.
LEMMA CleanedBetween ==
  ASSUME NEW a \in Seq(Alphabet), NEW c \in Alphabet, NEW b \in Seq(Alphabet)
  PROVE  Cleaned((a \o <<c>>) \o b) = (Cleaned(a) \o Cleaned(<<c>>)) \o Cleaned(b)
  <1> DEFINE s == <<c>>
  <1>1. s \in Seq(Alphabet)
    OBVIOUS
  <1> HIDE DEF s
  <1>2. a \o s \in Seq(Alphabet)
    BY <1>1, ConcatProperties
  <1>3. Cleaned(a \o s) = Cleaned(a) \o Cleaned(s)
    BY <1>1, CleanedConcat
  <1>4. Cleaned((a \o s) \o b) = Cleaned(a \o s) \o Cleaned(b)
    BY <1>2, CleanedConcat
  <1> QED BY <1>3, <1>4 DEF s

\* An invisible character that is put in is taken out again.
LEMMA InsertedIsStripped ==
  ASSUME NEW text \in Seq(Characters), NEW i \in 1 .. Len(text) + 1, NEW c \in Invisible
  PROVE  LET t == InsertAt(text, i, c) IN
         t \in Seq(Alphabet) /\ Cleaned(t) = Cleaned(text) /\ i \in 1 .. Len(t) /\ t[i] = c
  <1> DEFINE a == SubSeq(text, 1, i - 1)
             b == SubSeq(text, i, Len(text))
             s == <<c>>
             t == (a \o s) \o b
  <1>1. text \in Seq(Alphabet) /\ c \in Alphabet /\ s \in Seq(Alphabet) /\ Len(s) = 1 /\ s[1] = c
        /\ Len(text) \in Nat
    BY DEF Alphabet
  <1>2. a \in Seq(Alphabet) /\ Len(a) = i - 1
    <2>1. \A k \in 1 .. i - 1 : text[k] \in Alphabet
      BY <1>1
    <2> QED BY <1>1, <2>1, SubSeqProperties
  <1>3. b \in Seq(Alphabet)
    <2>1. \A k \in i .. Len(text) : text[k] \in Alphabet
      BY <1>1
    <2> QED BY <1>1, <2>1, SubSeqProperties
  <1>4. a \o b = text
    <2>1. i - 1 \in 1 - 1 .. Len(text) /\ Len(text) \in i - 1 .. Len(text) /\ (i - 1) + 1 = i
          /\ 1 \in 1 .. Len(text) + 1
      BY <1>1
    <2>2. SubSeq(text, 1, i - 1) \o SubSeq(text, (i - 1) + 1, Len(text)) = SubSeq(text, 1, Len(text))
      BY <2>1, ConcatAdjacentSubSeq
    <2> QED BY <2>1, <2>2, SubSeqFull
  <1> HIDE DEF a, b
  <1>5. Cleaned(text) = Cleaned(a) \o Cleaned(b)
    BY <1>2, <1>3, <1>4, CleanedConcat
  <1>6. Cleaned(t) = (Cleaned(a) \o <<>>) \o Cleaned(b)
    <2>1. a \in Seq(Alphabet) /\ b \in Seq(Alphabet) /\ c \in Alphabet
      BY <1>1, <1>2, <1>3
    <2>2. Cleaned(t) = (Cleaned(a) \o Cleaned(s)) \o Cleaned(b)
      BY <2>1, CleanedBetween
    <2>3. Cleaned(s) = <<>>
      BY <2>1, CleanedOne
    <2> QED BY <2>2, <2>3
  <1>7. Cleaned(a) \in Seq(Clean)
    BY <1>2, CleanedType
  <1>8. Cleaned(a) \o <<>> = Cleaned(a)
    BY <1>7, ConcatEmptySeq
  <1> HIDE DEF s
  <1>9. /\ a \o s \in Seq(Alphabet) /\ Len(a \o s) = i
        /\ (a \o s)[i] = s[1]
    <2>1. a \in Seq(Alphabet) /\ s \in Seq(Alphabet) /\ Len(a) = i - 1 /\ Len(s) = 1
      BY <1>1, <1>2
    <2>2. /\ a \o s \in Seq(Alphabet) /\ Len(a \o s) = Len(a) + Len(s)
          /\ \A k \in 1 .. Len(a) + Len(s) :
               (a \o s)[k] = IF k <= Len(a) THEN a[k] ELSE s[k - Len(a)]
      BY <2>1, ConcatProperties
    <2>3. Len(a) + Len(s) = i /\ ~ (i <= Len(a)) /\ i - Len(a) = 1 /\ i \in 1 .. Len(a) + Len(s)
      BY <2>1
    <2> QED BY <2>2, <2>3
  <1>10. t \in Seq(Alphabet) /\ Len(t) = i + Len(b) /\ t[i] = (a \o s)[i]
    <2> DEFINE v == a \o s
    <2>1. v \in Seq(Alphabet) /\ Len(v) = i
      BY <1>9
    <2> HIDE DEF v
    <2>2. /\ v \o b \in Seq(Alphabet) /\ Len(v \o b) = Len(v) + Len(b)
          /\ \A k \in 1 .. Len(v) + Len(b) :
               (v \o b)[k] = IF k <= Len(v) THEN v[k] ELSE b[k - Len(v)]
      BY <1>3, <2>1, ConcatProperties
    <2>3. Len(b) \in Nat /\ i \in 1 .. Len(v) + Len(b) /\ i <= Len(v)
      BY <1>3, <2>1
    <2>4. v \o b \in Seq(Alphabet) /\ Len(v \o b) = i + Len(b) /\ (v \o b)[i] = v[i]
      BY <2>1, <2>2, <2>3
    <2> QED BY <2>4 DEF v
  <1>11. i \in 1 .. Len(t)
    BY <1>3, <1>10
  <1>12. t = InsertAt(text, i, c)
    BY DEF InsertAt, a, b, s
  <1> QED BY <1>1, <1>5, <1>6, <1>8, <1>9, <1>10, <1>11, <1>12

\* A character that looks like another is folded to it.
LEMMA ReplacedIsFolded ==
  ASSUME NEW text \in Seq(Characters), NEW i \in 1 .. Len(text), NEW d \in Alike(text[i])
  PROVE  LET t == ReplaceAt(text, i, d) IN
         t \in Seq(Alphabet) /\ Cleaned(t) = Cleaned(text) /\ i \in 1 .. Len(t) /\ t[i] = d
  <1> DEFINE c == text[i]
             a == SubSeq(text, 1, i - 1)
             b == SubSeq(text, i + 1, Len(text))
             t == ReplaceAt(text, i, d)
  <1>1. /\ text \in Seq(Alphabet) /\ Len(text) \in Nat /\ c \in Alphabet /\ d \in Alphabet
        /\ d \in DOMAIN Fold /\ d \notin Invisible /\ Fold[d] = c
    BY DEF Alphabet, Alike
  <1>2. c \in Clean
    BY <1>1, FoldsToClean
  <1>3. Cleaned(<<d>>) = <<c>> /\ Cleaned(<<c>>) = <<c>>
    BY <1>1, <1>2, CleanedOne DEF Clean
  <1>4. a \in Seq(Alphabet) /\ Len(a) = i - 1 /\ \A k \in 1 .. i - 1 : a[k] = text[k]
    <2>1. \A k \in 1 .. i - 1 : text[k] \in Alphabet
      BY <1>1
    <2>2. /\ a \in Seq(Alphabet) /\ Len(a) = IF 1 <= i - 1 THEN (i - 1) - 1 + 1 ELSE 0
          /\ \A k \in 1 .. (i - 1) - 1 + 1 : a[k] = text[1 + k - 1]
      BY <2>1, SubSeqProperties
    <2> QED BY <1>1, <2>2
  <1>5. b \in Seq(Alphabet) /\ Len(b) = Len(text) - i
        /\ \A k \in 1 .. Len(text) - i : b[k] = text[i + k]
    <2>1. \A k \in i + 1 .. Len(text) : text[k] \in Alphabet
      BY <1>1
    <2>2. /\ b \in Seq(Alphabet)
          /\ Len(b) = IF i + 1 <= Len(text) THEN Len(text) - (i + 1) + 1 ELSE 0
          /\ \A k \in 1 .. Len(text) - (i + 1) + 1 : b[k] = text[(i + 1) + k - 1]
      BY <1>1, <2>1, SubSeqProperties
    <2> QED BY <1>1, <2>2
  <1>6. /\ t \in Seq(Alphabet) /\ Len(t) = Len(text)
        /\ \A k \in 1 .. Len(text) : t[k] = IF k = i THEN d ELSE text[k]
    BY <1>1, ExceptSeq DEF ReplaceAt
  <1> HIDE DEF a, b, c, t
  <1>7. ASSUME NEW x \in Alphabet, NEW u \in Seq(Alphabet), Len(u) = Len(text),
               \A k \in 1 .. Len(text) : u[k] = IF k = i THEN x ELSE text[k]
        PROVE  u = (a \o <<x>>) \o b
    <2> DEFINE s == <<x>>
    <2>1. s \in Seq(Alphabet) /\ Len(s) = 1 /\ s[1] = x
      OBVIOUS
    <2> HIDE DEF s
    <2> DEFINE v == a \o s
               w == v \o b
    <2>2. /\ v \in Seq(Alphabet) /\ Len(v) = i
          /\ \A k \in 1 .. i : v[k] = IF k = i THEN x ELSE text[k]
      <3>1. /\ v \in Seq(Alphabet) /\ Len(v) = Len(a) + Len(s)
            /\ \A k \in 1 .. Len(a) + Len(s) : v[k] = IF k <= Len(a) THEN a[k] ELSE s[k - Len(a)]
        BY <1>4, <2>1, ConcatProperties
      <3> HIDE DEF v
      <3>2. Len(a) = i - 1 /\ Len(a) + Len(s) = i
        BY <1>4, <2>1
      <3>3. ASSUME NEW k \in 1 .. i PROVE v[k] = IF k = i THEN x ELSE text[k]
        <4>1. CASE k = i
          <5>1. ~ (k <= Len(a)) /\ k - Len(a) = 1
            BY <3>2, <4>1
          <5> QED BY <2>1, <3>1, <3>2, <4>1, <5>1
        <4>2. CASE k # i
          <5>1. k <= Len(a) /\ k \in 1 .. i - 1
            BY <3>2, <4>2
          <5> QED BY <1>4, <3>1, <3>2, <4>2, <5>1
        <4> QED BY <4>1, <4>2
      <3> QED BY <3>1, <3>2, <3>3
    <2> HIDE DEF v
    <2>3. /\ w \in Seq(Alphabet) /\ Len(w) = Len(v) + Len(b)
          /\ \A k \in 1 .. Len(v) + Len(b) : w[k] = IF k <= Len(v) THEN v[k] ELSE b[k - Len(v)]
      BY <1>5, <2>2, ConcatProperties
    <2> HIDE DEF w
    <2>4. Len(v) = i /\ Len(v) + Len(b) = Len(text)
      BY <1>1, <1>5, <2>2
    <2>5. ASSUME NEW k \in 1 .. Len(text) PROVE w[k] = u[k]
      <3>1. CASE k <= i
        BY <1>7, <2>2, <2>3, <2>4, <3>1
      <3>2. CASE ~ (k <= i)
        <4>1. k - i \in 1 .. Len(text) - i /\ i + (k - i) = k /\ k # i
          BY <1>1, <3>2
        <4> QED BY <1>5, <1>7, <2>3, <2>4, <3>2, <4>1
      <3> QED BY <3>1, <3>2
    <2>6. w = u
      BY <1>7, <2>3, <2>4, <2>5, SeqEqual
    <2> QED BY <2>6 DEF w, v, s
  <1>8. t = (a \o <<d>>) \o b
    BY <1>1, <1>6, <1>7
  <1>9. text = (a \o <<c>>) \o b
    BY <1>1, <1>7 DEF c
  <1>10. Cleaned(t) = (Cleaned(a) \o <<c>>) \o Cleaned(b)
    <2>1. a \in Seq(Alphabet) /\ b \in Seq(Alphabet) /\ d \in Alphabet
      BY <1>1, <1>4, <1>5
    <2>2. Cleaned((a \o <<d>>) \o b) = (Cleaned(a) \o Cleaned(<<d>>)) \o Cleaned(b)
      BY <2>1, CleanedBetween
    <2> QED BY <1>3, <1>8, <2>2
  <1>11. Cleaned(text) = (Cleaned(a) \o <<c>>) \o Cleaned(b)
    <2>1. a \in Seq(Alphabet) /\ b \in Seq(Alphabet) /\ c \in Alphabet
      BY <1>1, <1>4, <1>5
    <2>2. Cleaned((a \o <<c>>) \o b) = (Cleaned(a) \o Cleaned(<<c>>)) \o Cleaned(b)
      BY <2>1, CleanedBetween
    <2> QED BY <1>3, <1>9, <2>2
  <1> QED BY <1>6, <1>10, <1>11 DEF t

\* A disguised text is cleaned to the same, and is noticed.
LEMMA HiddenIsCleaned ==
  ASSUME NEW text \in Seq(Characters), NEW t \in Hidden(text)
  PROVE  Cleaned(t) = Cleaned(text) /\ Suspicious(t)
  <1>1. \E i \in 1 .. Len(t) :
          /\ t \in Seq(Alphabet) /\ Cleaned(t) = Cleaned(text)
          /\ t[i] \in Invisible \cup DOMAIN Fold
    <2>1. CASE \E i \in 1 .. Len(text) + 1, c \in Invisible : t = InsertAt(text, i, c)
      BY <2>1, InsertedIsStripped
    <2>2. CASE \E i \in DOMAIN text : \E d \in Alike(text[i]) : t = ReplaceAt(text, i, d)
      <3>1. PICK i \in 1 .. Len(text) : \E d \in Alike(text[i]) : t = ReplaceAt(text, i, d)
        BY <2>2
      <3>2. PICK d \in Alike(text[i]) : t = ReplaceAt(text, i, d)
        BY <3>1
      <3>3. d \in DOMAIN Fold
        BY DEF Alike
      <3> QED BY <3>2, <3>3, ReplacedIsFolded
    <2> QED BY <2>1, <2>2 DEF Hidden
  <1>2. text \in Seq(Alphabet)
    BY DEF Alphabet
  <1>3. Cleaned(text) \in Seq(Clean)
    BY <1>2, CleanedType
  <1>4. Cleaned(t) # t
    BY <1>1, <1>3 DEF Clean
  <1> QED BY <1>1, <1>4 DEF Suspicious

-----------------------------------------------------------------------------
(* Payloads.                                                                *)

LEMMA NoPayloads ==
  ASSUME NEW S, NEW text \in Seq(S)
  PROVE  Payloads(text, {}) = <<>>
  <1>1. FlattenSeq([i \in 1 .. Len(text) |-> <<>>]) = <<>>
    <2>1. Len(text) \in Nat
      OBVIOUS
    <2> QED BY <2>1, FlattenEmpty
  <1>2. DOMAIN text = 1 .. Len(text)
    OBVIOUS
  <1> QED BY <1>1, <1>2 DEF Payloads

\* The payload of a single run, which ends the text.
LEMMA OnePayload ==
  ASSUME NEW S, NEW text \in Seq(S), NEW m \in 1 .. Len(text),
         Run(text, <<m, Len(text)>>) \in DOMAIN Payload
  PROVE  Payloads(text, {<<m, Len(text)>>}) = <<Space>> \o Payload[Run(text, <<m, Len(text)>>)]
  <1> DEFINE L == Len(text)
             run == <<m, L>>
             p == <<Space>> \o Payload[Run(text, run)]
             none == [i \in 1 .. L - 1 |-> <<>>]
             pieces == [i \in DOMAIN text |->
                          IF \E r \in {run} : r[2] = i /\ Run(text, r) \in DOMAIN Payload
                          THEN <<Space>> \o Payload[Run(text, CHOOSE r \in {run} : r[2] = i)]
                          ELSE <<>>]
  <1>1. L \in Nat \ {0} /\ DOMAIN text = 1 .. L
    OBVIOUS
  <1>2. p \in Seq(Characters)
    <2> DEFINE q == Payload[Run(text, run)]
    <2>1. q \in Seq(Characters)
      BY AlphabetAssumption
    <2> HIDE DEF q
    <2>2. <<Space>> \in Seq(Characters)
      BY BlobCharacters
    <2> QED BY <2>1, <2>2, ConcatProperties DEF q
  <1>3. none \in Seq(Seq(Characters)) /\ Len(none) = L - 1
    BY <1>1
  <1>4. pieces = [i \in 1 .. L |-> IF i = L THEN p ELSE <<>>]
    <2>1. (CHOOSE r \in {run} : r[2] = L) = run
      <3>1. run[2] = L
        OBVIOUS
      <3> HIDE DEF run
      <3> QED BY <3>1
    <2>2. \A i : (\E r \in {run} : r[2] = i /\ Run(text, r) \in DOMAIN Payload) <=> i = L
      BY DEF run
    <2> QED BY <1>1, <2>1, <2>2
  <1> HIDE DEF L, p, none, pieces, run
  <1>5. pieces = Append(none, p)
    <2>1. Append(none, p) \in Seq(Seq(Characters)) /\ Len(Append(none, p)) = L
          /\ \A i \in 1 .. L : Append(none, p)[i] = IF i = L THEN p ELSE <<>>
      <3>1. /\ Append(none, p) \in Seq(Seq(Characters)) /\ Len(Append(none, p)) = (L - 1) + 1
            /\ \A i \in 1 .. L - 1 : Append(none, p)[i] = none[i]
            /\ Append(none, p)[(L - 1) + 1] = p
        BY <1>2, <1>3, AppendProperties
      <3>2. \A i \in 1 .. L - 1 : none[i] = <<>>
        BY DEF none
      <3>3. L \in Int /\ (L - 1) + 1 = L
        BY <1>1
      <3>4. ASSUME NEW i \in 1 .. L, i # L PROVE i \in 1 .. L - 1
        BY <3>3, <3>4
      <3> QED BY <3>1, <3>2, <3>3, <3>4
    <2>2. pieces \in Seq(Seq(Characters)) /\ Len(pieces) = L
          /\ \A i \in 1 .. L : pieces[i] = IF i = L THEN p ELSE <<>>
      <3>1. \A i \in 1 .. L : pieces[i] = (IF i = L THEN p ELSE <<>>)
                             /\ pieces[i] \in Seq(Characters)
        BY <1>2, <1>4
      <3>2. pieces = [i \in 1 .. L |-> pieces[i]] /\ L \in Nat
        BY <1>1, <1>4
      <3>3. pieces \in [1 .. L -> Seq(Characters)]
        BY <3>1, <3>2
      <3>4. pieces \in Seq(Seq(Characters)) /\ Len(pieces) = L
        <4> HIDE DEF pieces
        <4>1. L \in Nat
          BY <3>2
        <4> QED BY <3>3, <4>1
      <3> QED BY <3>1, <3>4
    <2> QED BY <2>1, <2>2, SeqEqual
  <1>6. FlattenSeq(none) = <<>>
    <2>1. L - 1 \in Nat
      BY <1>1
    <2> QED BY <2>1, FlattenEmpty DEF none
  <1>7. FlattenSeq(pieces) = FlattenSeq(none) \o p
    BY <1>2, <1>3, <1>5, FlattenAppend
  <1>8. <<>> \o p = p
    BY <1>2, ConcatEmptySeq
  <1>9. Payloads(text, {run}) = p
    BY <1>6, <1>7, <1>8 DEF Payloads, pieces
  <1> QED BY <1>9 DEF L, run, p

\* A sequence is one of its own parts.
LEMMA WholeIsPart ==
  ASSUME NEW S, NEW s \in Seq(S) PROVE s \in SubSeqs(s)
  <1>1. 0 \in 0 .. Len(s) /\ Len(s) \in 0 .. Len(s) /\ SubSeq(s, 0 + 1, Len(s)) = s
    BY SubSeqFull
  <1> QED BY <1>1 DEF SubSeqs

\* A blob, by itself or as a data URI, is decoded to its payload, once.
LEMMA WrappedIsDecoded ==
  ASSUME NEW text, NEW w \in Wrapped(text)
  PROVE  /\ w \in Seq(Clean) /\ text \in Seq(Characters)
         /\ Decoded(w) = w \o (<<Space>> \o text)
         /\ Suspicious(w)
  <1>1. PICK blob \in DOMAIN Payload :
          /\ Payload[blob] = text
          /\ \/ w = blob /\ Len(blob) >= MinBlob
             \/ w = <<DataURI>> \o blob
    BY DEF Wrapped
  <1> DEFINE n == Len(blob)
             p == <<Space>> \o text
  <1>2. /\ blob \in Seq(Base64) /\ blob \in Seq(Clean) /\ n \in Nat \ {0}
        /\ \A i \in 1 .. n : blob[i] \in Base64
        /\ text \in Seq(Characters)
    <2>1. blob \in Seq(Base64) /\ blob # <<>> /\ text \in Seq(Characters)
      BY <1>1, AlphabetAssumption
    <2>2. blob \in Seq(Clean)
      BY <2>1, BlobCharacters, SeqMonotonic
    <2>3. n \in Nat \ {0}
      BY <2>1, EmptySeq
    <2> QED BY <2>1, <2>2, <2>3
  <1>3. p \in Seq(Characters)
    <2>1. <<Space>> \in Seq(Characters)
      BY BlobCharacters
    <2> QED BY <1>2, <2>1, ConcatProperties
  <1>4. \A s \in Seq(Clean) : s \in Seq(Characters)
    BY BlobCharacters, SeqMonotonic
  <1> HIDE DEF n, p
  <1>5. CASE w = blob /\ Len(blob) >= MinBlob
    <2> DEFINE run == <<1, n>>
    <2>1. w \in Seq(Clean) /\ w \in Seq(Characters) /\ Len(w) = n /\ DOMAIN w = 1 .. n
          /\ Cleaned(w) = w
      BY <1>2, <1>4, <1>5, CleanStays DEF n
    <2>2. Runs(w) = {run}
      <3>1. run \in Runs(w)
        BY <1>2, <1>5, <2>1 DEF Runs
      <3>2. ASSUME NEW r \in Runs(w) PROVE r = run
        <4>1. r \in (1 .. n) \X (1 .. n) /\ (r[1] = 1 \/ w[r[1] - 1] \notin Base64)
              /\ (r[2] = n \/ w[r[2] + 1] \notin Base64)
          BY <2>1 DEF Runs
        <4>2. r[1] = 1
          BY <1>2, <1>5, <4>1
        <4>3. r[2] = n
          BY <1>2, <1>5, <4>1
        <4> QED BY <4>1, <4>2, <4>3
      <3> QED BY <3>1, <3>2
    <2>3. Run(w, run) = w
      BY <2>1, SubSeqFull DEF Run
    <2>4. URIs(w) = {}
      BY <2>2 DEF URIs
    <2>5. Blobs(w) = {run}
      <3>1. run[2] - run[1] + 1 >= MinBlob
        BY <1>2, <1>5, AlphabetAssumption DEF n
      <3>2. Run(w, run) \in DOMAIN Payload
        BY <1>1, <1>5, <2>3
      <3> HIDE DEF run
      <3> QED BY <2>2, <2>4, <3>1, <3>2 DEF Blobs
    <2>6. Payloads(w, {}) = <<>>
      BY <2>1, NoPayloads
    <2>7. Payloads(w, {run}) = p
      <3>1. 1 \in 1 .. Len(w) /\ Run(w, <<1, Len(w)>>) = w /\ w \in DOMAIN Payload
            /\ Payload[w] = text
        BY <1>1, <1>2, <1>5, <2>1, <2>3
      <3>2. Payloads(w, {<<1, Len(w)>>}) = <<Space>> \o Payload[Run(w, <<1, Len(w)>>)]
        BY <2>1, <3>1, OnePayload
      <3> QED BY <2>1, <3>1, <3>2 DEF p
    <2>8. Decoded(w) = (w \o <<>>) \o p
      BY <2>1, <2>4, <2>5, <2>6, <2>7 DEF Decoded
    <2>9. w \o <<>> = w
      BY <2>1, ConcatEmptySeq
    <2>10. Suspicious(w)
      BY <2>1, <2>5 DEF Suspicious
    <2> QED BY <1>2, <2>1, <2>8, <2>9, <2>10 DEF p
  <1>6. CASE w = <<DataURI>> \o blob
    <2> DEFINE run == <<2, n + 1>>
    <2>1. /\ w \in Seq(Clean) /\ Len(w) = n + 1 /\ w[1] = DataURI
          /\ \A i \in 2 .. n + 1 : w[i] = blob[i - 1]
      <3> DEFINE u == <<DataURI>>
      <3>1. u \in Seq(Clean) /\ Len(u) = 1 /\ u[1] = DataURI
        BY BlobCharacters
      <3> HIDE DEF u
      <3>2. /\ u \o blob \in Seq(Clean) /\ Len(u \o blob) = Len(u) + Len(blob)
            /\ \A i \in 1 .. Len(u) + Len(blob) :
                 (u \o blob)[i] = IF i <= Len(u) THEN u[i] ELSE blob[i - Len(u)]
        BY <1>2, <3>1, ConcatProperties
      <3>3. w = u \o blob
        BY <1>6 DEF u
      <3> QED BY <1>2, <3>1, <3>2, <3>3 DEF n
    <2>2. /\ w \in Seq(Characters) /\ Cleaned(w) = w /\ DOMAIN w = 1 .. n + 1
          /\ \A i \in 2 .. n + 1 : w[i] \in Base64
          /\ w[1] \notin Base64
      <3>1. \A i \in 2 .. n + 1 : i - 1 \in 1 .. n
        BY <1>2
      <3>2. \A i \in 2 .. n + 1 : w[i] \in Base64
        BY <1>2, <2>1, <3>1
      <3>3. w \in Seq(Characters) /\ Cleaned(w) = w
        BY <1>4, <2>1, CleanStays
      <3>4. DataURI \notin Base64
        BY AlphabetAssumption
      <3>5. DOMAIN w = 1 .. n + 1
        BY <2>1
      <3> QED BY <2>1, <3>2, <3>3, <3>4, <3>5
    <2>3. Runs(w) = {run}
      <3>1. run \in Runs(w)
        <4>1. run \in (DOMAIN w) \X (DOMAIN w) /\ run[1] = 2 /\ run[2] = n + 1 /\ 2 <= n + 1
          BY <1>2, <2>2
        <4> HIDE DEF run
        <4> QED BY <2>1, <2>2, <4>1 DEF Runs
      <3>2. ASSUME NEW r \in Runs(w) PROVE r = run
        <4>1. r \in (1 .. n + 1) \X (1 .. n + 1) /\ (r[1] = 1 \/ w[r[1] - 1] \notin Base64)
              /\ (r[2] = n + 1 \/ w[r[2] + 1] \notin Base64)
              /\ r[1] <= r[2] /\ \A i \in r[1] .. r[2] : w[i] \in Base64
          BY <2>1, <2>2 DEF Runs
        <4>2. r[1] = 2
          <5>1. r[1] # 1
            BY <2>2, <4>1
          <5> QED BY <1>2, <2>2, <4>1, <5>1
        <4>3. r[2] = n + 1
          <5>1. r[2] # n + 1 => r[2] + 1 \in 2 .. n + 1
            BY <1>2, <4>1
          <5> QED BY <2>2, <4>1, <5>1
        <4> QED BY <4>1, <4>2, <4>3
      <3> QED BY <3>1, <3>2
    <2>4. Run(w, run) = blob
      <3> DEFINE u == <<DataURI>>
      <3>1. u \in Seq(Clean) /\ Len(u) = 1
        BY BlobCharacters
      <3> HIDE DEF u
      <3>2. 2 \in Len(u) + 1 .. Len(u) + Len(blob) /\ n + 1 \in Len(u) + 1 .. Len(u) + Len(blob)
            /\ 2 - Len(u) = 1 /\ (n + 1) - Len(u) = Len(blob)
        BY <1>2, <3>1 DEF n
      <3>3. SubSeq(u \o blob, 2, n + 1) = SubSeq(blob, 2 - Len(u), (n + 1) - Len(u))
        <4>1. blob \in Seq(Clean) /\ u \in Seq(Clean)
          BY <1>2, <3>1
        <4>2. \A i, j \in Len(u) + 1 .. Len(u) + Len(blob) :
                SubSeq(u \o blob, i, j) = SubSeq(blob, i - Len(u), j - Len(u))
          BY <4>1, SubSeqOfConcat2
        <4> QED BY <3>2, <4>2
      <3>4. SubSeq(blob, 1, Len(blob)) = blob
        BY <1>2, SubSeqFull
      <3> QED BY <1>6, <3>2, <3>3, <3>4 DEF Run, u
    <2>5. URIs(w) = {run}
      <3>1. run[1] > 1 /\ w[run[1] - 1] = DataURI
        BY <2>1
      <3> HIDE DEF run
      <3> QED BY <2>3, <3>1 DEF URIs
    <2>6. Blobs(w) = {}
      <3>1. Run(w, run) \in SubSeqs(Run(w, run))
        BY <1>2, <2>4, WholeIsPart
      <3> HIDE DEF run
      <3> QED BY <2>3, <2>5, <3>1 DEF Blobs
    <2>7. Payloads(w, {}) = <<>>
      BY <2>1, NoPayloads
    <2>8. Payloads(w, {run}) = p
      <3>1. 2 \in 1 .. Len(w) /\ Run(w, <<2, Len(w)>>) = blob
        BY <1>2, <2>1, <2>4
      <3>2. Payloads(w, {<<2, Len(w)>>}) = <<Space>> \o Payload[Run(w, <<2, Len(w)>>)]
        BY <1>1, <2>1, <3>1, OnePayload
      <3> QED BY <1>1, <2>1, <3>1, <3>2 DEF p
    <2>9. Decoded(w) = (w \o p) \o <<>>
      BY <2>2, <2>5, <2>6, <2>7, <2>8 DEF Decoded
    <2>10. (w \o p) \o <<>> = w \o p
      <3>1. w \o p \in Seq(Characters)
        BY <1>3, <2>2, ConcatProperties
      <3> QED BY <3>1, ConcatEmptySeq
    <2>11. Suspicious(w)
      BY <2>2, <2>5 DEF Suspicious
    <2> QED BY <1>2, <2>1, <2>9, <2>10, <2>11 DEF p
  <1> QED BY <1>1, <1>5, <1>6

-----------------------------------------------------------------------------
\* Payloads are texts: the run that ends at a position is the only one.
LEMMA PayloadsType ==
  ASSUME NEW text \in Seq(Clean), NEW runs \in SUBSET Runs(text)
  PROVE  Payloads(text, runs) \in Seq(Characters)
  <1> DEFINE last(i) == CHOOSE r \in runs : r[2] = i
             piece(i) == IF \E r \in runs : r[2] = i /\ Run(text, r) \in DOMAIN Payload
                         THEN <<Space>> \o Payload[Run(text, last(i))] ELSE <<>>
             pieces == [i \in DOMAIN text |-> piece(i)]
  <1>1. ASSUME NEW q \in runs, NEW r \in runs, q[2] = r[2] PROVE q = r
    <2>1. /\ q \in (1 .. Len(text)) \X (1 .. Len(text)) /\ q[1] <= q[2]
          /\ \A i \in q[1] .. q[2] : text[i] \in Base64
          /\ q[1] = 1 \/ text[q[1] - 1] \notin Base64
      BY DEF Runs
    <2>2. /\ r \in (1 .. Len(text)) \X (1 .. Len(text)) /\ r[1] <= r[2]
          /\ \A i \in r[1] .. r[2] : text[i] \in Base64
          /\ r[1] = 1 \/ text[r[1] - 1] \notin Base64
      BY DEF Runs
    <2>3. ~ (q[1] < r[1])
      <3>1. q[1] < r[1] => r[1] - 1 \in q[1] .. q[2] /\ r[1] # 1
        BY <1>1, <2>1, <2>2
      <3> QED BY <2>1, <2>2, <3>1
    <2>4. ~ (r[1] < q[1])
      <3>1. r[1] < q[1] => q[1] - 1 \in r[1] .. r[2] /\ q[1] # 1
        BY <1>1, <2>1, <2>2
      <3> QED BY <2>1, <2>2, <3>1
    <2>5. q[1] = r[1]
      BY <2>1, <2>2, <2>3, <2>4
    <2> QED BY <1>1, <2>1, <2>2, <2>5
  <1>2. ASSUME NEW i PROVE piece(i) \in Seq(Characters)
    <2>1. CASE ~ \E r \in runs : r[2] = i /\ Run(text, r) \in DOMAIN Payload
      <3>1. piece(i) = <<>> /\ <<>> \in Seq(Characters)
        BY <2>1
      <3> QED BY <3>1
    <2>2. ASSUME NEW r \in runs, r[2] = i, Run(text, r) \in DOMAIN Payload
          PROVE  piece(i) \in Seq(Characters)
      <3>1. last(i) \in runs /\ last(i)[2] = i
        BY <2>2
      <3>2. last(i) = r
        <4> HIDE DEF last
        <4> QED BY <1>1, <2>2, <3>1
      <3> DEFINE p == Payload[Run(text, r)]
      <3>3. piece(i) = <<Space>> \o p
        <4> HIDE DEF last
        <4> QED BY <2>2, <3>2
      <3>4. p \in Seq(Characters)
        BY <2>2, AlphabetAssumption
      <3> HIDE DEF p
      <3>5. <<Space>> \in Seq(Characters)
        BY BlobCharacters
      <3>6. <<Space>> \o p \in Seq(Characters)
        BY <3>4, <3>5, ConcatProperties
      <3> HIDE DEF piece
      <3> QED BY <3>3, <3>6
    <2> HIDE DEF piece
    <2> QED BY <2>1, <2>2
  <1>3. pieces \in Seq(Seq(Characters))
    <2> HIDE DEF piece
    <2>1. DOMAIN text = 1 .. Len(text) /\ Len(text) \in Nat
      OBVIOUS
    <2> QED BY <1>2, <2>1
  <1>4. Payloads(text, runs) = FlattenSeq(pieces)
    BY DEF Payloads
  <1> HIDE DEF pieces
  <1> QED BY <1>3, <1>4, FlattenType

LEMMA DecodedType ==
  ASSUME NEW text \in Seq(Alphabet)
  PROVE  Decoded(text) \in Seq(Characters)
  <1> DEFINE t == Cleaned(text)
             p == Payloads(t, URIs(t))
             q == Payloads(t, Blobs(t))
  <1>1. t \in Seq(Clean)
    BY CleanedType
  <1>2. t \in Seq(Characters)
    BY <1>1, BlobCharacters, SeqMonotonic
  <1>3. p \in Seq(Characters) /\ q \in Seq(Characters)
    <2> HIDE DEF t
    <2>1. URIs(t) \in SUBSET Runs(t) /\ Blobs(t) \in SUBSET Runs(t)
      BY DEF URIs, Blobs
    <2> QED BY <1>1, <2>1, PayloadsType
  <1>4. Decoded(text) = (t \o p) \o q
    BY DEF Decoded
  <1> HIDE DEF t, p, q
  <1>5. t \o p \in Seq(Characters)
    BY <1>2, <1>3, ConcatProperties
  <1>6. (t \o p) \o q \in Seq(Characters)
    BY <1>3, <1>5, ConcatProperties
  <1> QED BY <1>4, <1>6

LEMMA NormalizedType ==
  ASSUME NEW text \in Seq(Characters)
  PROVE  Normalized(text) \in Seq(Characters)
  <1> DEFINE f == Folded(text)
             gone == Superfluous(f)
  <1>1. f \in Seq(Characters)
    <2>1. f \in Seq(Characters \cup Clean)
      BY FoldedProperties
    <2>2. Characters \cup Clean = Characters
      BY BlobCharacters
    <2> QED BY <2>1, <2>2
  <1> HIDE DEF f, gone
  <1>2. Without(f, gone) \in Seq(Characters)
    BY <1>1, WithoutType
  <1> QED BY <1>2 DEF Normalized, f, gone

\* Normalizing what follows a space does not depend on what is before it.
LEMMA NormalizedAfterSpace ==
  ASSUME NEW a \in Seq(Clean), NEW b \in Seq(Characters)
  PROVE  \E c \in Seq(Characters) :
           Normalized(a \o (<<Space>> \o b)) = c \o Normalized(b)
  <1> DEFINE s == <<Space>>
             y == a \o s
             g == Folded(b)
             k == Len(y)
             D == Superfluous(y \o g)
  <1>1. a \in Seq(Characters) /\ s \in Seq(Clean) /\ s \in Seq(Characters) /\ Len(s) = 1
        /\ s[1] = Space
    BY BlobCharacters, SeqMonotonic
  <1>2. y \in Seq(Clean) /\ k = Len(a) + 1 /\ y[k] = Space /\ k \in Nat \ {0} /\ k # 1 - 1
    <2> HIDE DEF s
    <2>1. /\ y \in Seq(Clean) /\ Len(y) = Len(a) + Len(s)
          /\ \A i \in 1 .. Len(a) + Len(s) : y[i] = IF i <= Len(a) THEN a[i] ELSE s[i - Len(a)]
      BY <1>1, ConcatProperties
    <2>2. Len(a) \in Nat /\ Len(a) + 1 \in 1 .. Len(a) + Len(s) /\ ~ (Len(a) + 1 <= Len(a))
          /\ (Len(a) + 1) - Len(a) = 1
      BY <1>1
    <2> HIDE DEF y
    <2> QED BY <1>1, <2>1, <2>2
  <1>3. y \in Seq(Characters)
    <2> HIDE DEF y
    <2> QED BY <1>2, BlobCharacters, SeqMonotonic
  <1>4. g \in Seq(Characters)
    <2>1. g \in Seq(Characters \cup Clean)
      BY FoldedProperties
    <2>2. Characters \cup Clean = Characters
      BY BlobCharacters
    <2> QED BY <2>1, <2>2
  <1>5. a \o (s \o b) = y \o b
    <2> HIDE DEF s
    <2> QED BY <1>1, ConcatAssociative
  <1> HIDE DEF s, y, g, k, D
  <1>6. Folded(y \o b) = y \o g
    <2>1. Folded(y \o b) = Folded(y) \o Folded(b)
      BY <1>3, FoldedConcat
    <2>2. Folded(y) = y
      BY <1>2, CleanStays
    <2> QED BY <2>1, <2>2 DEF g
  <1>7. Without(y \o g, D) = Without(y, D) \o Without(g, Beyond(k, D))
    BY <1>3, <1>4, WithoutConcat DEF k
  <1>8. /\ DOMAIN (y \o g) = 1 .. k + Len(g) /\ Len(y \o g) = k + Len(g) /\ Len(g) \in Nat
        /\ \A i \in 1 .. k + Len(g) : (y \o g)[i] = IF i <= k THEN y[i] ELSE g[i - k]
    <2>1. /\ y \o g \in Seq(Characters) /\ Len(y \o g) = Len(y) + Len(g)
          /\ \A i \in 1 .. Len(y) + Len(g) :
               (y \o g)[i] = IF i <= Len(y) THEN y[i] ELSE g[i - Len(y)]
      BY <1>3, <1>4, ConcatProperties
    <2>2. DOMAIN (y \o g) = 1 .. Len(y \o g) /\ Len(g) \in Nat
      BY <1>4, <2>1, LenProperties
    <2> QED BY <2>1, <2>2 DEF k
  <1> DEFINE whole == y \o g
  <1>9. ASSUME NEW i \in 1 .. Len(g) PROVE i \in Beyond(k, D) <=> i \in Superfluous(g)
    <2> HIDE DEF whole
    <2>1. /\ k + i \in 1 .. k + Len(g) /\ ~ (k + i <= k) /\ (k + i) - k = i /\ i \in Nat
          /\ k + i # 1
      BY <1>2, <1>8
    <2>2. DOMAIN whole = 1 .. k + Len(g) /\ Len(whole) = k + Len(g)
          /\ \A j \in 1 .. k + Len(g) : whole[j] = IF j <= k THEN y[j] ELSE g[j - k]
      BY <1>8 DEF whole
    <2>3. whole[k + i] = g[i]
      BY <2>1, <2>2
    <2>4. whole[(k + i) - 1] = Space <=> i = 1 \/ g[i - 1] = Space
      <3>1. CASE i = 1
        <4>1. (k + i) - 1 = k /\ k \in 1 .. k + Len(g) /\ k <= k
          BY <1>2, <1>8, <3>1
        <4> QED BY <1>2, <2>2, <3>1, <4>1
      <3>2. CASE i # 1
        <4>1. (k + i) - 1 \in 1 .. k + Len(g) /\ ~ ((k + i) - 1 <= k)
              /\ ((k + i) - 1) - k = i - 1
          BY <1>2, <1>8, <3>2
        <4> QED BY <2>2, <3>2, <4>1
      <3> QED BY <3>1, <3>2
    <2>5. (\A j \in k + i .. Len(whole) : whole[j] = Space) <=> (\A j \in i .. Len(g) : g[j] = Space)
      <3>1. ASSUME \A j \in k + i .. Len(whole) : whole[j] = Space, NEW j \in i .. Len(g)
            PROVE  g[j] = Space
        <4>1. k + j \in k + i .. Len(whole) /\ k + j \in 1 .. k + Len(g) /\ ~ (k + j <= k)
              /\ (k + j) - k = j
          BY <1>2, <1>8, <2>2
        <4> QED BY <2>2, <3>1, <4>1
      <3>2. ASSUME \A j \in i .. Len(g) : g[j] = Space, NEW j \in k + i .. Len(whole)
            PROVE  whole[j] = Space
        <4>1. j - k \in i .. Len(g) /\ j \in 1 .. k + Len(g) /\ ~ (j <= k)
          BY <1>2, <1>8, <2>2
        <4> QED BY <2>2, <3>2, <4>1
      <3> QED BY <3>1, <3>2
    <2>6. i \in Beyond(k, D) <=> k + i \in Superfluous(whole)
      BY <2>1 DEF Beyond, D, whole
    <2>7. k + i \in Superfluous(whole)
            <=> whole[k + i] = Space /\ (\/ whole[(k + i) - 1] = Space
                                        \/ \A j \in k + i .. Len(whole) : whole[j] = Space)
      BY <2>1, <2>2 DEF Superfluous
    <2>8. i \in Superfluous(g)
            <=> g[i] = Space /\ (\/ i = 1 \/ g[i - 1] = Space
                                \/ \A j \in i .. Len(g) : g[j] = Space)
      BY <1>4 DEF Superfluous
    <2> QED BY <2>3, <2>4, <2>5, <2>6, <2>7, <2>8
  <1>10. Without(g, Beyond(k, D)) = Without(g, Superfluous(g))
    <2> DEFINE E == Beyond(k, D)
               F == Superfluous(g)
    <2>1. \A i \in 1 .. Len(g) : i \in E <=> i \in F
      BY <1>9
    <2> HIDE DEF E, F
    <2>2. Without(g, E) = Without(g, F)
      BY <1>4, <2>1, WithoutSame
    <2> QED BY <2>2 DEF E, F
  <1>11. Without(y, D) \in Seq(Characters)
    BY <1>3, WithoutType
  <1>12. Normalized(a \o (s \o b)) = Without(y, D) \o Normalized(b)
    BY <1>5, <1>6, <1>7, <1>10 DEF Normalized, D, g
  <1> QED BY <1>11, <1>12 DEF s

\* A part of the rest is a part of the whole.
LEMMA PartOfRest ==
  ASSUME NEW S, NEW a \in Seq(S), NEW b \in Seq(S), NEW part \in SubSeqs(b)
  PROVE  part \in SubSeqs(a \o b)
  <1>1. PICK i \in 0 .. Len(b), j \in 0 .. Len(b) : part = SubSeq(b, i + 1, j)
    BY DEF SubSeqs
  <1>2. Len(a) \in Nat /\ Len(b) \in Nat /\ Len(a \o b) = Len(a) + Len(b)
    BY ConcatProperties, LenProperties
  <1> DEFINE whole == a \o b
  <1>3. \A m, n \in 0 .. Len(whole) : SubSeq(whole, m + 1, n) \in SubSeqs(whole)
    <2> HIDE DEF whole
    <2> QED BY DEF SubSeqs
  <1>4. CASE i + 1 <= j
    <2>1. /\ Len(a) + (i + 1) \in Len(a) + 1 .. Len(a) + Len(b)
          /\ Len(a) + j \in Len(a) + 1 .. Len(a) + Len(b)
          /\ (Len(a) + (i + 1)) - Len(a) = i + 1 /\ (Len(a) + j) - Len(a) = j
          /\ Len(a) + (i + 1) = (Len(a) + i) + 1
          /\ Len(a) + i \in 0 .. Len(a) + Len(b) /\ Len(a) + j \in 0 .. Len(a) + Len(b)
      BY <1>2, <1>4
    <2>2. \A m, n \in Len(a) + 1 .. Len(a) + Len(b) :
            SubSeq(a \o b, m, n) = SubSeq(b, m - Len(a), n - Len(a))
      BY SubSeqOfConcat2
    <2>3. SubSeq(a \o b, (Len(a) + i) + 1, Len(a) + j) = part
      BY <1>1, <2>1, <2>2
    <2> QED BY <1>2, <1>3, <2>1, <2>3
  <1>5. CASE ~ (i + 1 <= j)
    <2>1. part = <<>>
      BY <1>1, <1>2, <1>5, SubSeqEmpty
    <2>2. SubSeq(a \o b, 0 + 1, 0) = <<>> /\ 0 \in 0 .. Len(a \o b)
      BY <1>2, SubSeqEmpty
    <2> QED BY <1>3, <2>1, <2>2
  <1> QED BY <1>4, <1>5

\* What is matched against is made of characters, and has classes.
LEMMA CleartextType ==
  ASSUME NEW text \in Seq(Characters)
  PROVE  Cleartext(text) \in Seq(Characters) /\ ClassSeq(Cleartext(text)) \in Seq(Int)
  <1> DEFINE clear == Cleartext(text)
             classes == [i \in DOMAIN clear |-> Class[clear[i]]]
  <1>1. clear \in Seq(Characters)
    <2>1. text \in Seq(Alphabet)
      BY DEF Alphabet
    <2> QED BY <2>1, DecodedType, NormalizedType DEF Cleartext
  <1> HIDE DEF clear
  <1>2. classes \in Seq(Seq(Int))
    <2>1. \A i \in 1 .. Len(clear) : classes[i] \in Seq(Int)
      BY <1>1, TextsAssumption
    <2>2. classes = [i \in 1 .. Len(clear) |-> classes[i]] /\ Len(clear) \in Nat
      BY <1>1
    <2> HIDE DEF classes
    <2> QED BY <2>1, <2>2
  <1> HIDE DEF classes
  <1>3. FlattenSeq(classes) \in Seq(Int)
    BY <1>2, FlattenType
  <1> QED BY <1>1, <1>3 DEF clear, classes, ClassSeq

-----------------------------------------------------------------------------
(* The spectrum of a collapsed text.                                        *)

\* A matrix of order three with zeros outside one row and one column is singular.
LEMMA ZeroBlock ==
  ASSUME NEW d \in [1 .. 3 -> [1 .. 3 -> Int]], NEW row \in 1 .. 3, NEW col \in 1 .. 3,
         \A i, j \in 1 .. 3 : i # row /\ j # col => d[i][j] = 0
  PROVE  d[1][1] * (d[2][2] * d[3][3] - d[2][3] * d[3][2])
           - d[1][2] * (d[2][1] * d[3][3] - d[2][3] * d[3][1])
           + d[1][3] * (d[2][1] * d[3][2] - d[2][2] * d[3][1]) = 0
  <1> DEFINE Product(i, j, k) == d[1][i] * (d[2][j] * d[3][k])
  <1>1. \A x, y, z \in Int : x = 0 \/ y = 0 \/ z = 0 => x * (y * z) = 0
    OBVIOUS
  <1>2. \A i, j, k \in 1 .. 3 : i # j /\ j # k /\ i # k => Product(i, j, k) = 0
    <2> SUFFICES ASSUME NEW i \in 1 .. 3, NEW j \in 1 .. 3, NEW k \in 1 .. 3,
                        i # j, j # k, i # k
                 PROVE  Product(i, j, k) = 0
      OBVIOUS
    <2>1. d[1][i] \in Int /\ d[2][j] \in Int /\ d[3][k] \in Int
      OBVIOUS
    <2>2. d[1][i] = 0 \/ d[2][j] = 0 \/ d[3][k] = 0
      OBVIOUS
    <2> QED BY <1>1, <2>1, <2>2
  <1>3. \A x, y, z, u, v \in Int : x * (y * z - u * v) = x * (y * z) - x * (u * v)
    OBVIOUS
  <1>4. \A i, j \in 1 .. 3 : d[i][j] \in Int
    OBVIOUS
  <1>5. ASSUME NEW i \in 1 .. 3, NEW j \in 1 .. 3, NEW k \in 1 .. 3
        PROVE  d[1][i] * (d[2][j] * d[3][k] - d[2][k] * d[3][j])
                 = Product(i, j, k) - Product(i, k, j)
    <2>1. /\ d[1][i] \in Int /\ d[2][j] \in Int /\ d[3][k] \in Int
          /\ d[2][k] \in Int /\ d[3][j] \in Int
      BY <1>4
    <2> QED BY <1>3, <2>1
  <1> HIDE DEF Product
  <1> QED BY <1>2, <1>5

\* Where every adjacent pair holds one class, all others meet in zeros only.
LEMMA HubCollapses ==
  ASSUME NEW s \in Seq(Int), NEW hub \in ToSet(s),
         \A i \in 1 .. Len(s) - 1 : hub \in {s[i], s[i + 1]}
  PROVE  Collapsed(s)
  <1> DEFINE m == Cooccurrence(s)
             triples == {t \in ToSet(s) \X ToSet(s) \X ToSet(s) : Ordered(t)}
  <1>1. ToSet(s) \subseteq Int
    BY DEF ToSet
  <1>2. ASSUME NEW a \in ToSet(s), NEW b \in ToSet(s)
        PROVE  m[a][b] \in Int /\ (a # hub /\ b # hub => m[a][b] = 0)
    <2> DEFINE At(x, y) == {i \in 1 .. Len(s) - 1 : s[i] = x /\ s[i + 1] = y}
    <2>1. \A x, y : IsFiniteSet(At(x, y)) /\ Cardinality(At(x, y)) \in Nat
      <3> SUFFICES ASSUME NEW x, NEW y
                   PROVE  IsFiniteSet(At(x, y)) /\ Cardinality(At(x, y)) \in Nat
        OBVIOUS
      <3>1. IsFiniteSet(1 .. Len(s) - 1) /\ At(x, y) \in SUBSET (1 .. Len(s) - 1)
        BY FS_Interval
      <3>2. IsFiniteSet(At(x, y))
        BY <3>1, FS_Subset
      <3> QED BY <3>2, FS_CardinalityType
    <2>2. a # hub /\ b # hub => At(a, b) = {} /\ At(b, a) = {}
      OBVIOUS
    <2>3. m[a][b] = Adjacent(s, a, b) + Adjacent(s, b, a)
      BY DEF Cooccurrence
    <2>4. Adjacent(s, a, b) = Cardinality(At(a, b)) /\ Adjacent(s, b, a) = Cardinality(At(b, a))
      BY DEF Adjacent
    <2> HIDE DEF m, At
    <2> QED BY <2>1, <2>2, <2>3, <2>4, FS_EmptySet
  <1>3. ASSUME NEW r \in triples, NEW c \in triples PROVE Minor(m, r, c) = 0
    <2> HIDE DEF m
    <2>1. /\ r[1] \in ToSet(s) /\ r[2] \in ToSet(s) /\ r[3] \in ToSet(s)
          /\ c[1] \in ToSet(s) /\ c[2] \in ToSet(s) /\ c[3] \in ToSet(s)
          /\ r[1] < r[2] /\ r[2] < r[3] /\ c[1] < c[2] /\ c[2] < c[3]
      BY DEF Ordered
    <2>2. /\ r[1] # r[2] /\ r[2] # r[3] /\ r[1] # r[3]
          /\ c[1] # c[2] /\ c[2] # c[3] /\ c[1] # c[3]
      BY <1>1, <2>1
    <2>3. PICK row \in 1 .. 3 : \A i \in 1 .. 3 : i # row => r[i] # hub
      BY <2>2
    <2>4. PICK col \in 1 .. 3 : \A j \in 1 .. 3 : j # col => c[j] # hub
      BY <2>2
    <2> DEFINE d == [i \in 1 .. 3 |-> [j \in 1 .. 3 |-> m[r[i]][c[j]]]]
    <2>5. \A i, j \in 1 .. 3 : m[r[i]][c[j]] \in Int
                               /\ (r[i] # hub /\ c[j] # hub => m[r[i]][c[j]] = 0)
      BY <1>2, <2>1
    <2>6. d \in [1 .. 3 -> [1 .. 3 -> Int]]
          /\ \A i, j \in 1 .. 3 : i # row /\ j # col => d[i][j] = 0
      BY <2>3, <2>4, <2>5
    <2>7. \A i, j \in 1 .. 3 : m[r[i]][c[j]] = d[i][j]
      OBVIOUS
    <2>8. Minor(m, r, c)
            = d[1][1] * (d[2][2] * d[3][3] - d[2][3] * d[3][2])
              - d[1][2] * (d[2][1] * d[3][3] - d[2][3] * d[3][1])
              + d[1][3] * (d[2][1] * d[3][2] - d[2][2] * d[3][1])
      <3> HIDE DEF d
      <3> QED BY <2>7 DEF Minor
    <2> HIDE DEF d
    <2> QED BY <2>6, <2>8, ZeroBlock
  <1> QED BY <1>3 DEF Collapsed

LEMMA ThreeElements ==
  ASSUME NEW S, IsFiniteSet(S), NEW x \in S, NEW y \in S, NEW z \in S,
         x # y, y # z, x # z
  PROVE  Cardinality(S) \in Nat /\ Cardinality(S) >= 3
  <1> DEFINE A == S \ {x}
             B == A \ {y}
             C == B \ {z}
  <1>1. IsFiniteSet(A) /\ Cardinality(A) = Cardinality(S) - 1
    BY FS_RemoveElement
  <1>2. IsFiniteSet(B) /\ Cardinality(B) = Cardinality(A) - 1
    <2> y \in A
      OBVIOUS
    <2> HIDE DEF A
    <2> QED BY <1>1, FS_RemoveElement
  <1>3. IsFiniteSet(C) /\ Cardinality(C) = Cardinality(B) - 1
    <2> z \in B
      OBVIOUS
    <2> HIDE DEF B
    <2> QED BY <1>2, FS_RemoveElement
  <1>4. Cardinality(S) \in Nat /\ Cardinality(C) \in Nat
    BY <1>3, FS_CardinalityType
  <1> HIDE DEF A, B, C
  <1> QED BY <1>1, <1>2, <1>3, <1>4

\* With two classes there are no minors of order three.
LEMMA FewClassesCollapse ==
  ASSUME NEW s \in Seq(Int), Cardinality(ToSet(s)) <= 2
  PROVE  Collapsed(s)
  <1> SUFFICES ASSUME NEW t \in ToSet(s) \X ToSet(s) \X ToSet(s), Ordered(t) PROVE FALSE
    BY DEF Collapsed
  <1>1. ToSet(s) \subseteq Int
    BY DEF ToSet
  <1>2. IsFiniteSet(ToSet(s))
    <2>1. s \in Surjection(DOMAIN s, ToSet(s))
      BY DEF Surjection, ToSet
    <2>2. IsFiniteSet(DOMAIN s)
      BY FS_Interval
    <2> QED BY <2>1, <2>2, FS_Surjection
  <1>3. t[1] \in ToSet(s) /\ t[2] \in ToSet(s) /\ t[3] \in ToSet(s)
        /\ t[1] # t[2] /\ t[2] # t[3] /\ t[1] # t[3]
    BY <1>1 DEF Ordered
  <1>4. Cardinality(ToSet(s)) >= 3 /\ Cardinality(ToSet(s)) \in Nat
    BY <1>2, <1>3, ThreeElements
  <1> QED BY <1>4

\* A text of two classes, or around one, is never simply allowed, however long it
\* is and whatever its characters.
THEOREM CollapseIsAlwaysNoticed == Spec => []CollapseIsNoticed
  <1>1. PhasesInv /\ EvaluatedInv => CollapseIsNoticed
    <2> DEFINE clear == Cleartext(request.text)
               classes == ClassSeq(clear)
    <2> SUFFICES ASSUME PhasesInv, EvaluatedInv, Evaluated, Len(classes) >= 3,
                        \/ Cardinality(ToSet(classes)) <= 2
                        \/ \E hub \in ToSet(classes) : \A i \in 1 .. Len(classes) - 1 :
                             hub \in {classes[i], classes[i + 1]}
                 PROVE  verdict # "ALLOW"
      BY DEF CollapseIsNoticed
    <2>1. classes \in Seq(Int)
      <3>1. request.text \in Seq(Characters)
        BY TextsAssumption DEF PhasesInv, request
      <3> QED BY <3>1, CleartextType
    <2>2. Collapsed(classes)
      <3> HIDE DEF classes
      <3> QED BY <2>1, HubCollapses, FewClassesCollapse
    <2>3. Drifts(clear)
      BY <2>2 DEF Drifts
    <2>4. found.drift
      BY <2>3 DEF EvaluatedInv, Findings, Reading
    <2>5. Numeric(found)
      BY FoundIsNumeric
    <2>6. Scout(found) \in Nat /\ Scout(found) >= 2700
      <3>1. Signal(found.drift, 2700) = 2700
        BY <2>4 DEF Signal
      <3> QED BY <3>1, <2>5, ScoutScore
    <2>7. \A n \in Nat : Severity[Hint(n)] \in 1 .. 3 /\ (n >= 2700 => Severity[Hint(n)] >= 2)
      BY DEF Severity, Hint, BLOCK_THRESHOLD, OBSERVE_THRESHOLD
    <2>8. Severity[Hint(Combined(found))] >= 2
      BY <2>5, <2>6, <2>7, ScoreTypes, HintOfCombined
    <2>9. verdict = "BLOCK" \/ verdict = Hint(Combined(found))
      BY DEF EvaluatedInv, Ruling, Judge
    <2> QED BY <2>8, <2>9 DEF Severity
  <1> QED BY <1>1, EvaluatedInvariant, PTL

-----------------------------------------------------------------------------
(* Saying it in disguise.                                                   *)

\* A text that is not disguised is only folded and normalized.
LEMMA CleartextOfUndisguised ==
  ASSUME NEW text \in Seq(Characters), Undisguised(text)
  PROVE  Cleartext(text) = Normalized(text)
  <1> DEFINE f == Folded(text)
  <1>1. text \in Seq(Alphabet)
    BY DEF Alphabet
  <1>2. Cleaned(text) = f /\ Decoded(text) = f
    BY DEF Undisguised, Cleaned
  <1>3. f \in Seq(Clean)
    <2> HIDE DEF f
    <2> QED BY <1>1, <1>2, CleanedType
  <1>4. Folded(f) = f
    <2> HIDE DEF f
    <2> QED BY <1>3, CleanStays
  <1> QED BY <1>2, <1>4 DEF Cleartext, Normalized

\* A disguise is noticed, and what it says is heard.
LEMMA HiddenIsHeard ==
  ASSUME NEW text \in Seq(Characters), NEW t \in Hidden(text)
  PROVE  Reading(t).obfuscated /\ (Reading(text).heard => Reading(t).heard)
  <1>1. Cleaned(t) = Cleaned(text) /\ Suspicious(t)
    BY HiddenIsCleaned
  <1>2. Cleartext(t) = Cleartext(text)
    BY <1>1 DEF Cleartext, Decoded
  <1> QED BY <1>1, <1>2 DEF Reading

LEMMA WrappedIsHeard ==
  ASSUME NEW text, Undisguised(text), NEW w \in Wrapped(text)
  PROVE  /\ w \in Seq(Characters)
         /\ Reading(w).obfuscated /\ (Reading(text).heard => Reading(w).heard)
  <1>1. /\ w \in Seq(Clean) /\ text \in Seq(Characters) /\ Suspicious(w)
        /\ Decoded(w) = w \o (<<Space>> \o text)
    BY WrappedIsDecoded
  <1>2. PICK c \in Seq(Characters) : Cleartext(w) = c \o Normalized(text)
    <2>1. \E c \in Seq(Characters) : Normalized(w \o (<<Space>> \o text)) = c \o Normalized(text)
      BY <1>1, NormalizedAfterSpace
    <2> QED BY <1>1, <2>1 DEF Cleartext
  <1>3. Cleartext(text) = Normalized(text) /\ Normalized(text) \in Seq(Characters)
    BY <1>1, CleartextOfUndisguised, NormalizedType
  <1>4. Phrase \in SubSeqs(Cleartext(text)) => Phrase \in SubSeqs(Cleartext(w))
    BY <1>2, <1>3, PartOfRest
  <1>5. w \in Seq(Characters)
    BY <1>1, BlobCharacters, SeqMonotonic
  <1> QED BY <1>1, <1>4, <1>5 DEF Reading

\* What is found in a disguised request is no better than what was found plainly,
\* except for the drift, which the words around a blob may hide, and for code in the
\* action itself.
LEMMA FindingsGrow ==
  ASSUME PhasesInv, NEW p, NEW q, q.obfuscated, p.heard => q.heard
  PROVE  LET r == [Findings(request, p) EXCEPT !.code = Dangerous(request.code)]
         IN  Numeric(r) /\ NoBetter(r, Findings(request, q))
  <1> DEFINE r == [Findings(request, p) EXCEPT !.code = Dangerous(request.code)]
             s == Findings(request, q)
             says(x) == IF x.heard THEN request.says ELSE Nothing
  <1>1. request.says \in Words
    BY CasesAssumption DEF PhasesInv, request
  <1>2. /\ s.deny = r.deny /\ s.principal = r.principal /\ s.declared = r.declared
        /\ s.cost = r.cost /\ s.ceiling = r.ceiling /\ s.requested = r.requested
        /\ r.code = Dangerous(request.code) /\ s.code = Dangerous(Scanned(request, q))
        /\ s.obfuscated
    BY DEF Findings
  <1>3. r.code => s.code
    <2>1. ~ Dangerous(NoCode)
      BY DEF Dangerous, Found, NoCode
    <2>2. request.code # NoCode => Scanned(request, q) = request.code
      BY DEF Scanned
    <2> HIDE DEF r, s
    <2> QED BY <1>2, <2>1, <2>2
  <1>4. Numeric(r)
    <2>1. Numeric(Findings(request, p))
      BY FindingsAreNumeric
    <2>2. /\ r.scores = Findings(request, p).scores /\ r.pattern = Findings(request, p).pattern
          /\ r.ratchets = Findings(request, p).ratchets /\ r.priv = Findings(request, p).priv
      BY DEF Findings
    <2> HIDE DEF r
    <2> QED BY <2>1, <2>2 DEF Numeric
  <1>5. \A x : LET f == Findings(request, x) IN
          /\ f.scores = says(x).scores /\ f.pattern = says(x).pattern
          /\ f.ratchets = says(x).ratchets /\ f.priv = says(x).priv
          /\ f.bound = says(x).bound
    BY DEF Findings
  <1>6. CASE p.heard
    <2>1. says(p) = says(q) /\ says(p) \in Words
      BY <1>1, <1>6
    <2> HIDE DEF says
    <2>2. /\ s.scores = r.scores /\ s.bound = r.bound
          /\ r.pattern <= s.pattern /\ r.ratchets <= s.ratchets /\ r.priv <= s.priv
      BY <1>5, <2>1 DEF Words
    <2> HIDE DEF r, s
    <2>3. /\ r.scores \in [Categories -> Nat]
          /\ TopScore(s) = TopScore(r) /\ TopCategory(s) = TopCategory(r)
      BY <1>4, <2>2 DEF Numeric, TopScore, TopCategory
    <2>4. TopScore(r) <= TopScore(s) /\ (Denied(r) => Denied(s))
      <3>1. TopScore(r) \in Nat
        BY <2>3, BestScore
      <3> QED BY <1>2, <2>3, <3>1 DEF Denied
    <2> QED BY <1>2, <1>3, <1>4, <2>2, <2>4 DEF NoBetter, r, s
  <1>7. CASE ~ p.heard
    <2>1. says(p) = Nothing /\ says(q) \in Words
      <3>1. Nothing \in Words
        BY DEF Nothing, Words
      <3> QED BY <1>1, <1>7, <3>1
    <2> HIDE DEF says
    <2>2. /\ r.scores = [c \in Categories |-> 0] /\ ~ r.bound
          /\ r.pattern = 0 /\ r.ratchets = 0 /\ r.priv = 0
          /\ s.pattern \in Nat /\ s.ratchets \in Nat /\ s.priv \in Nat
      BY <1>5, <2>1 DEF Words, Nothing
    <2> HIDE DEF r, s
    <2>3. TopScore(r) = 0
      <3>1. {r.scores[c] : c \in Categories} = {0}
        BY <2>2, CategoriesAssumption DEF Categories
      <3>2. Max({0}) = 0
        BY DEF Max
      <3> QED BY <3>1, <3>2 DEF TopScore
    <2>4. r.pattern <= s.pattern /\ r.ratchets <= s.ratchets /\ r.priv <= s.priv
      BY <2>2
    <2>5. TopScore(r) <= TopScore(s) /\ ~ Denied(r)
      <3>1. TopScore(s) \in Nat
        <4>1. Numeric(s)
          BY FindingsAreNumeric DEF s
        <4> QED BY <4>1, BestScore DEF Numeric
      <3> QED BY <2>3, <3>1 DEF Denied
    <2> QED BY <1>2, <1>3, <1>4, <2>2, <2>4, <2>5 DEF NoBetter, r, s
  <1> QED BY <1>6, <1>7

\* So the verdict on it is no milder, and at least to observe.
LEMMA DisguiseIsRuled ==
  ASSUME PhasesInv, EvaluatedInv, Evaluated, NEW reading,
         reading.obfuscated, Reading(request.text).heard => reading.heard
  PROVE  Severity[Ruling(Findings(request, reading), objections)]
           >= Max({Severity[VerdictOfWords], Severity["OBSERVE"]})
  <1> DEFINE r == [Findings(request, Reading(request.text))
                     EXCEPT !.code = Dangerous(request.code)]
             q == Findings(request, reading)
  <1>1. Numeric(r) /\ Numeric(q) /\ NoBetter(r, q)
    BY FindingsAreNumeric, FindingsGrow
  <1>2. Objections(r) = objections /\ Objections(q) = objections
    <2>1. objections = Objections(request)
      BY DEF PhasesInv, Evaluated
    <2>2. /\ r.requested = request.requested /\ q.requested = request.requested
          /\ r.principal = request.principal /\ q.principal = request.principal
          /\ r.declared = request.declared /\ q.declared = request.declared
      BY DEF Findings
    <2> HIDE DEF r, q
    <2> QED BY <2>1, <2>2 DEF Objections, Declared
  <1>3. VerdictOfWords = Ruling(r, objections)
    BY DEF EvaluatedInv, VerdictOfWords
  <1>4. q.obfuscated
    BY DEF Findings
  <1> HIDE DEF r, q
  <1>5. Severity[Ruling(r, objections)] <= Severity[Ruling(q, objections)]
    <2>1. Severity[Ruling(r, Objections(r))] <= Severity[Ruling(q, Objections(q))]
      BY <1>1, RulingGrows
    <2> QED BY <1>2, <2>1
  <1>6. Severity[Ruling(q, objections)] >= Severity["OBSERVE"]
    <2>1. Scout(q) \in Nat /\ Scout(q) >= 2400
      <3>1. Signal(q.obfuscated, 2400) = 2400
        BY <1>4 DEF Signal
      <3> QED BY <1>1, <3>1, ScoutScore
    <2>2. \A n \in Nat : Severity[Hint(n)] \in 1 .. 3 /\ (n >= 2400 => Severity[Hint(n)] >= 2)
      BY DEF Severity, Hint, BLOCK_THRESHOLD, OBSERVE_THRESHOLD
    <2>3. Severity[Hint(Combined(q))] >= 2
      BY <1>1, <2>1, <2>2, ScoreTypes, HintOfCombined
    <2>4. Ruling(q, objections) = "BLOCK" \/ Ruling(q, objections) = Hint(Combined(q))
      BY DEF Ruling, Judge
    <2> QED BY <2>3, <2>4 DEF Severity
  <1>7. /\ Severity[Ruling(r, objections)] \in Nat /\ Severity[Ruling(q, objections)] \in Nat
        /\ Severity["OBSERVE"] \in Nat
    BY RulingIsVerdict DEF Severity
  <1>8. Max({Severity[Ruling(r, objections)], Severity["OBSERVE"]})
          \in {Severity[Ruling(r, objections)], Severity["OBSERVE"]}
    BY <1>7, MaxOfTwo
  <1> QED BY <1>3, <1>5, <1>6, <1>7, <1>8 DEF q

\* Saying the same in disguise, whether with invisible characters, look-alikes, as
\* a blob, a data URI, or a blob disguised in turn, is never simply allowed and never
\* ruled milder than without the scan of the action itself, which goes by the text as
\* it was sent (scout.py, line 61), for any alphabet, payloads, programs and policy.
THEOREM DisguiseCanNeverHelp == Spec => []DisguiseNeverHelps
  <1>1. PhasesInv /\ EvaluatedInv => DisguiseNeverHelps
    <2> SUFFICES ASSUME PhasesInv, EvaluatedInv, Evaluated,
                        request.text \in DOMAIN DisguisedReadings,
                        NEW reading \in DisguisedReadings[request.text]
                 PROVE  Severity[Ruling(Findings(request, reading), objections)]
                          >= Max({Severity[VerdictOfWords], Severity["OBSERVE"]})
      BY DEF DisguiseNeverHelps
    <2> DEFINE text == request.text
    <2>1. Undisguised(text) /\ text \in Seq(Characters)
      BY TextsAssumption DEF DisguisedReadings, PhasesInv, request
    <2>2. PICK t \in Disguises(text) : reading = Reading(t)
      BY DEF DisguisedReadings
    <2> HIDE DEF text
    <2>3. reading.obfuscated /\ (Reading(text).heard => reading.heard)
      <3>1. CASE t \in Hidden(text)
        BY <2>1, <2>2, <3>1, HiddenIsHeard
      <3>2. CASE t \in Wrapped(text)
        BY <2>1, <2>2, <3>2, WrappedIsHeard
      <3>3. ASSUME NEW w \in Wrapped(text), t \in Hidden(w)
            PROVE  reading.obfuscated /\ (Reading(text).heard => reading.heard)
        <4>1. w \in Seq(Characters) /\ (Reading(text).heard => Reading(w).heard)
          BY <2>1, WrappedIsHeard
        <4>2. Reading(t).obfuscated /\ (Reading(w).heard => Reading(t).heard)
          BY <3>3, <4>1, HiddenIsHeard
        <4> QED BY <2>2, <4>1, <4>2
      <3> QED BY <3>1, <3>2, <3>3 DEF Disguises
    <2> QED BY <2>3, DisguiseIsRuled DEF text
  <1> QED BY <1>1, EvaluatedInvariant, PTL

\* Of invisible characters and look-alikes the same is true for every text, one
\* that is disguised already included.
HidingNeverHelps ==
    Evaluated =>
        \A t \in Hidden(request.text) :
            LET disguised == Ruling(Findings(request, Reading(t)), objections) IN
            Severity[disguised] >= Max({Severity[VerdictOfWords], Severity["OBSERVE"]})

THEOREM HidingCanNeverHelp == Spec => []HidingNeverHelps
  <1>1. PhasesInv /\ EvaluatedInv => HidingNeverHelps
    <2> SUFFICES ASSUME PhasesInv, EvaluatedInv, Evaluated, NEW t \in Hidden(request.text)
                 PROVE  Severity[Ruling(Findings(request, Reading(t)), objections)]
                          >= Max({Severity[VerdictOfWords], Severity["OBSERVE"]})
      BY DEF HidingNeverHelps
    <2>1. request.text \in Seq(Characters)
      BY TextsAssumption DEF PhasesInv, request
    <2> DEFINE reading == Reading(t)
    <2>2. reading.obfuscated /\ (Reading(request.text).heard => reading.heard)
      BY <2>1, HiddenIsHeard
    <2> HIDE DEF reading
    <2>3. Severity[Ruling(Findings(request, reading), objections)]
            >= Max({Severity[VerdictOfWords], Severity["OBSERVE"]})
      BY <2>2, DisguiseIsRuled
    <2> QED BY <2>3 DEF reading
  <1> QED BY <1>1, EvaluatedInvariant, PTL
=============================================================================
