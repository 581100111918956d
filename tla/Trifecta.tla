------------------------------- MODULE Trifecta -------------------------------
(***************************************************************************)
(* Trifecta.evaluate: Scout, Nitpicker and Judge turn what the detectors   *)
(* find in a request into a verdict.  The detectors' text matching is      *)
(* abstracted to what it finds; the scoring, which is spread over five     *)
(* files, is modelled as it is.  An argument r is what was found in a      *)
(* request, with what it asks for and the policy's deny-list and ceiling.  *)
(*                                                                         *)
(* Scores are the floats of the code times Unit, which makes each of them  *)
(* a whole number; a category's score is in hundredths.  The categories    *)
(* are numbered in the order of _LEXICON.                                  *)
(***************************************************************************)
EXTENDS Naturals, FiniteSetsExt

CONSTANTS
    NumCategories,  \* the number of intent categories
    Unsaid          \* a cost, a ceiling or a declaration that was left out

Unit == 6000
BLOCK_THRESHOLD == 4200
OBSERVE_THRESHOLD == 1800

Categories == 1 .. NumCategories

ASSUME CategoriesAssumption == NumCategories \in Nat \ {0}

AtMostOne(score) == IF score > Unit THEN Unit ELSE score

\* verdict_hint of Scout and of Nitpicker; Judge has the same two thresholds.
Hint(score) ==
    IF score >= BLOCK_THRESHOLD THEN "BLOCK"
    ELSE IF score >= OBSERVE_THRESHOLD THEN "OBSERVE" ELSE "ALLOW"

\* narrow: the best-scoring category, the first of them on a tie.
TopScore(r) == Max({r.scores[c] : c \in Categories})
TopCategory(r) == Min({c \in Categories : r.scores[c] = TopScore(r)})

\* What a signal adds when it is there.
Signal(present, score) == IF present THEN score ELSE 0

\* Scout.inspect: the worst of obfuscation, intent, code and spectral drift.
Scout(r) ==
    Max({Signal(r.obfuscated, 2400),
         Signal(TopScore(r) > 0, AtMostOne(1800 + 9 * TopScore(r))),
         Signal(r.code, 4200),
         Signal(r.drift, 2700)})

\* escalation_probe.probe: connectors, and privilege verbs and nouns.
AtMost(n, k) == IF n > k THEN k ELSE n
Escalation_Sum(r) == 700 * AtMost(r.priv, 3) + 650 * AtMost(r.ratchets + r.priv, 6)
Escalation(r) == 700 * AtMost(r.priv, 3) + 650 * AtMost(r.ratchets * r.priv, 6)
Escalating(r) == Escalation(r) >= 3000

\* Nitpicker.recheck: the worst pattern and the escalation gradient; a finding
\* in an obfuscated request is aggravated.
Nitpicker_LastWins(r) ==
    LET found == r.pattern > 0 \/ Escalating(r)
        last == IF Escalating(r) THEN Escalation(r) ELSE r.pattern
    IN  IF found /\ r.obfuscated THEN AtMostOne(last + 900) ELSE last
Nitpicker(r) ==
    LET found == r.pattern > 0 \/ Escalating(r)
        worst == Max({r.pattern, Signal(Escalating(r), Escalation(r))})
    IN  IF found /\ r.obfuscated THEN AtMostOne(worst + 900) ELSE worst

\* safety_bounds.check: a bound found in the text, a cost over the ceiling, or
\* a resource that was requested and left out of the declaration.
Halted(r) ==
    \/ r.bound
    \/ r.cost # Unsaid /\ r.ceiling # Unsaid /\ r.cost > r.ceiling
    \/ r.declared # Unsaid /\ ~ r.requested \subseteq r.declared

Denied(r) == TopScore(r) > 0 /\ TopCategory(r) \in r.deny

\* Judge.decide, step 3: two agents that both see something corroborate.
Combined_Mean(r) == (Scout(r) + Nitpicker(r)) \div 2
Combined_Either(r) ==
    LET worst == Max({Scout(r), Nitpicker(r)})
    IN  IF worst >= OBSERVE_THRESHOLD THEN AtMostOne(worst + 600) ELSE worst
Combined(r) ==
    LET worst == Max({Scout(r), Nitpicker(r)})
    IN  IF Scout(r) >= OBSERVE_THRESHOLD /\ Nitpicker(r) >= OBSERVE_THRESHOLD
        THEN AtMostOne(worst + 600) ELSE worst

Judge(r) == IF Halted(r) \/ Denied(r) THEN "BLOCK" ELSE Hint(Combined(r))

=============================================================================
