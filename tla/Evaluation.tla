------------------------------ MODULE Evaluation ------------------------------
(***************************************************************************)
(* One `check' command: the policy it loads, and the verdict               *)
(* AuditPipeline.process makes of the one request by itself, by the two    *)
(* authority gates over the policy's grants and by the trifecta, whose     *)
(* verdict is overruled when a gate objected.  What depends on the requests*)
(* before it (breaker, token guard, swarm detector) is in Pipeline; they   *)
(* can only block what is not blocked here.                                *)
(*                                                                         *)
(* Of the words of a request only Phrase means something to the lexicon,   *)
(* the pattern bank, the escalation probe and the safety bounds; what they *)
(* find in it belongs to the case.  Which texts are programs, and what is  *)
(* in them, is the table Script.                                           *)
(***************************************************************************)
EXTENDS Authority, Trifecta, Manifest, Sanitize, Sandbox, SpectralRigidity

CONSTANTS
    Phrase,
    Markers,        \* the words by which _looks_like_code knows a program
    Script,         \* the program of each text that is one, confusables folded
    NoPath,         \* no manifest is named
    DefaultDeny,    \* deny_categories of default_manifest
    Cases           \* sets of cases: the manifest file, the key it must be
                    \* signed by if any, what its author signed, the request

\* What the lexicon, the pattern bank, the escalation probe and the safety bounds
\* find: no weight, score or count of theirs is negative.
Words ==
    [scores : [Categories -> Nat], pattern : Nat, ratchets : Nat, priv : Nat,
     bound : BOOLEAN]

\* A file carries no signature but the one its author made, over what the author
\* signed; its other parts may be anybody's.
ASSUME CasesAssumption ==
    \A cases \in Cases : \A c \in cases :
        /\ c.request.requested \subseteq Resources
        /\ c.request.says \in Words
        /\ c.file # NoPath /\ Readable(c.file) =>
             c.file.signature \in {Absent, SignManifest(c.signed, c.signer).signature}

\* A text is made of characters, and every character has a class.
ASSUME TextsAssumption ==
    /\ Class \in [Characters -> Seq(Int)]
    /\ \A cases \in Cases : \A c \in cases : c.request.text \in Seq(Characters)

VARIABLES case, policy, found, objections, verdict, exit

vars == <<case, policy, found, objections, verdict, exit>>

Pending == {"pending"}      \* stands for the objections before the gates run
Running == 99               \* stands for the exit code before there is one

Init ==
    /\ \E cases \in Cases : case \in cases
    /\ policy = Absent
    /\ found = Absent
    /\ objections = Pending
    /\ verdict = "none"
    /\ exit = Running

request == case.request

-----------------------------------------------------------------------------
\* default_manifest(): "A permissive-but-sane default when no signed manifest
\* is configured".
DefaultPolicy ==
    [grants |-> [p \in {AnyPrincipal} |-> {Star}], deny |-> DefaultDeny,
     ceiling |-> Unsaid, converts |-> TRUE]

\* _build_pipeline; load_manifest for a caller that trusts a key of its own.
BuildPipeline_FallsBack ==
    /\ policy = Absent /\ exit = Running
    /\ \/ /\ case.file # NoPath => Refused(case.file, case.trusted)
          /\ policy' = DefaultPolicy
       \/ /\ case.file # NoPath /\ Loads(case.file, case.trusted)
          /\ policy' = case.file.policy
    /\ UNCHANGED <<case, found, objections, verdict, exit>>
BuildPipeline ==
    /\ policy = Absent /\ exit = Running
    /\ \/ case.file = NoPath /\ policy' = DefaultPolicy
       \/ /\ case.file # NoPath /\ Loads(case.file, case.trusted)
          /\ policy' = case.file.policy
    /\ UNCHANGED <<case, found, objections, verdict, exit>>

\* A ManifestError ends the command with 2, any other exception with 1.
BuildFails ==
    /\ policy = Absent /\ exit = Running
    /\ case.file # NoPath /\ ~ Loads(case.file, case.trusted)
    /\ exit' = IF Refused(case.file, case.trusted) THEN 2 ELSE 1
    /\ UNCHANGED <<case, policy, found, objections, verdict>>

-----------------------------------------------------------------------------
\* metadata.get("declared_resources", request.resources)
Declared(r) == IF r.declared = Unsaid THEN r.requested ELSE r.declared

\* Guard 3 and Gate C1; neither runs for a request without resources.
Objections(r) ==
    {gate \in {"zsp", "confused_deputy"} :
        /\ r.requested # {}
        /\ ~ IF gate = "zsp"
               THEN ZSPAllows(policy.grants, r.principal, Declared(r), r.requested)
               ELSE DeputyAllows(policy.grants, r.principal, r.requested)}

Authorize ==
    /\ policy # Absent /\ objections = Pending
    /\ objections' = Objections(request)
    /\ UNCHANGED <<case, policy, found, verdict, exit>>

\* The program in a text, for Scout: it is looked for in the text as it was sent, and
\* scan_code folds what it is given.
NoCode == [parses |-> TRUE, has |-> {}]
LooksLikeCode(text) == \E m \in Markers : m \in SubSeqs(text)
Program(text) ==
    IF LooksLikeCode(text) /\ Folded(text) \in DOMAIN Script THEN Script[Folded(text)]
                                                             ELSE NoCode

\* What Scout gets out of a text.
Reading(text) ==
    LET clear == Cleartext(text)
    IN  [obfuscated |-> Suspicious(text), drift |-> Drifts(clear),
         heard |-> Phrase \in SubSeqs(clear), script |-> Program(text)]

\* The code of the metadata, else the action itself when it looks like code.
Scanned(r, reading) == IF r.code # NoCode THEN r.code ELSE reading.script

Nothing ==
    [scores |-> [c \in Categories |-> 0], pattern |-> 0, ratchets |-> 0, priv |-> 0,
     bound |-> FALSE]

\* Everything the trifecta's scoring goes by.
Findings(r, reading) ==
    LET words == IF reading.heard THEN r.says ELSE Nothing
    IN  [principal |-> r.principal, requested |-> r.requested, declared |-> r.declared,
         cost |-> r.cost, ceiling |-> policy.ceiling, deny |-> policy.deny,
         obfuscated |-> reading.obfuscated, drift |-> reading.drift,
         code |-> Dangerous(Scanned(r, reading)),
         scores |-> words.scores, pattern |-> words.pattern, bound |-> words.bound,
         ratchets |-> words.ratchets, priv |-> words.priv]

\* `if forced_block: verdict = Verdict.BLOCK'
Ruling(r, against) == IF against # {} THEN "BLOCK" ELSE Judge(r)

\* trifecta.evaluate
Evaluate ==
    /\ objections # Pending /\ verdict = "none"
    /\ found' = Findings(request, Reading(request.text))
    /\ verdict' = Ruling(found', objections)
    /\ UNCHANGED <<case, policy, objections, exit>>

\* The end of _cmd_check.
Exit ==
    /\ verdict # "none" /\ exit = Running
    /\ exit' = IF verdict # "BLOCK" THEN 0 ELSE 1
    /\ UNCHANGED <<case, policy, found, objections, verdict>>

Next == BuildPipeline \/ BuildFails \/ Authorize \/ Evaluate \/ Exit

Spec == Init /\ [][Next]_vars

-----------------------------------------------------------------------------
Severity == [none |-> 0, ALLOW |-> 1, OBSERVE |-> 2, BLOCK |-> 3]

Evaluated == verdict # "none"

\* No policy is honoured but the built-in one when none is named, or one that
\* the author of the manifest signed, and signed with the trusted key if there
\* is one ("loading verifies the signature against a trusted public key before
\* the policy is honored", manifest.py).
PolicyIsWhatWasSigned ==
    policy # Absent /\ case.file # NoPath =>
        /\ policy = case.signed
        /\ case.trusted \in {Absent, case.signer}

\* The command succeeds only when the request passed under the policy it was
\* given ("non-zero exit when blocked so it composes in shell pipelines",
\* _cmd_check), never because that policy could not be had.
ExitZeroMeansPassed ==
    exit = 0 =>
        /\ verdict \in {"ALLOW", "OBSERVE"}
        /\ policy = IF case.file = NoPath THEN DefaultPolicy ELSE case.signed

\* For a principal with grants of its own, and all it requests declared, the
\* two gates agree: neither turns away what the other lets through
\* (zero_standing_privileges.py enforce, receipts.py confused_deputy_check).
GatesAgree ==
    /\ policy # Absent
    /\ request.principal \in DOMAIN policy.grants
    /\ request.requested \subseteq Declared(request)
    => Objections(request) \in {{}, {"zsp", "confused_deputy"}}

\* What is not blocked was declared, and granted to the principal by name
\* (zero_standing_privileges.py: "No standing, always just-in-time, always
\* scoped").
PassMeansGranted ==
    Evaluated /\ verdict # "BLOCK" =>
        \A x \in request.requested :
            /\ x \in Declared(request)
            /\ request.principal \in DOMAIN policy.grants
            /\ Matched(x, policy.grants[request.principal])

\* The verdict is never milder than the agents it listens to, though each of the
\* three files has thresholds of its own (scout, nitpicker, judge).
HintsAreHeeded ==
    Evaluated =>
        /\ Severity[verdict] >= Severity[Hint(Scout(found))]
        /\ Severity[verdict] >= Severity[Hint(Nitpicker(found))]

\* A request no rule forbids and neither agent would block is only blocked when
\* both agents saw something, and one of them came close ("Agreement between the
\* two agents at the high end is corroborating", judge.py).
BlocksAreCorroborated ==
    /\ verdict = "BLOCK" /\ objections = {} /\ ~ Halted(found) /\ ~ Denied(found)
    /\ Hint(Scout(found)) # "BLOCK" /\ Hint(Nitpicker(found)) # "BLOCK"
    => /\ Hint(Scout(found)) = "OBSERVE" /\ Hint(Nitpicker(found)) = "OBSERVE"
       /\ Max({Scout(found), Nitpicker(found)}) >= 3600

\* "a single isolated signal stays under threshold" (escalation_probe.py).
IsolatedSignalStaysUnder ==
    Evaluated /\ (found.ratchets = 0 \/ found.priv = 0) => ~ Escalating(found)

\* The request with one more match of the lexicon, in one of some categories.
Weights == {60, 70, 75, 80, 90, 100}
OneMoreMatch(r, categories) ==
    {[r EXCEPT !.scores[c] = @ + weight] : c \in categories, weight \in Weights}

\* The same request with one more thing found in it, or asking for more.  Only the
\* top category is compared with the deny-list: a match may take the place of a
\* denied one there (Displacing).
Displacers(r) == IF Denied(r) THEN Categories \ r.deny ELSE {}
Displacing(r) == OneMoreMatch(r, Displacers(r))
Worse(r) ==
    {[r EXCEPT !.obfuscated = TRUE], [r EXCEPT !.code = TRUE],
     [r EXCEPT !.drift = TRUE], [r EXCEPT !.bound = TRUE],
     [r EXCEPT !.ratchets = @ + 1], [r EXCEPT !.priv = @ + 1],
     [r EXCEPT !.pattern = Max({@, 5100})]}
    \cup OneMoreMatch(r, Categories \ Displacers(r))
    \cup {[r EXCEPT !.requested = @ \cup {x}] : x \in Resources}

\* One more finding or resource never makes the verdict milder, across the gates
\* and the thresholds, caps and adjustments of five files (process), unless it is a
\* match that takes the place of a denied category (judge.py, line 58); of such a
\* match nothing is lost but what the deny-list said.
EvidenceNeverHelps ==
    Evaluated =>
        /\ \A r \in Worse(found) :
             Severity[Ruling(r, Objections(r))] >= Severity[verdict]
        /\ \A r \in Displacing(found) :
             Severity[Ruling(r, Objections(r))]
               >= Severity[Ruling([found EXCEPT !.deny = {}], objections)]

\* The texts a reader takes for the given one, or decodes to it: an invisible
\* character put in, a character replaced by one that looks like it, the whole
\* as a blob or a data URI, and a blob that is disguised in turn.
Alike(c) == {d \in DOMAIN Fold \ Invisible : Fold[d] = c}
Hidden(text) ==
    {InsertAt(text, i, c) : i \in 1 .. Len(text) + 1, c \in Invisible}
    \cup UNION {{ReplaceAt(text, i, d) : d \in Alike(text[i])} : i \in DOMAIN text}
Wrapped(text) ==
    LET encodings == {blob \in DOMAIN Payload : Payload[blob] = text}
    IN  {blob \in encodings : Len(blob) >= MinBlob} \cup {<<DataURI>> \o blob : blob \in encodings}
Disguises(text) ==
    Hidden(text) \cup Wrapped(text) \cup UNION {Hidden(w) : w \in Wrapped(text)}

\* For texts that are not disguised themselves in what is done only once: the
\* text that a blob decodes to is not stripped, and not decoded again.
Undisguised(text) == Stripped(text) = text /\ Decoded(text) = Cleaned(text)

DisguisedReadings ==
    [text \in {t \in {Payload[b] : b \in DOMAIN Payload} : Undisguised(t)} |->
        {Reading(t) : t \in Disguises(text)}]

\* What the verdict would be, were the action itself not scanned for code: in a
\* disguise it may not look like code, or not be a program (scout.py, line 61).
VerdictOfWords == Ruling([found EXCEPT !.code = Dangerous(request.code)], objections)

\* Saying the same in disguise never makes the verdict milder than that, though the
\* words around a blob change the spectrum, and is never simply allowed ("Work
\* against the de-obfuscated cleartext so hidden instructions count", scout.py).
DisguiseNeverHelps ==
    Evaluated /\ request.text \in DOMAIN DisguisedReadings =>
        \A reading \in DisguisedReadings[request.text] :
            LET disguised == Ruling(Findings(request, reading), objections) IN
            Severity[disguised] >= Max({Severity[VerdictOfWords], Severity["OBSERVE"]})

\* A text of at most two character classes, or with one class next to all the
\* others, is never simply allowed, from the third character on ("The one signal
\* that *is* reliable is near-total character collapse ..., which stays
\* unconditionally flagged", spectral_rigidity.py).
CollapseIsNoticed ==
    Evaluated =>
        LET classes == ClassSeq(Cleartext(request.text)) IN
        /\ Len(classes) >= 3
        /\ \/ Cardinality(ToSet(classes)) <= 2
           \/ \E hub \in ToSet(classes) : \A i \in 1 .. Len(classes) - 1 :
                hub \in {classes[i], classes[i + 1]}
        => verdict # "ALLOW"

\* Under the default manifest no gate objects to what a request declared.
DefaultPermits ==
    /\ case.file = NoPath /\ request.requested \subseteq Declared(request)
    /\ objections # Pending
    => objections = {}
=============================================================================
