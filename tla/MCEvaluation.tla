----------------------------- MODULE MCEvaluation -----------------------------
(* Two resources, the pattern "*" and one for each resource, two agents and *)
(* every grant table, for requests that say little; under the default       *)
(* grants, two intent categories of which the second is denied, as scores   *)
(* below, between and above the thresholds, the pattern weights 0.55, 0.6,  *)
(* 0.7, 0.85 and none, and costs within and over a ceiling; every text of   *)
(* up to four of the seven characters; every kind of program; and every way *)
(* to put a manifest together from what its author signed.                  *)
EXTENDS Evaluation, TLC

CONSTANTS file, net, star, readFile, useNet, agent, deputy, any, unsaid,
          author, other, absent, misshapen, noFile, badJSON, unreadable, noPath

TwoResources == {file, net}
ThreePatterns == {star, readFile, useNet}
CoverTable == [p \in ThreePatterns |->
    IF p = star THEN TwoResources ELSE IF p = readFile THEN {file} ELSE {net}]
TwoAgents == {agent, deputy}
TwoKeys == {author, other}
Second == {2}

\* The letters o and k make the phrase; c looks like o, z is invisible.
Phrase1 == <<"o", "k">>
Letters == {"o", "k", "m"}
FoldTable == [c \in {"c"} |-> "o"]
InvisibleChars == {"z"}
PayloadTable ==
    (<<"m", "m", "m">> :> <<"o", "k">>) @@ (<<"m", "m", "k">> :> <<"o", "k", "k">>)
    @@ (<<"m", "k", "m">> :> <<"k", "k", "k">>) @@ (<<"m", "o", "m">> :> <<"c", "k">>)
    @@ (<<"m", "o", "o">> :> <<"o", "z", "k">>) @@ (<<"o", "m", "m">> :> <<"c", "c", "c">>)
    @@ (<<"k", "m", "k">> :> <<"k", "o", "m">>) @@ (<<"k", "m", "m">> :> <<"m", "k", "o">>)
    @@ (<<"k", "k", "m">> :> <<"o", "k", "o">>)
    @@ (<<"o", "m", "o">> :> <<"o", "k", " ">>) @@ (<<"o", "o", "m">> :> <<"m", "m", "m">>)
\* Programs of one marker, of a marker that a disguise may spare, and of both.
MarkerWords == {<<"k", "o">>, <<"m", "k">>}
Shell == [parses |-> FALSE, has |-> {"bash -c"}]
ScriptTable ==
    (<<"k", "o", "m">> :> [parses |-> TRUE, has |-> {"import pty"}])
    @@ (<<"m", "k", "o">> :> Shell) @@ (<<"o", "k", "o">> :> Shell)
\* "data:a/b;base64," has vowels, consonants, digits and punctuation.
ClassTable ==
    ("o" :> <<0>>) @@ ("k" :> <<4>>) @@ ("m" :> <<2>>) @@ (" " :> <<6>>)
    @@ ("c" :> <<13>>) @@ ("z" :> <<13>>) @@ ("data:" :> <<1, 0, 7, 5, 4>>)
AllCharacters == DOMAIN ClassTable

-----------------------------------------------------------------------------
Silent == Nothing
Loud == [Nothing EXCEPT !.scores = [c \in 1 .. 2 |-> IF c = 1 THEN 200 ELSE 0], !.pattern = 3600]
Request(who, wants, states, words, text, code) ==
    [principal |-> who, requested |-> wants, declared |-> states, says |-> words,
     text |-> text, code |-> code, cost |-> unsaid]
Plainly(says) == Request(agent, {}, unsaid, says, Phrase1, NoCode)

CodeTexts == {<<"k", "o", "m">>, <<"m", "k", "o">>, <<"m", "c", "o">>, <<"o", "k", "o">>}
Texts == {<<"o", "k">>, <<"o", "z", "k">>, <<"o", "k", "k">>, <<"o", "k", "z", "k">>}

Unsigned(r) ==
    [file |-> noPath, trusted |-> absent, signed |-> absent, signer |-> absent,
     request |-> r]
Signed(p, r) ==
    [file |-> SignManifest(p, author), trusted |-> absent, signed |-> p,
     signer |-> author, request |-> r]
PolicyOf(grants, ceiling) ==
    [grants |-> grants, deny |-> Second, ceiling |-> ceiling, converts |-> TRUE]

GrantCases ==
    {Signed(PolicyOf(g, unsaid), Request(who, wants, states, Silent, Phrase1, NoCode)) :
        g \in GrantTables, who \in TwoAgents, wants \in SUBSET TwoResources,
        states \in SUBSET TwoResources \cup {unsaid}}
    \cup {Unsigned(Request(who, wants, states, Silent, Phrase1, NoCode)) :
            who \in TwoAgents, wants \in SUBSET TwoResources,
            states \in SUBSET TwoResources \cup {unsaid}}

Says(scores, patterns, most) ==
    [scores : scores, pattern : patterns, ratchets : 0 .. most, priv : 0 .. most,
     bound : IF most = 0 THEN {FALSE} ELSE BOOLEAN]
Scores == [1 .. 2 -> {0, 60, 80, 200, 270}]

ScoreCases ==
    {Unsigned([Plainly(says) EXCEPT !.text = text, !.code = code]) :
        says \in Says(Scores, {0, 3300, 3600, 4200, 5100}, 3),
        text \in Texts, code \in {NoCode, Shell}}

CostCases ==
    {Signed(PolicyOf(DefaultPolicy.grants, ceiling),
            [Plainly(says) EXCEPT !.text = text, !.cost = cost]) :
        says \in Says(Scores, {0, 3600}, 0), text \in {<<"o", "k">>, <<"o", "z", "k">>},
        cost \in {unsaid, 1, 2}, ceiling \in {unsaid, 1}}

TextCases ==
    {Unsigned([Plainly(says) EXCEPT !.text = text]) :
        says \in {Silent, Loud}, text \in UNION {[1 .. n -> AllCharacters] : n \in 0 .. 4}}

Programs == [parses : BOOLEAN, has : {{}} \cup {{c, "print()"} : c \in Constructs}]
ProgramCases ==
    {Unsigned([Plainly(says) EXCEPT !.code = code, !.text = text]) :
        says \in {Silent, Loud}, code \in Programs, text \in {Phrase1} \cup CodeTexts}

\* What the author signs; any part of the file may be another's.
SignedPolicies ==
    {[grants |-> [p \in {agent} |-> {readFile}], deny |-> deny, ceiling |-> unsaid,
      converts |-> converts] : deny \in {{}, {1}}, converts \in BOOLEAN}
Altered(envelope) ==
    {[envelope EXCEPT !.policy = p, !.signature = s, !.public_key = k] :
        p \in SignedPolicies \cup {absent, misshapen}, s \in {envelope.signature, absent},
        k \in TwoKeys \cup {absent}}
ManifestCases ==
    UNION {{[file |-> f, trusted |-> trusted, signed |-> p, signer |-> k,
             request |-> Request(agent, wants, unsaid, says, Phrase1, NoCode)] :
              f \in Altered(SignManifest(p, k)) \cup {noFile, badJSON, unreadable},
              trusted \in TwoKeys \cup {absent},
              wants \in {{}, {file}, {net}}, says \in {Silent, Loud}} :
           p \in SignedPolicies, k \in TwoKeys}

AllCases ==
    {GrantCases, ScoreCases, CostCases, TextCases, ProgramCases, ManifestCases}
=============================================================================
