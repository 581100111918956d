------------------------------- MODULE Sanitize -------------------------------
(***************************************************************************)
(* De-obfuscation: what sanitize() and normalize_text() make of a text     *)
(* before any pattern is matched against it.                               *)
(*                                                                         *)
(* A text is a sequence of characters of the kinds the code tells apart;   *)
(* casefold has nothing to do for them.  DataURI stands for the prefix     *)
(* "data:<mime>;base64,", whose own characters are no part of a blob.      *)
(* Whether a blob decodes to printable text, and to which, is the table    *)
(* Payload; the padding is left out.                                       *)
(***************************************************************************)
EXTENDS Naturals, Sequences, SequencesExt

CONSTANTS
    Characters,
    Invisible,      \* zero-width, bidi and format characters: stripped
    Fold,           \* collapse_confusables: each foldable character's ASCII form
    Base64,         \* the characters of a blob, ordinary letters among them
    MinBlob,        \* the length from which a run of them is a blob (20)
    Payload,        \* the text of each blob that decodes to one
    DataURI,
    Space

\* What a character folds to, and what blobs, URIs and spaces are made of, is
\* ASCII: it is neither folded nor stripped.
ASSUME AlphabetAssumption ==
    LET ascii == Base64 \cup {DataURI, Space} \cup {Fold[c] : c \in DOMAIN Fold} IN
    /\ ascii \subseteq Characters \ (Invisible \cup DOMAIN Fold)
    /\ DataURI \notin Base64 /\ Space \notin Base64 /\ DataURI # Space
    /\ MinBlob \in Nat
    /\ \A blob \in DOMAIN Payload :
         blob \in Seq(Base64) \ {<<>>} /\ Payload[blob] \in Seq(Characters)

\* A text without the characters at some of its positions.
Without(text, positions) ==
    FlattenSeq([i \in DOMAIN text |-> IF i \in positions THEN <<>> ELSE <<text[i]>>])

Stripped(text) == Without(text, {i \in DOMAIN text : text[i] \in Invisible})
Folded(text) ==
    [i \in DOMAIN text |-> IF text[i] \in DOMAIN Fold THEN Fold[text[i]] ELSE text[i]]
Cleaned(text) == Folded(Stripped(text))

\* The longest runs of blob characters, as first and last index.
Runs(text) ==
    {r \in (DOMAIN text) \X (DOMAIN text) :
        /\ r[1] <= r[2]
        /\ \A i \in r[1] .. r[2] : text[i] \in Base64
        /\ r[1] = 1 \/ text[r[1] - 1] \notin Base64
        /\ r[2] = Len(text) \/ text[r[2] + 1] \notin Base64}
Run(text, r) == SubSeq(text, r[1], r[2])

\* Steps 4 and 5: data URIs, then the blobs that no URI's text contains.
URIs(text) == {r \in Runs(text) : r[1] > 1 /\ text[r[1] - 1] = DataURI}
Blobs(text) ==
    {r \in Runs(text) :
        /\ r[2] - r[1] + 1 >= MinBlob
        /\ Run(text, r) \in DOMAIN Payload
        /\ \A u \in URIs(text) : Run(text, r) \notin SubSeqs(Run(text, u))}

\* The payloads of a set of runs, in their order, each on a line of its own.
Payloads(text, runs) ==
    FlattenSeq([i \in DOMAIN text |->
        IF \E r \in runs : r[2] = i /\ Run(text, r) \in DOMAIN Payload
        THEN <<Space>> \o Payload[Run(text, CHOOSE r \in runs : r[2] = i)]
        ELSE <<>>])

\* SanitizeResult.decoded; what was decoded is not decoded or stripped again.
Decoded_Original(text) ==
    LET t == Cleaned(text)
    IN  t \o Payloads(text, URIs(text)) \o Payloads(text, Blobs(text))
Decoded(text) ==
    LET t == Cleaned(text) IN t \o Payloads(t, URIs(t)) \o Payloads(t, Blobs(t))

\* SanitizeResult.suspicious: some step found something.
Suspicious(text) ==
    LET t == Cleaned(text)
    IN  t # text \/ URIs(t) # {} \/ Blobs(t) # {}

\* normalize_text: confusables folded, runs of whitespace collapsed, the ends
\* trimmed.
Superfluous(text) ==
    {i \in DOMAIN text :
        /\ text[i] = Space
        /\ \/ i = 1 \/ text[i - 1] = Space
           \/ \A j \in i .. Len(text) : text[j] = Space}
Normalized(text) == Without(Folded(text), Superfluous(Folded(text)))

\* What the detectors match against.  Nitpicker and Judge take the canonical form
\* of the action when this is empty: then the action holds nothing but spaces and
\* invisible characters, and no pattern matches either.
Cleartext(text) == Normalized(Decoded(text))
=============================================================================
