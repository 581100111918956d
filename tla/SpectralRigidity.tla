--------------------------- MODULE SpectralRigidity ---------------------------
(***************************************************************************)
(* The drift flag of spectral_rigidity.score.  The operator is the         *)
(* symmetric matrix that counts which character classes are adjacent in a  *)
(* text.  Drift is reported when fewer than three of its eigenvalues are   *)
(* not zero, that is when its rank is below three: every minor of order    *)
(* three vanishes.  The values of the eigenvalues                          *)
(* themselves only make the score, which decides nothing.                  *)
(***************************************************************************)
EXTENDS Integers, FiniteSets, SequencesExt

\* _bucket: the classes of the characters of each symbol of a text, most of which
\* stand for one character.
CONSTANT Class

ClassSeq(text) == FlattenSeq([i \in DOMAIN text |-> Class[text[i]]])

\* _cooccurrence: each adjacent pair counts in both directions, and so twice on
\* the diagonal.
Adjacent(s, a, b) == Cardinality({i \in 1 .. Len(s) - 1 : s[i] = a /\ s[i + 1] = b})
Cooccurrence(s) ==
    [a \in ToSet(s) |-> [b \in ToSet(s) |-> Adjacent(s, a, b) + Adjacent(s, b, a)]]

\* The determinant of the rows r and the columns c of a matrix.
Minor(m, r, c) ==
      m[r[1]][c[1]] * (m[r[2]][c[2]] * m[r[3]][c[3]] - m[r[2]][c[3]] * m[r[3]][c[2]])
    - m[r[1]][c[2]] * (m[r[2]][c[1]] * m[r[3]][c[3]] - m[r[2]][c[3]] * m[r[3]][c[1]])
    + m[r[1]][c[3]] * (m[r[2]][c[1]] * m[r[3]][c[2]] - m[r[2]][c[2]] * m[r[3]][c[1]])

Ordered(triple) == triple[1] < triple[2] /\ triple[2] < triple[3]

\* len(levels) < 3
Collapsed_OneLevel(s) ==
    LET m == Cooccurrence(s) IN
    \A r, c \in ToSet(s) \X ToSet(s) :
        m[r[1]][c[1]] * m[r[2]][c[2]] = m[r[1]][c[2]] * m[r[2]][c[1]]
Collapsed(s) ==
    LET m == Cooccurrence(s)
        triples == {t \in ToSet(s) \X ToSet(s) \X ToSet(s) : Ordered(t)}
    IN  \A r, c \in triples : Minor(m, r, c) = 0

Drifts(text) == Len(ClassSeq(text)) >= 3 /\ Collapsed(ClassSeq(text))
=============================================================================
