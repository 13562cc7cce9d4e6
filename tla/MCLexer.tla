------------------------------ MODULE MCLexer ------------------------------
(***************************************************************************)
(* Lexer on all short texts over a few characters, and on sequences of     *)
(* words that are prefixes, extensions and near misses of one another.     *)
(***************************************************************************)
EXTENDS Lexer

CONSTANTS NumberLength, OperatorLength, WordCount   \* how long the texts get

NumberChars == {"0", "8", ".", "e", "-", "x"}
OperatorChars == {"<", "=", "*", "&", "!", "/", " ", "~"}
Words == {"ceil", "ing", "ln", "x", "1", "[", "[1", "]", ".", " ", "\r", "TRUE", "true",
          "NaN", "32", WideLetter, DegreeSign}

Characters(string) == [i \in 1 .. Len(string) |-> SubSeq(string, i, i)]

\* Every text of up to n of these pieces.
Strung(pieces, n) ==
    LET texts[k \in 0..n] ==
          IF k = 0 THEN {<<>>} ELSE {t \o Characters(p) : t \in texts[k - 1], p \in pieces}
    IN  UNION {texts[k] : k \in 0..n}

MCTexts ==
    UNION {Strung(NumberChars, NumberLength), Strung(OperatorChars, OperatorLength),
           Strung(Words, WordCount)}

MCMinOrder == -1
MCZeroOrder == -3
=============================================================================
