------------------------------- MODULE Lexer -------------------------------
(***************************************************************************)
(* The token stream the parser reads: the patterns of Token                *)
(* (crates/shunting-yard/src/tokens.rs), the matching the Logos derive     *)
(* generates from them, and the iterator that hands out tokens with their  *)
(* byte spans (lexer.rs), one call of Lexer::next per step.                *)
(*                                                                         *)
(* A text is a sequence of characters, which are strings of length one.    *)
(* Logos takes the longest slice some pattern matches and, when several    *)
(* match it, the pattern of the highest priority.                          *)
(***************************************************************************)
EXTENDS Values, FiniteSets, FiniteSetsExt

CONSTANTS
    Texts,       \* the source texts
    MaxOrder,    \* 10^MaxOrder is the first float too large to be finite
    MinOrder,    \* 10^MinOrder is the least normal float
    ZeroOrder,   \* a float below 10^ZeroOrder rounds to zero
    NoneError    \* the error Logos makes when a callback returns None

\* The bounds of f64, at powers of ten here.
ASSUME OrdersAssumption ==
    /\ MaxOrder \in Int /\ MinOrder \in Int /\ ZeroOrder \in Int
    /\ ZeroOrder =< MinOrder /\ MinOrder < MaxOrder

\* InvalidToken is the default of LexicalError, UnknownSymbol what the error
\* callback of the derive makes (LexicalError::from_lexer).
ASSUME NoneErrorAssumption == NoneError \in {"InvalidToken", "UnknownSymbol"}

VARIABLES
    text,     \* the source
    pos,      \* characters consumed
    items,    \* history: what next has returned, with the slices
    ended     \* next has returned None

vars == <<text, pos, items, ended>>

-----------------------------------------------------------------------------
(* Characters.                                                             *)

From(s, i) == SubSeq(s, i, Len(s))
CharsOf(s) == {s[i] : i \in DOMAIN s}

ASSUME TextsAssumption == \A t \in Texts : t \in Seq(CharsOf(t))

Digits == {"0", "1", "2", "3", "4", "5", "6", "7", "8", "9"}
HexDigits == Digits \cup {"a", "b", "c", "d", "e", "f", "A", "B", "C", "D", "E", "F"}
AsciiLetters ==
    {"a", "b", "c", "d", "e", "f", "g", "h", "i", "j", "k", "l", "m",
     "n", "o", "p", "q", "r", "s", "t", "u", "v", "w", "x", "y", "z",
     "A", "B", "C", "D", "E", "F", "G", "H", "I", "J", "K", "L", "M",
     "N", "O", "P", "Q", "R", "S", "T", "U", "V", "W", "X", "Y", "Z"}

\* Characters of two bytes in UTF-8, each written as an ASCII character that no
\* pattern knows: the degree sign, and one for the letters outside ASCII.
DegreeSign == "'"
WideLetter == ";"
WideChars == {DegreeSign, WideLetter}

WordChars == AsciiLetters \cup {WideLetter} \cup Digits \cup {"_"}

Bytes(s) == Len(s) + Cardinality({i \in 1 .. Len(s) : s[i] \in WideChars})

\* Mutant: blanks are not skipped.
SkippedControls == {"\t", "\n", "\f"}

Skipped == {" ", "\t", "\n", "\f"}

-----------------------------------------------------------------------------
(* Patterns.                                                               *)

Punctuation ==
    [LeftParen |-> {<<"(">>}, RightParen |-> {<<")">>}, Equals |-> {<<"=", "=">>},
     NotEquals |-> {<<"!", "=">>, <<"/", "=">>}, LessThanEquals |-> {<<"<", "=">>},
     GreaterThanEquals |-> {<<">", "=">>}, ApproximatelyEquals |-> {<<"~", "=">>},
     LessThan |-> {<<"<">>}, GreaterThan |-> {<<">">>}, Plus |-> {<<"+">>}, Minus |-> {<<"-">>},
     Exponentiation |-> {<<"*", "*">>}, Multiply |-> {<<"*">>}, Divide |-> {<<"/">>},
     Modulo |-> {<<"%">>}, LogicalAnd |-> {<<"&", "&">>}, LogicalOr |-> {<<"|", "|">>},
     BitshiftLeft |-> {<<"<", "<">>}, BitshiftRight |-> {<<">", ">">>},
     Degrees |-> {<<DegreeSign>>}, LogicalNot |-> {<<"!">>}, BitwiseAnd |-> {<<"&">>},
     BitwiseXor |-> {<<"^">>}, BitwiseNot |-> {<<"~">>}, BitwiseOr |-> {<<"|">>},
     Comma |-> {<<",">>}]

FunctionNames ==
    [Cos |-> {<<"c", "o", "s">>}, Sin |-> {<<"s", "i", "n">>}, Tan |-> {<<"t", "a", "n">>},
     Minimum |-> {<<"m", "i", "n">>}, Maximum |-> {<<"m", "a", "x">>},
     Power |-> {<<"p", "o", "w">>}, Mod |-> {<<"m", "o", "d">>}, Remainder |-> {<<"r", "e", "m">>},
     Round |-> {<<"r", "o", "u", "n", "d">>}, ACos |-> {<<"a", "c", "o", "s">>},
     ASin |-> {<<"a", "s", "i", "n">>}, ATan |-> {<<"a", "t", "a", "n">>},
     AbsoluteValue |-> {<<"a", "b", "s">>}, NaturalLog |-> {<<"l", "n">>},
     Log |-> {<<"l", "o", "g">>}, Euler |-> {<<"e", "x", "p">>},
     Floor |-> {<<"f", "l", "o", "o", "r">>},
     Ceiling |-> {<<"c", "e", "i", "l">>, <<"c", "e", "i", "l", "i", "n", "g">>}]

Symbols == DOMAIN Punctuation
Names == DOMAIN FunctionNames
LiteralKinds == {"Bool", "Integer", "Hexadecimal", "Float", "Variable"}

\* (?i)(true|false): a letter of either case at each place.
BoolSpellings ==
    ({"t", "T"} \X {"r", "R"} \X {"u", "U"} \X {"e", "E"})
    \cup ({"f", "F"} \X {"a", "A"} \X {"l", "L"} \X {"s", "S"} \X {"e", "E"})

NotANumber == {<<"N", "a", "N">>, <<"n", "a", "n">>, <<"N", "A", "N">>,
               <<"N", "a", "N", "3", "2">>, <<"N", "a", "N", "6", "4">>}

AllDigits(s) == s # <<>> /\ CharsOf(s) \subseteq Digits

IsHexadecimal(s) ==
    Len(s) > 2 /\ SubSeq(s, 1, 2) = <<"0", "x">> /\ CharsOf(From(s, 3)) \subseteq HexDigits

\* [0-9]+\.[0-9]* or [0-9]*\.[0-9]+
IsDecimal(s) ==
    /\ Len(s) > 1
    /\ \E i \in 1 .. Len(s) : /\ s[i] = "."
                              /\ CharsOf(SubSeq(s, 1, i - 1) \o From(s, i + 1)) \subseteq Digits

\* [eE][-+]?[0-9]+
IsExponent(s) ==
    /\ s # <<>> /\ s[1] \in {"e", "E"}
    /\ \/ AllDigits(From(s, 2))
       \/ Len(s) > 2 /\ s[2] \in {"+", "-"} /\ AllDigits(From(s, 3))

IsFloatNumber(s) ==
    \/ IsDecimal(s)
    \/ \E i \in 2 .. Len(s) - 1 : /\ AllDigits(SubSeq(s, 1, i - 1)) \/ IsDecimal(SubSeq(s, 1, i - 1))
                                  /\ IsExponent(From(s, i))

IsIndex(s) ==
    /\ Len(s) > 2
    /\ s[1] = "[" /\ s[Len(s)] = "]"
    /\ AllDigits(SubSeq(s, 2, Len(s) - 1))

\* [_[:alpha:]][_\.\w\d]*(?:\[\d+\])?
IsVariable(s) ==
    /\ s # <<>> /\ s[1] \in AsciiLetters \cup {"_"}
    /\ \E n \in 1 .. Len(s) : /\ CharsOf(SubSeq(s, 1, n)) \subseteq WordChars \cup {"."}
                              /\ n = Len(s) \/ IsIndex(From(s, n + 1))

\* Mutant: the variable pattern has the highest priority.
VariableFirst(s) ==
    IF IsVariable(s) THEN "Variable"
    ELSE IF \E k \in Symbols : s \in Punctuation[k] THEN CHOOSE k \in Symbols : s \in Punctuation[k]
    ELSE IF IsFloatNumber(s) THEN "Float"
    ELSE IF AllDigits(s) THEN "Integer"
    ELSE IF IsHexadecimal(s) THEN "Hexadecimal"
    ELSE "none"

\* The token kind of a slice, the highest priority first: spelled-out tokens,
\* NaN (5), Bool (4), Variable (3); the number patterns overlap with none.
KindOf(s) ==
    IF \E k \in Symbols : s \in Punctuation[k] THEN CHOOSE k \in Symbols : s \in Punctuation[k]
    ELSE IF \E k \in Names : s \in FunctionNames[k] THEN CHOOSE k \in Names : s \in FunctionNames[k]
    ELSE IF s \in NotANumber \/ IsFloatNumber(s) THEN "Float"
    ELSE IF s \in BoolSpellings THEN "Bool"
    ELSE IF IsVariable(s) THEN "Variable"
    ELSE IF AllDigits(s) THEN "Integer"
    ELSE IF IsHexadecimal(s) THEN "Hexadecimal"
    ELSE "none"

-----------------------------------------------------------------------------
(* The callbacks: what a literal's slice converts to.                      *)

LowerHexDigits == <<"0", "1", "2", "3", "4", "5", "6", "7", "8", "9",
                    "a", "b", "c", "d", "e", "f">>
UpperHexDigits == <<"0", "1", "2", "3", "4", "5", "6", "7", "8", "9",
                    "A", "B", "C", "D", "E", "F">>

\* The value of a digit, and the number that digits in this base spell.
DigitOf(c) == CHOOSE d \in 0 .. 15 : c \in {LowerHexDigits[d + 1], UpperHexDigits[d + 1]}

Spelled(s, base) ==
    LET upto[n \in 0 .. Len(s)] ==
          IF n = 0 THEN 0 ELSE upto[n - 1] * base + DigitOf(s[n])
    IN  upto[Len(s)]

\* str::parse::<bool> knows the lower-case spellings only.
ParseBool(s) ==
    IF s = <<"t", "r", "u", "e">> THEN Ok(Bool(TRUE))
    ELSE IF s = <<"f", "a", "l", "s", "e">> THEN Ok(Bool(FALSE))
    ELSE Err("InvalidBool")

\* Mutant: the digits wrap around.
WrappingInteger(s) == Ok(Int64(Spelled(s, 10) % (MaxInt + 1)))

ParseInteger(s) ==
    IF Spelled(s, 10) \in Ints THEN Ok(Int64(Spelled(s, 10))) ELSE Err("InvalidInteger")

ParseHex(s) ==
    LET value == Spelled(From(s, 3), 16)
    IN  IF value \in Ints THEN Ok(Int64(value)) ELSE Err(NoneError)

\* A number pattern is a mantissa, and maybe an exponent.
MantissaOf(s) ==
    IF CharsOf(s) \cap {"e", "E"} = {} THEN s
    ELSE SubSeq(s, 1, (CHOOSE i \in 1 .. Len(s) : s[i] \in {"e", "E"}) - 1)

ExponentOf(s) ==
    LET rest == From(s, Len(MantissaOf(s)) + 2)
    IN  IF rest = <<>> THEN 0
        ELSE IF rest[1] = "-" THEN -Spelled(From(rest, 2), 10)
        ELSE IF rest[1] = "+" THEN Spelled(From(rest, 2), 10)
        ELSE Spelled(rest, 10)

\* The number spelled is 0 or at least 10^(Order - 1) and below 10^Order: the
\* place of its first digit that is not 0.
FirstPlace(m) == CHOOSE i \in 1 .. Len(m) : /\ m[i] \in Digits \ {"0"}
                                            /\ CharsOf(SubSeq(m, 1, i - 1)) \subseteq {"0", "."}
PointPlace(m) == IF \E i \in 1 .. Len(m) : m[i] = "."
                 THEN CHOOSE i \in 1 .. Len(m) : m[i] = "." ELSE Len(m) + 1
Order(s) ==
    LET m == MantissaOf(s)
        places == PointPlace(m) - FirstPlace(m)
    IN  ExponentOf(s) + (IF places > 0 THEN places ELSE places + 1)

\* str::parse::<f64>, then f64::classify.
ClassOf(s) ==
    IF s \in NotANumber THEN "nan"
    ELSE IF CharsOf(MantissaOf(s)) \subseteq {"0", "."} \/ Order(s) =< ZeroOrder THEN "zero"
    ELSE IF Order(s) > MaxOrder THEN "inf"
    ELSE IF Order(s) =< MinOrder THEN "subnormal"
    ELSE "pos"

ParseFloat(s) ==
    IF ClassOf(s) \in NumberClasses THEN Ok(Float(ClassOf(s))) ELSE Err("InvalidFloat")

-----------------------------------------------------------------------------
(* The stream.                                                             *)

Plain(kind) == [kind |-> kind]
Literal(kind, value) == [kind |-> kind, value |-> value]
Named(name) == [kind |-> "Variable", name |-> name]
ErrorToken(error) == [kind |-> "Error", error |-> error]

\* Ok becomes the token's value; an error becomes the token.
Carrying(kind, converted) ==
    IF converted.ok THEN Literal(kind, converted.value) ELSE ErrorToken(converted.error)

TokenOf(s) ==
    LET kind == KindOf(s)
    IN  CASE kind = "Bool" -> Carrying(kind, ParseBool(s))
          [] kind = "Integer" -> Carrying(kind, ParseInteger(s))
          [] kind = "Hexadecimal" -> Carrying(kind, ParseHex(s))
          [] kind = "Float" -> Carrying(kind, ParseFloat(s))
          [] kind = "Variable" -> Named(s)
          [] kind = "none" -> ErrorToken("UnknownSymbol")
          [] OTHER -> Plain(kind)

\* The first character at or after place p that is not skipped.
SkipFrom(t, p) ==
    Min({i \in p .. Len(t) : t[i] \notin Skipped} \cup {Len(t) + 1})

\* The longest slice at p that is a token; where none is, one character is the
\* slice of an error.
LongestFrom(t, p) ==
    Max({n \in 1 .. Len(t) - p + 1 : KindOf(SubSeq(t, p, p + n - 1)) # "none"} \cup {1})

SliceAt(t, p) == SubSeq(t, p, p + LongestFrom(t, p) - 1)

\* Mutant: one byte per character.
CharOffset(t, p) == p - 1

\* The byte at which character p starts.
Offset(t, p) == Bytes(SubSeq(t, 1, p - 1))

\* What next returns for the slice at p: (start, token, end), and the slice.
ItemAt(t, p) ==
    [start |-> Offset(t, p), token |-> TokenOf(SliceAt(t, p)),
     end |-> Offset(t, p) + Bytes(SliceAt(t, p)), slice |-> SliceAt(t, p)]

Init ==
    /\ text \in Texts
    /\ pos = 0
    /\ items = <<>>
    /\ ended = FALSE

\* Where the next slice starts.
NextPlace == SkipFrom(text, pos + 1)

\* Some(Ok(token)): a token, or a Logos error handed on as Token::Error.
NextItem ==
    /\ ~ended
    /\ NextPlace =< Len(text)
    /\ items' = Append(items, ItemAt(text, NextPlace))
    /\ pos' = NextPlace + LongestFrom(text, NextPlace) - 1
    /\ UNCHANGED <<text, ended>>

NextNone ==
    /\ ~ended
    /\ NextPlace > Len(text)
    /\ ended' = TRUE
    /\ pos' = Len(text)
    /\ UNCHANGED <<text, items>>

Next == NextItem \/ NextNone

Spec == Init /\ [][Next]_vars

-----------------------------------------------------------------------------
(* Properties.                                                             *)

\* All tokens of a text.
TokensOf(t) ==
    LET from[p \in 1 .. Len(t) + 1] ==
          LET q == SkipFrom(t, p)
          IN  IF q > Len(t) THEN <<>>
              ELSE <<TokenOf(SliceAt(t, q))>> \o from[q + LongestFrom(t, q)]
    IN  from[1]

Tokens == [i \in DOMAIN items |-> items[i].token]

\* The slices, with one space after each.
Spaced ==
    LET upto[n \in 0 .. Len(items)] ==
          IF n = 0 THEN <<>> ELSE upto[n - 1] \o items[n].slice \o <<" ">>
    IN  upto[Len(items)]

\* The bytes of a text that spans cover are those of its characters that are
\* not skipped, each once and in order: an error or a wide character shifts no
\* later span (Lexer::next, and the parser's error spans built from it).
SpansCoverText ==
    /\ \A i \in DOMAIN items : items[i].start < items[i].end
    /\ \A i \in 1 .. Len(items) - 1 : items[i].end =< items[i + 1].start
    /\ \A c \in 1 .. pos :
         LET byte == Bytes(SubSeq(text, 1, c)) - 1
         IN  text[c] \in Skipped <=>
                ~\E i \in DOMAIN items : items[i].start =< byte /\ byte < items[i].end

\* The words that are no variable's name.
Reserved == (UNION {FunctionNames[k] : k \in Names}) \cup BoolSpellings \cup NotANumber

\* What a word means: a reserved one is the function, the boolean or the
\* refused float it spells, every other is a name.
MeansWord(s, token) ==
    /\ \A k \in Names : s \in FunctionNames[k] => token = Plain(k)
    /\ s \in BoolSpellings =>
          token \in {Literal("Bool", Bool(TRUE)), Literal("Bool", Bool(FALSE)), ErrorToken("InvalidBool")}
    /\ s \in NotANumber => token = ErrorToken("InvalidFloat")
    /\ s \notin Reserved => token = Named(s)

Touching(i) == i + 1 \in DOMAIN items /\ items[i].end = items[i + 1].start

\* The text goes on behind item i as a name does: with one more character, or
\* with an index.
GoesOn(i) ==
    /\ Touching(i)
    /\ \/ items[i + 1].slice[1] \in WordChars \cup {"."}
       \/ /\ Touching(i + 1) /\ Touching(i + 2)
          /\ items[i + 1].slice = <<"[">>
          /\ AllDigits(items[i + 2].slice)
          /\ items[i + 3].slice[1] = "]"

\* A word, which four patterns and all the function names match in part, is
\* taken whole, its index included, and as what it spells: a name that only
\* starts with a reserved word stays a name, and a reserved word is never a
\* variable that evaluation would ask the resolver for.
WordsAreWhole ==
    \A i \in DOMAIN items :
        LET s == items[i].slice
        IN  s[1] \in AsciiLetters \cup {"_"} =>
                /\ MeansWord(s, items[i].token)
                /\ s[Len(s)] # "]" => ~GoesOn(i)

\* Where tokens end does not depend on what follows: with a space after each
\* slice the text has the same tokens, errors included.
SpacesBetweenTokensAreNeutral == ended => TokensOf(Spaced) = Tokens

\* What the evaluator is promised of literals: integers of the width and
\* floats that are zero or normal; none is negative, so MIN cannot be written.
LiteralsAreNumbers ==
    \A i \in DOMAIN items : items[i].token.kind \in {"Integer", "Hexadecimal", "Float"} =>
        LET v == items[i].token.value
            digits == items[i].slice
        IN  /\ v \in Numbers \cup Integers64
            /\ v.type = "float" => v.class # "neg"
            /\ v.type = "integer" => v.int >= 0
            /\ items[i].token.kind = "Integer" => v.int % 10 = DigitOf(digits[Len(digits)])
=============================================================================
