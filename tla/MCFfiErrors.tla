---------------------------- MODULE MCFfiErrors ----------------------------
(***************************************************************************)
(* FfiErrors where an i32 ends at 2: texts, lists of diagnostics and lists *)
(* of expected tokens below, at and past what it can count.                *)
(***************************************************************************)
EXTENDS FfiErrors

MCIndices == -3 .. 2

Expected == {<<>>, <<"num">>, <<"num", "(">>, <<"num", "(", "~">>}

ParseErrors ==
    [is : {"InvalidToken"}, location : {0, 1, 3}]
    \cup [is : {"UnrecognizedEof"}, location : {2}, expected : Expected]
    \cup [is : {"UnrecognizedToken"}, token : {<<0, 1>>, <<2, 3>>, <<3, 4>>},
          expected : {<<"num">>, <<"num", "(", "~">>}]
    \cup [is : {"ExtraToken"}, token : {<<1, 2>>, <<4, 5>>}]
    \cup [is : {"User"}]

\* Enough of them for lists of three.
Some == {e \in ParseErrors : \/ e.is \in {"User", "ExtraToken"}
                             \/ e.is = "UnrecognizedEof" /\ Len(e.expected) = 2
                             \/ e.is = "UnrecognizedToken" /\ e.token[2] = 3}

Several == [{1} -> ParseErrors] \cup [1 .. 2 -> ParseErrors] \cup [1 .. 3 -> Some]

MCFailures ==
    [variant : {"ResourceLimit"}, kind : DOMAIN LimitCode]
    \cup [variant : {"Lexical"}, span : {<<0, 1>>, <<1, 2>>, <<2, 4>>, <<3, 4>>}]
    \cup [variant : {"Parse"}, hard : {TRUE}, errors : [{1} -> ParseErrors]]
    \cup [variant : {"Parse"}, hard : {FALSE}, errors : Several]
    \cup [variant : {"Eval"}, kind : DOMAIN EvalCode]
    \cup [variant : {"input"}, kind : {"NULL_POINTER", "INVALID_UTF8", "INVALID_OPTIONS"}]
    \cup [variant : {"callback"}, kind : {"RESOLVER_ERROR", "NULL_POINTER", "PANIC"}]
    \cup [variant : {"panic", "value"}]
=============================================================================
