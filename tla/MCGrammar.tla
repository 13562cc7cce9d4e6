----------------------------- MODULE MCGrammar -----------------------------
(***************************************************************************)
(* Grammar on all short texts of a few tokens, and on every chain of two   *)
(* or three operators.                                                     *)
(***************************************************************************)
EXTENDS Grammar

CONSTANTS GroupLength, CallLength   \* how long the texts get

Strings(tokens, n) == UNION {[1..k -> tokens] : k \in 1..n}

x == "variable"

Pairs ==
    {pre \o <<x>> \o <<op1>> \o mid \o <<x, op2, x>> \o post :
        op1 \in InfixTokens, op2 \in InfixTokens, pre \in {<<>>, <<"!">>}, mid \in {<<>>, <<"~">>},
        post \in {<<>>, <<"deg">>}}

\* One operator of each level.
Levels == {"**", "/", "-", ">>", "<=", "~=", "&", "^", "|", "&&", "||"}
Triples == {<<x, op1, x, op2, x, op3, x>> : op1 \in Levels, op2 \in Levels, op3 \in Levels}

Calls == {<<name, "(", leaf, ")">> : name \in NameTokens, leaf \in LeafTokens}

MCTexts ==
    UNION {Strings({x, "-", "**", "deg", "(", ")"}, GroupLength),
           Strings({x, "max", "(", ")", "comma"}, CallLength), Pairs, Triples, Calls}
=============================================================================
