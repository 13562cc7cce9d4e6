---------------------------- MODULE ApiContract ----------------------------
(***************************************************************************)
(* What the library promises a host that parses a text once and evaluates  *)
(* it any number of times (the evaluate and parse functions of             *)
(* crates/shunting-yard/src/lib.rs and README.md, "Parse once, evaluate    *)
(* many times"):                                                           *)
(*                                                                         *)
(*   - a text outside the limits, or one that does not parse without       *)
(*     errors, is rejected, and its variables are never asked for;         *)
(*   - every other text is accepted, and each evaluation of it keeps       *)
(*     ResolverContract for the tree of the text, whatever the evaluations *)
(*     before it have met.                                                 *)
(***************************************************************************)
EXTENDS Ast, Values

CONSTANTS
    Inputs,          \* source texts, with what lexer and parser make of them
    OptionSets,      \* limits
    ResolverErrors   \* kinds of the errors a resolver returns

VARIABLES
    input,     \* the text
    opts,      \* its limits
    phase,     \* "parsing", "rejected", "accepted"
    asked,     \* the occurrence asked for last in the current evaluation
    answers,   \* what the resolver answered in it
    outcome    \* what it returned

promiseVars == <<input, opts, phase, asked, answers, outcome>>

NoErrors(in) ==
    /\ \A i \in DOMAIN in.tokens : in.tokens[i] = "token"
    /\ in.parse.ok
    /\ in.parse.recoveries = 0

WithinLimits(in, o) ==
    LET t == in.parse.ast
    IN  /\ in.bytes =< o.max_input_bytes
        /\ Len(in.tokens) =< o.max_tokens
        /\ t.size =< o.max_ast_nodes
        /\ \A n \in Nodes(t) : /\ t.depth[n] =< o.max_depth
                               /\ t.kind[n] = "function" => Arity(t, n) =< o.max_function_args

Acceptable(in, o) == NoErrors(in) /\ WithinLimits(in, o)

Unanswered == [n \in Nodes(input.parse.ast) |-> Err("pending")]

Evaluation == INSTANCE ResolverContract
    WITH Expressions <- {in.parse.ast : in \in Inputs},
         expr <- input.parse.ast,
         result <- outcome

PromiseInit ==
    /\ input \in Inputs
    /\ opts \in OptionSets
    /\ phase = "parsing"
    /\ asked = 0
    /\ answers = Unanswered
    /\ outcome = Err("pending")

Decide ==
    /\ phase = "parsing"
    /\ phase' = IF Acceptable(input, opts) THEN "accepted" ELSE "rejected"
    /\ UNCHANGED <<input, opts, asked, answers, outcome>>

Evaluate ==
    /\ phase = "accepted"
    /\ Evaluation!ContractNext
    /\ UNCHANGED <<input, opts, phase>>

\* Another evaluation starts from nothing once the last one has returned.
Again ==
    /\ phase = "accepted"
    /\ outcome # Err("pending")
    /\ asked' = 0 /\ answers' = Unanswered /\ outcome' = Err("pending")
    /\ UNCHANGED <<input, opts, phase>>

PromiseNext == Decide \/ Evaluate \/ Again

PromiseSpec == PromiseInit /\ [][PromiseNext]_promiseVars
=============================================================================
