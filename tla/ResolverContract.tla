-------------------------- MODULE ResolverContract --------------------------
(***************************************************************************)
(* What evaluating an expression promises to the host that supplies the    *)
(* variables (VariableResolver, evaluate_parsed and its doc comments in    *)
(* crates/shunting-yard/src/lib.rs), whatever the operators compute:       *)
(*                                                                         *)
(*   - the resolver is asked for the variables one at a time, left to      *)
(*     right, once per occurrence, and never again once there is a result; *)
(*   - an error it returns is the result, at once;                         *)
(*   - a value is the result only after every occurrence has been asked    *)
(*     for and answered, and it is never a NaN, infinite or subnormal      *)
(*     float.                                                              *)
(***************************************************************************)
EXTENDS Ast, Values

CONSTANTS
    Expressions,     \* the trees that can be evaluated
    ResolverErrors   \* kinds of the errors a resolver returns

VARIABLES
    expr,      \* the tree being evaluated
    asked,     \* the occurrence asked for last, 0 before the first
    answers,   \* what the resolver answered, by occurrence
    result     \* what the evaluation returned

contractVars == <<expr, asked, answers, result>>

Pending == Err("pending")
Answers == {Ok(v) : v \in AnyValues} \cup {Err(e) : e \in ResolverErrors}

Occurrences(e) == {n \in Nodes(e) : e.kind[n] = "variable"}

\* The resolver has been called and has not returned.
Waiting == asked # 0 /\ answers[asked] = Pending

AllAsked == \A n \in Occurrences(expr) : n =< asked

Values64 == {Ok(v) : v \in ValidValues}

\* Errors of operators and functions.
OwnErrors == {Err(e) : e \in EvalErrors} \cup {Overflow(op) : op \in ArithmeticOps}

\* A value evaluation may use, or the error that ends it.
Admitted(answer) == IF answer.ok THEN ValidateValue(answer.value) ELSE answer

ContractInit ==
    /\ expr \in Expressions
    /\ asked = 0
    /\ answers = [n \in Nodes(expr) |-> Pending]
    /\ result = Pending

Ask ==
    /\ ~Waiting
    /\ result = Pending
    /\ \E n \in Occurrences(expr) :
         /\ n > asked
         /\ \A m \in Occurrences(expr) : m > asked => n =< m
         /\ asked' = n
    /\ UNCHANGED <<expr, answers, result>>

Answered ==
    /\ Waiting
    /\ \E answer \in Answers :
         /\ answers' = [answers EXCEPT ![asked] = answer]
         /\ IF Admitted(answer).ok
            THEN \/ result' = Pending
                 \/ AllAsked /\ result' \in Values64
            ELSE result' = Admitted(answer)
    /\ UNCHANGED <<expr, asked>>

Conclude ==
    /\ ~Waiting
    /\ result = Pending
    /\ \/ result' \in OwnErrors
       \/ AllAsked /\ result' \in Values64
    /\ UNCHANGED <<expr, asked, answers>>

ContractNext == Ask \/ Answered \/ Conclude

ContractSpec == ContractInit /\ [][ContractNext]_contractVars
=============================================================================
