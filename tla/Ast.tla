-------------------------------- MODULE Ast --------------------------------
(***************************************************************************)
(* The expression tree the parser hands to the limit check and to the      *)
(* evaluator (crates/shunting-yard/src/ast.rs).                            *)
(*                                                                         *)
(* A tree is a flat record over its nodes 1..size, numbered in preorder, so *)
(* that a node's number is the moment a left-to-right recursion first      *)
(* reaches it:                                                             *)
(*   kind[n]   the variant of Expression at n                              *)
(*   kids[n]   its children, left to right                                 *)
(*   last[n]   the last node of the subtree rooted at n                    *)
(*   depth[n]  its distance from the root                                  *)
(* What only the evaluator looks at, the operator op[n] or the literal     *)
(* literal[n] a node carries, is left to its module; the name of a         *)
(* variable is the node itself.                                            *)
(***************************************************************************)
EXTENDS Integers, Sequences

LeafKinds == {"bool", "integer", "float", "variable", "lexical_error", "error"}

\* The variants of Expression, by the number of children they own.
Kinds == LeafKinds \cup {"unary", "binary", "function"}

Nodes(t) == 1..t.size

Arity(t, n) == Len(t.kids[n])

\* Box, Vec: a unary operation owns one child, a binary one two, a function
\* call any number, every other variant none.
OwnsChildren(t, n) ==
    /\ t.kind[n] \in LeafKinds => Arity(t, n) = 0
    /\ t.kind[n] = "unary" => Arity(t, n) = 1
    /\ t.kind[n] = "binary" => Arity(t, n) = 2

\* The children of n are consecutive subtrees that start right after n and
\* end where n's own subtree ends.
KidsInPreorder(t, n) ==
    /\ Arity(t, n) = 0 => t.last[n] = n
    /\ Arity(t, n) > 0 => /\ t.kids[n][1] = n + 1
                          /\ t.last[n] = t.last[t.kids[n][Arity(t, n)]]
    /\ \A i \in 1 .. Arity(t, n) - 1 : t.kids[n][i + 1] = t.last[t.kids[n][i]] + 1
    /\ \A i \in 1 .. Arity(t, n) : t.depth[t.kids[n][i]] = t.depth[n] + 1

IsAst(t) ==
    /\ t.size \in Nat \ {0}
    /\ t.kind \in [Nodes(t) -> Kinds]
    /\ t.kids \in [Nodes(t) -> Seq(Nodes(t))]
    /\ t.last \in [Nodes(t) -> Nodes(t)]
    /\ t.depth \in [Nodes(t) -> Nat]
    /\ t.depth[1] = 0
    /\ t.last[1] = t.size
    /\ \A n \in Nodes(t) : n =< t.last[n] /\ OwnsChildren(t, n) /\ KidsInPreorder(t, n)

\* The trees parsing without an error can build: no error node (those come
\* from the recovery alternatives of the grammar only).
IsCleanAst(t) ==
    IsAst(t) /\ \A n \in Nodes(t) : t.kind[n] \notin {"lexical_error", "error"}
=============================================================================
