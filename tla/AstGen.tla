------------------------------- MODULE AstGen -------------------------------
(***************************************************************************)
(* All expression trees of a given size, for TLC.  A preorder numbering is *)
(* determined by the depths of the nodes: the root has depth 0 and a node  *)
(* is at most one level below the node numbered just before it.            *)
(***************************************************************************)
EXTENDS Integers, Sequences, FiniteSets, FiniteSetsExt

DepthsOf(size) ==
    {d \in [1..size -> 0 .. size - 1] :
        /\ d[1] = 0
        /\ \A n \in 2..size : d[n] \in 1 .. d[n - 1] + 1}

Subtree(d, n) == {m \in n .. Len(d) : \A k \in n + 1 .. m : d[k] > d[n]}

Children(d, n) == {m \in Subtree(d, n) : d[m] = d[n] + 1}

\* The i-th child is the one with i children up to it.
KidsOf(d, n) ==
    LET kids == Children(d, n)
    IN  [i \in 1 .. Cardinality(kids) |->
            CHOOSE m \in kids : Cardinality({k \in kids : k =< m}) = i]

\* The tree with these depths, kinds and payloads.
AstOf(d, kind, op) ==
    [size  |-> Len(d),
     kind  |-> kind,
     op    |-> op,
     kids  |-> [n \in 1 .. Len(d) |-> KidsOf(d, n)],
     last  |-> [n \in 1 .. Len(d) |-> Max(Subtree(d, n))],
     depth |-> d]

\* Kinds by number of children, given the leaf kinds a run wants.
KindsFor(arity, leaves) ==
    {"function"} \cup (CASE arity = 0 -> leaves
                         [] arity = 1 -> {"unary"}
                         [] arity = 2 -> {"binary"}
                         [] OTHER -> {})

\* Every tree of that size with the given leaf kinds and no payload.
Shapes(size, leaves) ==
    UNION {{AstOf(d, kind, [n \in 1..size |-> "none"]) :
               kind \in {k \in [1..size -> {"function", "unary", "binary"} \cup leaves] :
                            \A n \in 1..size : k[n] \in KindsFor(Len(KidsOf(d, n)), leaves)}} :
           d \in DepthsOf(size)}
=============================================================================
