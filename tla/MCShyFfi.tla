------------------------------ MODULE MCShyFfi ------------------------------
(***************************************************************************)
(* ShyFfi with a few variables of the host and one call nested in another. *)
(***************************************************************************)
EXTENDS ShyFfi, TLC

Boxes == Permutations(ErrorBoxes) \cup Permutations(HandleBoxes) \cup Permutations(ErrorSlots)

\* What the object of a dropped box says matters to nothing any more.
View == <<calls, [b \in ErrorBoxes |-> IF b \in dropped THEN PanicError ELSE errors[b]],
          handles, errorSlot, handleSlot, dropped, returned>>
=============================================================================
