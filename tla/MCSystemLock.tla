---------------------------- MODULE MCSystemLock ----------------------------
(***************************************************************************)
(* Instances of SystemOperationLock for TLC: two handlers and two          *)
(* operation ids, a lease of a few instants and a clock of a few leases.   *)
(***************************************************************************)
EXTENDS SystemOperationLock, TLC

CONSTANTS w1, w2, w3, p1, p2

(* The handlers are interchangeable, and so are the operation ids.         *)
Symmetry == Permutations(Workers) \cup Permutations(Prints)

=============================================================================
