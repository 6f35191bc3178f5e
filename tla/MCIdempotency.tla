--------------------------- MODULE MCIdempotency ----------------------------
(***************************************************************************)
(* Instances of Idempotency for TLC: two or three requests, two payloads   *)
(* and a clock of a few instants.                                          *)
(***************************************************************************)
EXTENDS Idempotency, TLC

CONSTANTS w1, w2, w3, p1, p2

(* The requests are interchangeable, and so are the payloads.              *)
Symmetry == Permutations(Workers) \cup Permutations(Prints)

=============================================================================
