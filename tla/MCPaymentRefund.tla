--------------------------- MODULE MCPaymentRefund --------------------------
(***************************************************************************)
(* Instances of PaymentRefund for TLC: two or three handlers and an order  *)
(* of a few cents.                                                         *)
(***************************************************************************)
EXTENDS PaymentRefund, TLC

CONSTANTS w1, w2, w3

(* The handlers are interchangeable.                                       *)
Symmetry == Permutations(Workers)

=============================================================================
