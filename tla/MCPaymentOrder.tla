--------------------------- MODULE MCPaymentOrder ---------------------------
(* PaymentOrder for TLC: the constants are given in the cfg files.         *)
EXTENDS PaymentOrder, TLC

Symmetry == Permutations(Workers)

(* The state without what no later step of the safety run reads: whether a *)
(* webhook was answered, the due date of an order that is not PENDING, the *)
(* age of one that is not EXPIRED, a trade number nobody will query with.  *)
Relevant ==
    <<status, paidAt, code, credits, logged, upstream, link, worker, faults, history,
      {o \in tradeNo : status[o] \in {"PENDING", "EXPIRED"}},
      {o \in recent : status[o] = "EXPIRED"},
      {o \in due : status[o] = "PENDING"}>>
=============================================================================
