------------------------------ MODULE MCBilling ------------------------------
(* An instance of Billing for TLC.                                         *)
EXTENDS Billing, TLC

CONSTANTS r1, r2, k1, k2, f1, f2

(* Two requests; one recorded twice; two with one key.                     *)
Cases ==
    {[balance |-> 1, policy |-> "sync",
      key |-> (r1 :> k1 @@ r2 :> k2), print |-> (r1 :> f1 @@ r2 :> f2)],
     [balance |-> 0, policy |-> "drop",
      key |-> (r1 :> k1 @@ r2 :> k1), print |-> (r1 :> f1 @@ r2 :> f1)],
     [balance |-> 0, policy |-> "sample",
      key |-> (r1 :> k1 @@ r2 :> k1), print |-> (r1 :> f1 @@ r2 :> f2)]}
=============================================================================
