---------------------------- MODULE MCCommission ----------------------------
(***************************************************************************)
(* An instance of Commission for TLC: a buyer invited by his distributor,  *)
(* two requests besides the settlement job.                                *)
(***************************************************************************)
EXTENDS Commission, TLC

CONSTANTS r1, r2, job

(* Both tiers have a share; the lower tier is missing, which moves the     *)
(* upper one to level 1.                                                   *)
TwoRules == {<<2, 3>>, <<0, 3>>}

=============================================================================
