------------------------------ MODULE MCGateway ------------------------------
(* Instances of Gateway for TLC.                                           *)
EXTENDS Gateway, TLC

CONSTANTS r1, r2, u1, p1, p2, a1, a2

(* Two requests of one user, served by two processes.                      *)
OneUser == [r \in Requests |-> u1]

EachItsProcess == [r \in Requests |-> IF r = r1 THEN p1 ELSE p2]

(* The user is the bottleneck, and one process starts under the requests   *)
(* of the other; the account is, with another account to switch to; only   *)
(* the serial lock is, and the account is tried again.                     *)
TightAndWide ==
    {[userLimit |-> 1, accountLimit |-> 1, schedulable |-> {a1},
      switches |-> 1, retries |-> 0, joining |-> {p2}],
     [userLimit |-> 2, accountLimit |-> 1, schedulable |-> {a1, a2},
      switches |-> 1, retries |-> 0, joining |-> {}],
     [userLimit |-> 2, accountLimit |-> 2, schedulable |-> {a1},
      switches |-> 0, retries |-> 1, joining |-> {p2}]}
=============================================================================
