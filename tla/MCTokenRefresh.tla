--------------------------- MODULE MCTokenRefresh ---------------------------
(* An instance of TokenRefresh for TLC.                                    *)
EXTENDS TokenRefresh, TLC

CONSTANTS j1, q1, p1, p2

(* The request runs in the process of the job, or in another one.          *)
OneOrTwoProcesses ==
    {[process |-> [w \in Workers |-> p1], retries |-> 2],
     [process |-> [w \in Workers |-> IF w = q1 THEN p2 ELSE p1], retries |-> 1]}
=============================================================================
