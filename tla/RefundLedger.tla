---------------------------- MODULE RefundLedger ----------------------------
(***************************************************************************)
(* What the refund of an order promises, with no word on locks, deductions,*)
(* rollbacks or retries: the provider accepts the share of one refund,     *)
(* once, and then the order shows that refund, for good.  An order that    *)
(* was not paid through the provider shows a refund without it.            *)
(***************************************************************************)
EXTENDS Naturals

CONSTANTS
    Amounts,   \* what an administrator may refund
    Share      \* of what was paid, what goes back for an amount

VARIABLES
    online,    \* whether the order has a payment at the provider
    accepted,  \* money the provider agreed to give back
    shown      \* the refund the order shows, 0 before

ledger == <<online, accepted, shown>>

Init == accepted = 0 /\ shown = 0

(* The provider accepts the share of a refund: the first time, and before  *)
(* the order shows any.                                                    *)
Accept(a) ==
    /\ online /\ accepted = 0 /\ shown = 0
    /\ accepted' = Share[a]
    /\ UNCHANGED <<online, shown>>

(* The order shows the refund whose share was accepted.                    *)
Show(a) ==
    /\ shown = 0 /\ (online => accepted = Share[a])
    /\ shown' = a
    /\ UNCHANGED <<online, accepted>>

Next == \E a \in Amounts : Accept(a) \/ Show(a)

Spec == Init /\ [][Next]_ledger

=============================================================================
