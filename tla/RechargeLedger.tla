--------------------------- MODULE RechargeLedger ---------------------------
(***************************************************************************)
(* What the payment service promises about balance orders, with no word on *)
(* how: money comes in at the provider, the balance grows once for it, and *)
(* only then is the order shown as COMPLETED, for good.                    *)
(***************************************************************************)
EXTENDS Naturals

CONSTANT Orders

VARIABLES
    received,   \* orders whose money the provider holds
    granted,    \* how often an order's amount was added to the balance
    completed   \* orders shown as COMPLETED

ledger == <<received, granted, completed>>

Init ==
    /\ received = {}
    /\ granted = [o \in Orders |-> 0]
    /\ completed = {}

(* The provider receives the user's payment.                               *)
Receive(o) ==
    /\ o \notin received
    /\ received' = received \cup {o}
    /\ UNCHANGED <<granted, completed>>

(* The order's amount is added to the balance: after the money is in, once.*)
Grant(o) ==
    /\ o \in received /\ granted[o] = 0
    /\ granted' = [granted EXCEPT ![o] = 1]
    /\ UNCHANGED <<received, completed>>

(* The order is shown as COMPLETED: after the grant.                       *)
Complete(o) ==
    /\ granted[o] = 1
    /\ completed' = completed \cup {o}
    /\ UNCHANGED <<received, granted>>

Next == \E o \in Orders : Receive(o) \/ Grant(o) \/ Complete(o)

Spec == Init /\ [][Next]_ledger

=============================================================================
