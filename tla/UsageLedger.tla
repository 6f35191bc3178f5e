---------------------------- MODULE UsageLedger -----------------------------
(***************************************************************************)
(* What the billing of requests promises, with no word on pools, tables,   *)
(* archives or retries: a key is charged once, under the fingerprint that  *)
(* came first and is never forgotten; the balance moves by exactly these   *)
(* charges, by those of other processes and by credits; and a caller is    *)
(* told that his request is charged, or that its key belongs to another,   *)
(* only when that is so.                                                   *)
(***************************************************************************)
EXTENDS Integers

CONSTANTS Requests, Keys, None

VARIABLES
    command,   \* the key and the fingerprint of a request
    balance,
    elsewhere, \* the charges of other processes, counted
    billed,    \* the fingerprint under which a key was charged, None before
    answer     \* what the caller was told: "none", "charged" or "conflict"

ledger == <<command, balance, elsewhere, billed, answer>>

Init ==
    /\ balance \in Int /\ elsewhere = 0
    /\ billed = [k \in Keys |-> None]
    /\ answer = [r \in Requests |-> "none"]

(* The key of request r is charged, one unit.                              *)
Charge(r) ==
    /\ billed[command[r].key] = None
    /\ billed' = [billed EXCEPT ![command[r].key] = command[r].print]
    /\ balance' = balance - 1
    /\ UNCHANGED <<command, elsewhere, answer>>

(* The caller is told what became of his request: after the charge.        *)
Answer(r) ==
    /\ answer[r] = "none" /\ billed[command[r].key] # None
    /\ answer' = [answer EXCEPT ![r] = IF billed[command[r].key] = command[r].print
                                       THEN "charged" ELSE "conflict"]
    /\ UNCHANGED <<command, balance, elsewhere, billed>>

(* The user's balance is topped up.                                        *)
Credit ==
    /\ balance' = balance + 1
    /\ UNCHANGED <<command, elsewhere, billed, answer>>

(* A request of another process is charged, one unit.                      *)
ChargeElsewhere ==
    /\ elsewhere' = elsewhere + 1
    /\ balance' = balance - 1
    /\ UNCHANGED <<command, billed, answer>>

Next == Credit \/ ChargeElsewhere \/ \E r \in Requests : Charge(r) \/ Answer(r)

Spec == Init /\ [][Next]_ledger

=============================================================================
