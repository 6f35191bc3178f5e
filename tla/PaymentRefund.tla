---------------------------- MODULE PaymentRefund ---------------------------
(***************************************************************************)
(* The refund of one COMPLETED order (payment_refund.go): the user's       *)
(* request, the administrator's PrepareRefund and ExecuteRefund, the       *)
(* provider's refund, and the rollback when that fails.  What the order    *)
(* granted lies in the user's wallet: his balance for a balance order, the *)
(* remaining days of his subscription for a subscription order.            *)
(*                                                                         *)
(* As in PaymentOrder a handler is a worker, every statement that touches  *)
(* the database or the provider is an action, and a failed call or a crash *)
(* costs one unit of MaxFaults.  A call may also have done its work and be *)
(* reported as failed.                                                     *)
(***************************************************************************)
EXTENDS Integers

CONSTANTS
    Amount,         \* o.Amount, in cents
    PayAmount,      \* o.PayAmount, in cents: what the user paid
    Days,           \* o.SubscriptionDays of a subscription order
    Tolerance,      \* amountToleranceCNY, in cents
    RefundAmounts,  \* the amounts an administrator enters
    InitialWallet,  \* what is left in the wallet when the order is first refunded
    Workers,        \* handler goroutines
    MaxFaults       \* bound: failed calls and crashes in one behaviour

ASSUME RefundAssumption ==
    /\ Amount \in Nat \ {0} /\ PayAmount \in Nat \ {0} /\ Days \in Nat \ {0}
    /\ Tolerance \in Nat
    /\ RefundAmounts \subseteq Nat \ {0}
    /\ InitialWallet \in Nat
    /\ MaxFaults \in Nat

VARIABLES
    \* the payment_orders row and its audit log
    status,
    refundAmount,    \* refund_amount, 0 before a refund
    rollbackFailed,  \* "logged" once there is a REFUND_ROLLBACK_FAILED row, else "none"
    \* the user
    wallet,          \* balance or remaining days
    subscription,    \* "active", or "revoked" when its row is deleted
    taken,           \* what refunds of this order took from the wallet and did not give back
    \* columns of the order that refunds leave alone, and the provider
    orderType,       \* "balance" or "subscription"
    tradeNo,         \* payment_trade_no: "present" or "empty"
    accepted,        \* refunds the provider accepted, paid out at once or pending
    returned,        \* of these, what reached the user
    bounced,         \* of these, what was pending and came to nothing
    \* the handlers; was, amount and cut are fields of their RefundPlan
    pc,
    was,             \* Order.Status as PrepareRefund read it
    amount,          \* RefundAmount
    cut,             \* BalanceToDeduct, or SubDaysToDeduct of a found subscription
    forced,          \* workers whose prepDeduct has the parameter force
    faults,
    \* history
    lost,            \* whether the answer to an accepted refund was lost: "no" or "yes"
    abandoned        \* whether a refunder ended without its last status write: "no" or "yes"

row      == <<status, refundAmount, rollbackFailed>>
user     == <<wallet, subscription, taken>>
provider == <<orderType, tradeNo, accepted, returned, bounced>>
worker   == <<pc, was, amount, cut, forced>>
history  == <<lost, abandoned>>
vars     == <<row, user, provider, worker, faults, history>>

Statuses == {"COMPLETED", "REFUND_REQUESTED", "REFUNDING", "REFUND_FAILED",
             "REFUNDED", "PARTIALLY_REFUNDED"}

Refundable == {"COMPLETED", "REFUND_REQUESTED", "REFUND_FAILED"}

Refunded == {"REFUNDED", "PARTIALLY_REFUNDED"}

(* The labels between winning the update to REFUNDING and leaving it.      *)
Refunding == {"deduct", "gwRefund", "markRefundOk", "rollback", "rollbackLog",
              "markRefundFailed", "restoreStatus"}

Labels == {"idle", "setRequested", "prepDeduct", "lock"} \cup Refunding

TypeOK ==
    /\ status \in Statuses
    /\ refundAmount \in Nat
    /\ rollbackFailed \in {"none", "logged"}
    /\ wallet \in Int
    /\ subscription \in {"active", "revoked"}
    /\ taken \in Int
    /\ orderType \in {"balance", "subscription"}
    /\ tradeNo \in {"present", "empty"}
    /\ accepted \in Nat /\ returned \in Nat /\ bounced \in Nat
    /\ pc \in [Workers -> Labels]
    /\ was \in [Workers -> Statuses]
    /\ amount \in [Workers -> Nat]
    /\ cut \in [Workers -> Nat]
    /\ forced \subseteq Workers
    /\ faults \in 0 .. MaxFaults
    /\ lost \in {"no", "yes"} /\ abandoned \in {"no", "yes"}

Init ==
    /\ status = "COMPLETED" /\ refundAmount = 0 /\ rollbackFailed = "none"
    /\ wallet = InitialWallet
    /\ subscription = "active"
    /\ taken = 0
    /\ orderType \in {"balance", "subscription"}
    /\ tradeNo \in {"present", "empty"}
    /\ accepted = 0 /\ returned = 0 /\ bounced = 0
    /\ pc = [w \in Workers |-> "idle"]
    /\ was = [w \in Workers |-> "COMPLETED"]
    /\ amount = [w \in Workers |-> 0]
    /\ cut = [w \in Workers |-> 0]
    /\ forced = {}
    /\ faults = 0
    /\ lost = "no" /\ abandoned = "no"

-----------------------------------------------------------------------------
Spend == faults < MaxFaults /\ faults' = faults + 1

Fault == Spend /\ UNCHANGED history

NoFault == UNCHANGED <<faults, history>>

(* The answer to an accepted refund is lost.                               *)
AnswerFault == Spend /\ lost' = "yes" /\ UNCHANGED abandoned

(* A refunder ends without its last status write.                          *)
StatusFault == Spend /\ abandoned' = "yes" /\ UNCHANGED lost

At(w, label) == pc[w] = label

Goto(w, label) ==
    /\ pc' = [pc EXCEPT ![w] = label]
    /\ UNCHANGED <<was, amount, cut, forced>>

(* The handler returns; its plan is gone.                                  *)
Finish(w) ==
    /\ pc' = [pc EXCEPT ![w] = "idle"]
    /\ was' = [was EXCEPT ![w] = "COMPLETED"]
    /\ amount' = [amount EXCEPT ![w] = 0]
    /\ cut' = [cut EXCEPT ![w] = 0]
    /\ forced' = forced \ {w}

(* calculateGatewayRefundAmount: the paid amount for a full refund, else   *)
(* its share, rounded to a cent.                                           *)
GatewayAmount(amt) ==
    IF amt <= Amount + Tolerance /\ amt + Tolerance >= Amount
    THEN PayAmount
    ELSE (2 * PayAmount * amt + Amount) \div (2 * Amount)

Min2(a, b) == IF a <= b THEN a ELSE b

-----------------------------------------------------------------------------
(* RequestRefund, by the user and of balance orders only: his balance must *)
(* cover the amount ...                                                    *)
RequestRefund(w) ==
    /\ At(w, "idle")
    /\ orderType = "balance" /\ status = "COMPLETED" /\ wallet >= Amount
    /\ Goto(w, "setRequested")
    /\ UNCHANGED <<row, user, provider, faults, history>>

(* ... then the status is changed if it still is COMPLETED.                *)
SetRequested(w) ==
    /\ At(w, "setRequested")
    /\ \/ /\ status = "COMPLETED"
          /\ status' = "REFUND_REQUESTED" /\ refundAmount' = Amount
          /\ NoFault
       \/ status # "COMPLETED" /\ UNCHANGED <<status, refundAmount>> /\ NoFault
       \/ UNCHANGED <<status, refundAmount>> /\ Fault
    /\ Finish(w)
    /\ UNCHANGED <<rollbackFailed, user, provider>>

(* PrepareRefund: the order is read and the amount checked; deduct tells   *)
(* whether the administrator wants the grant taken back.                   *)
PrepareRefund(w, amt, force, deduct) ==
    /\ At(w, "idle")
    /\ status \in Refundable
    /\ amt <= Amount + Tolerance
    /\ pc' = [pc EXCEPT ![w] = IF deduct THEN "prepDeduct" ELSE "lock"]
    /\ was' = [was EXCEPT ![w] = status]
    /\ amount' = [amount EXCEPT ![w] = amt]
    /\ forced' = IF force /\ deduct THEN forced \cup {w} ELSE forced
    /\ UNCHANGED <<cut, row, user, provider, faults, history>>

(* min(RefundAmount, Balance), which counts only when it is positive.      *)
BalanceToDeduct(amt) == IF wallet > 0 THEN Min2(amt, wallet) ELSE 0

(* prepDeduct has found something to take away, or, when it could not look *)
(* and was not forced, gives up.                                           *)
Plan(w, n) ==
    /\ cut' = [cut EXCEPT ![w] = n]
    /\ pc' = [pc EXCEPT ![w] = "lock"]
    /\ forced' = forced \ {w}
    /\ UNCHANGED <<was, amount>>

PlanNothing(w) == IF w \in forced THEN Plan(w, 0) ELSE Finish(w)

(* Whether GetActiveSubscription finds it: an expired one may be found for *)
(* as long as it is cached.                                                *)
GetActiveSubscription ==
    {answer \in {"found", "missing"} :
        /\ answer = "found" => subscription = "active"
        /\ answer = "missing" => subscription = "revoked" \/ wallet <= 0}

PrepDeduct(w) ==
    /\ At(w, "prepDeduct")
    /\ \/ /\ orderType = "balance"
          /\ Plan(w, BalanceToDeduct(amount[w])) /\ NoFault
       \/ /\ orderType = "subscription"
          /\ \E answer \in GetActiveSubscription :
                IF answer = "found" THEN Plan(w, Days) ELSE PlanNothing(w)
          /\ NoFault
       \/ PlanNothing(w) /\ Fault
    /\ UNCHANGED <<row, user, provider>>

(* Variant: the update to REFUNDING forgets its WHERE on the status.       *)
LockableUnguarded == TRUE

(* WHERE status IN (COMPLETED, REFUND_REQUESTED, REFUND_FAILED)            *)
Lockable == status \in Refundable

(* ExecuteRefund: the update to REFUNDING that admits one refunder.        *)
Lock(w) ==
    /\ At(w, "lock")
    /\ \/ /\ Lockable
          /\ status' = "REFUNDING"
          /\ Goto(w, IF cut[w] > 0 THEN "deduct" ELSE "gwRefund")
          /\ NoFault
       \/ ~Lockable /\ Finish(w) /\ NoFault /\ UNCHANGED status
       \/ Finish(w) /\ Fault /\ UNCHANGED status
    /\ UNCHANGED <<refundAmount, rollbackFailed, user, provider>>

-----------------------------------------------------------------------------
(* The deduction                                                           *)

(* DeductBalance                                                           *)
DeductBalance(n) ==
    /\ orderType = "balance"
    /\ wallet' = wallet - n /\ taken' = taken + n
    /\ UNCHANGED subscription

(* ExtendSubscription by -Days, refused for an expired subscription; one   *)
(* that would expire is revoked instead.                                   *)
ShortenOrRevoke ==
    /\ orderType = "subscription" /\ subscription = "active" /\ wallet > 0
    /\ IF wallet > Days
       THEN wallet' = wallet - Days /\ taken' = taken + Days /\ UNCHANGED subscription
       ELSE wallet' = 0 /\ taken' = taken + wallet /\ subscription' = "revoked"

(* Variant: the amount to deduct is not cleared when the deduction is      *)
(* skipped.                                                                *)
SkipDeductionKeepingPlan(w) == Goto(w, "gwRefund")

(* The deduction is skipped; nothing is left to roll back.                 *)
SkipDeduction(w) ==
    /\ cut' = [cut EXCEPT ![w] = 0]
    /\ pc' = [pc EXCEPT ![w] = "gwRefund"]
    /\ UNCHANGED <<was, amount, forced>>

(* A failed read of the audit log counts as no REFUND_ROLLBACK_FAILED row. *)
(* DeductBalance, ExtendSubscription and RevokeSubscription may also fail  *)
(* after their write, or without it; the refund is then given up.          *)
Deduct(w) ==
    /\ At(w, "deduct")
    /\ \/ /\ rollbackFailed = "logged"
          /\ SkipDeduction(w)
          /\ NoFault /\ UNCHANGED <<wallet, taken, subscription>>
       \/ /\ DeductBalance(cut[w]) \/ ShortenOrRevoke
          /\ Goto(w, "gwRefund")
          /\ \/ rollbackFailed = "none" /\ NoFault
             \/ rollbackFailed = "logged" /\ Fault
       \/ /\ rollbackFailed = "none"
          /\ orderType = "subscription" /\ (subscription = "revoked" \/ wallet = 0)
          /\ Goto(w, "restoreStatus")
          /\ NoFault /\ UNCHANGED <<wallet, taken, subscription>>
       \/ /\ rollbackFailed = "none"
          /\ \/ DeductBalance(cut[w]) \/ ShortenOrRevoke
             \/ UNCHANGED <<wallet, taken, subscription>>
          /\ Goto(w, "restoreStatus")
          /\ Fault
    /\ UNCHANGED <<row, provider>>

-----------------------------------------------------------------------------
(* The provider and the end of the refund                                  *)

(* Refund at the provider, which gives back at most what was paid: a       *)
(* refund is paid out at once or pending, two answers that the code does   *)
(* not tell apart.  Its request numbers are never reused, so the provider  *)
(* cannot tell a retry from a further refund.                              *)
Accept(share) ==
    /\ accepted - bounced + share <= PayAmount
    /\ accepted' = accepted + share
    /\ returned' \in {returned, returned + share}
    /\ UNCHANGED bounced

(* gwRefund: an order without a trade number is skipped; the provider may  *)
(* refuse, as often as it is asked.                                        *)
GwRefund(w) ==
    /\ At(w, "gwRefund")
    /\ LET share == GatewayAmount(amount[w]) IN
         \/ /\ tradeNo = "empty"
            /\ Goto(w, "markRefundOk") /\ NoFault
            /\ UNCHANGED <<accepted, returned, bounced>>
         \/ /\ tradeNo = "present" /\ Accept(share)
            /\ \/ Goto(w, "markRefundOk") /\ NoFault
               \/ Goto(w, "rollback") /\ AnswerFault
         \/ /\ tradeNo = "present"
            /\ Goto(w, "rollback") /\ NoFault
            /\ UNCHANGED <<accepted, returned, bounced>>
    /\ UNCHANGED <<row, user, orderType, tradeNo>>

(* A pending refund is paid out or comes to nothing; the code never asks.  *)
SettlePending ==
    /\ returned + bounced < accepted
    /\ LET pending == accepted - returned - bounced IN
         \/ returned' = returned + pending /\ UNCHANGED bounced
         \/ bounced' = bounced + pending /\ UNCHANGED returned
    /\ UNCHANGED <<row, user, orderType, tradeNo, accepted, worker, faults, history>>

(* Variant: a partial refund leaves the order open to another one.         *)
FinalStatusReopened(amt) == IF amt < Amount THEN "COMPLETED" ELSE "REFUNDED"

(* What markRefundOk writes.                                               *)
FinalStatus(amt) == IF amt < Amount THEN "PARTIALLY_REFUNDED" ELSE "REFUNDED"

(* markRefundOk: if the write fails the order stays REFUNDING.             *)
MarkRefundOk(w) ==
    /\ At(w, "markRefundOk")
    /\ \/ /\ status' = FinalStatus(amount[w]) /\ refundAmount' = amount[w]
          /\ NoFault
       \/ UNCHANGED <<status, refundAmount>> /\ StatusFault
    /\ Finish(w)
    /\ UNCHANGED <<rollbackFailed, user, provider>>

(* RollbackRefund: UpdateBalance gives the balance back, ExtendSubscription*)
(* the days, from today if the subscription has expired; the latter fails  *)
(* for a revoked one, and either may fail after its write.                 *)
Rollback(w) ==
    /\ At(w, "rollback")
    /\ \/ cut[w] = 0 /\ Goto(w, "restoreStatus") /\ NoFault /\ UNCHANGED user
       \/ /\ cut[w] > 0
          /\ orderType = "balance" \/ subscription = "active"
          /\ wallet' = wallet + cut[w] /\ taken' = taken - cut[w]
          /\ UNCHANGED subscription
          /\ \/ Goto(w, "restoreStatus") /\ NoFault
             \/ Goto(w, "rollbackLog") /\ Fault
       \/ /\ cut[w] > 0 /\ orderType = "subscription" /\ subscription = "revoked"
          /\ Goto(w, "rollbackLog") /\ NoFault /\ UNCHANGED user
       \/ cut[w] > 0 /\ Goto(w, "rollbackLog") /\ Fault /\ UNCHANGED user
    /\ UNCHANGED <<row, provider>>

(* The audit row of a failed rollback; its own failure is only logged.     *)
RollbackLog(w) ==
    /\ At(w, "rollbackLog")
    /\ \/ rollbackFailed' = "logged" /\ NoFault
       \/ UNCHANGED rollbackFailed /\ Fault
    /\ Goto(w, "markRefundFailed")
    /\ UNCHANGED <<status, refundAmount, user, provider>>

(* The end of handleGwFail after a failed rollback.                        *)
MarkRefundFailed(w) ==
    /\ At(w, "markRefundFailed")
    /\ \/ status' = "REFUND_FAILED" /\ NoFault
       \/ UNCHANGED status /\ StatusFault
    /\ Finish(w)
    /\ UNCHANGED <<refundAmount, rollbackFailed, user, provider>>

(* Variant: only a requested refund is given back.                         *)
RestoredStatusRequested(before) ==
    IF before = "REFUND_REQUESTED" THEN "REFUND_REQUESTED" ELSE "REFUNDING"

(* The status PrepareRefund read, REFUND_FAILED becoming COMPLETED.        *)
RestoredStatus(before) ==
    IF before = "REFUND_REQUESTED" THEN "REFUND_REQUESTED" ELSE "COMPLETED"

(* restoreStatus: its error is dropped.                                    *)
RestoreStatus(w) ==
    /\ At(w, "restoreStatus")
    /\ \/ status' = RestoredStatus(was[w]) /\ NoFault
       \/ UNCHANGED status /\ StatusFault
    /\ Finish(w)
    /\ UNCHANGED <<refundAmount, rollbackFailed, user, provider>>

-----------------------------------------------------------------------------
(* The user spends his balance, or a day of his subscription passes.       *)
Use ==
    /\ wallet > 0
    /\ wallet' = wallet - 1
    /\ UNCHANGED <<row, subscription, taken, provider, worker, faults, history>>

(* The process, or the request, ends between two steps of a worker.        *)
Crash(w) ==
    /\ ~At(w, "idle")
    /\ Finish(w)
    /\ IF pc[w] \in Refunding THEN StatusFault ELSE Fault
    /\ UNCHANGED <<row, user, provider>>

Begin(w) ==
    \/ RequestRefund(w)
    \/ \E amt \in RefundAmounts, force, deduct \in BOOLEAN :
          PrepareRefund(w, amt, force, deduct)

Step(w) ==
    \/ SetRequested(w) \/ PrepDeduct(w) \/ Lock(w) \/ Deduct(w) \/ GwRefund(w)
    \/ MarkRefundOk(w) \/ Rollback(w) \/ RollbackLog(w)
    \/ MarkRefundFailed(w) \/ RestoreStatus(w)

Next == Use \/ SettlePending \/ \E w \in Workers : Begin(w) \/ Step(w) \/ Crash(w)

Spec == Init /\ [][Next]_vars

(* A started handler goes on.                                              *)
FairSpec == Spec /\ \A w \in Workers : WF_vars(Step(w))

-----------------------------------------------------------------------------
(* Properties                                                              *)

(* Two administrators never refund the order at the same time: every write *)
(* after the update to REFUNDING is unconditional and relies on it.        *)
SingleRefunder ==
    \A v, w \in Workers : pc[v] \in Refunding /\ pc[w] \in Refunding => v = w

(* Once the provider has accepted a refund the order is not open to        *)
(* another one, whatever fails after that, as long as no answer of the     *)
(* provider has been lost.                                                 *)
AcceptedOnce ==
    lost = "no" /\ accepted > 0 => status \in {"REFUNDING"} \cup Refunded

(* For an order shown as refunded, fully or partly, and paid through the   *)
(* provider, the provider has accepted exactly the share it shows.  That   *)
(* the money also reached the user is not known: a pending refund is shown *)
(* as refunded too.                                                        *)
RefundedIsAccepted ==
    lost = "no" /\ tradeNo = "present" /\ status \in Refunded
        => accepted = GatewayAmount(refundAmount)

(* However deductions, skipped deductions and rollbacks alternate, the     *)
(* user never gets back more than was taken.                               *)
RollbackIsCovered == taken >= 0

(* The outcome of a refund is final: no unconditional status write of a    *)
(* slower handler undoes it.                                               *)
RefundedIsFinal == [][(status \in Refunded) => (status' = status)]_vars

(* Whatever the provider, the deduction and the rollback answer, a refund  *)
(* that took the order gives it back or finishes it, unless a refunder     *)
(* ended, or failed in its last status write, which nothing repairs.       *)
RefundEnds == status = "REFUNDING" ~> status # "REFUNDING" \/ abandoned = "yes"

-----------------------------------------------------------------------------
(* The inductive invariant behind the safety properties                    *)

(* What a refunder may rely on where it stands: the order is its own, the  *)
(* provider has accepted nothing before it was asked, and what it would    *)
(* roll back has been taken.                                               *)
RefunderInv(w) ==
    /\ pc[w] \in Refunding => status = "REFUNDING"
    /\ lost = "no" /\ pc[w] \in Refunding \ {"markRefundOk"} => accepted = 0
    /\ lost = "no" /\ tradeNo = "present" /\ pc[w] = "markRefundOk"
          => accepted = GatewayAmount(amount[w])
    /\ orderType = "subscription" => cut[w] \in {0, Days}
    /\ pc[w] \in {"gwRefund", "rollback"}
          => \/ taken >= cut[w]
             \/ orderType = "subscription" /\ subscription = "revoked"

(* Every step of every handler preserves this conjunction; the safety      *)
(* properties above follow from it.                                        *)
IndInv ==
    /\ TypeOK
    /\ SingleRefunder
    /\ AcceptedOnce
    /\ RefundedIsAccepted
    /\ RollbackIsCovered
    /\ \A w \in Workers : RefunderInv(w)

-----------------------------------------------------------------------------
(* Refinement                                                              *)

Ledger == INSTANCE RefundLedger WITH
    Amounts <- RefundAmounts,
    Share   <- [a \in RefundAmounts |-> GatewayAmount(a)],
    online  <- tradeNo = "present",
    shown   <- IF status \in Refunded THEN refundAmount ELSE 0

(* Seen from outside, requests, deductions, refusals, rollbacks, retries   *)
(* and crashes amount to the ledger: the provider accepts the share of one *)
(* refund, once, and then the order shows that refund for good, as long as *)
(* no answer of the provider has been lost.                                *)
ImplementsRefundLedger ==
    Ledger!Init /\ [][lost' = "no" => Ledger!Next]_(Ledger!ledger)

(* What the mapping needs beside IndInv: the plan of a refund has one of   *)
(* the amounts that were entered.                                          *)
PlanInv ==
    \A w \in Workers :
        pc[w] \in {"prepDeduct", "lock"} \cup Refunding => amount[w] \in RefundAmounts

=============================================================================
