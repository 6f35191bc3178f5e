---------------------------- MODULE PaymentOrder ----------------------------
(***************************************************************************)
(* The life of the payment orders of one user, from CreateOrder to the     *)
(* order being COMPLETED: creation, the provider's webhook, active         *)
(* verification, cancellation, the expiry job, fulfilment and the admin's  *)
(* retry (payment_order.go, payment_order_lifecycle.go,                    *)
(* payment_fulfillment.go, payment_order_expiry_service.go).               *)
(*                                                                         *)
(* Every handler runs in a goroutine of its own, here a worker.  A worker  *)
(* interleaves with the others between any two statements that touch the   *)
(* database or the provider, so every such statement is an action.  A step *)
(* that may return an error has an alternative that spends one unit of the *)
(* fault budget MaxFaults; a worker may also vanish (process crash, request*)
(* context gone) at any point for one unit.                                *)
(*                                                                         *)
(* The refund statuses are reached from COMPLETED only, and are the        *)
(* subject of PaymentRefund.                                               *)
(***************************************************************************)
EXTENDS Naturals, FiniteSets

CONSTANTS
    Orders,        \* ids of the user's orders
    NoOrder,       \* what an idle worker works on
    SubOrders,     \* the subscription orders among them; the others are balance orders
    SilentOrders,  \* orders whose provider may report the payment without its amount
    PopupOrders,   \* orders on EasyPay in popup mode: no trade_no at creation, not cancelable upstream
    Workers,       \* handler goroutines
    MaxPending,    \* cfg.MaxPendingOrders
    DailyLimit,    \* cfg.DailyLimit, every order counting for one unit of money
    MaxFaults      \* bound: failed calls, crashes and deletions in one behaviour

ASSUME ConstantsAssumption ==
    /\ NoOrder \notin Orders
    /\ SubOrders \subseteq Orders
    /\ SilentOrders \subseteq Orders
    /\ PopupOrders \subseteq Orders
    /\ MaxPending \in Nat
    /\ DailyLimit \in Nat
    /\ MaxFaults \in Nat

VARIABLES
    \* the payment_orders row
    status,    \* its status, "NONE" before the row exists
    paidAt,    \* orders whose paid_at is set
    tradeNo,   \* orders whose payment_trade_no is not empty
    recent,    \* orders whose updated_at is within paymentGraceMinutes
    due,       \* orders whose expires_at has passed
    \* what the user got
    code,      \* the order's redeem code: "absent", "unused" or "used"
    credits,   \* how often the order's balance or subscription days were granted
    logged,    \* orders with a SUBSCRIPTION_SUCCESS row in payment_audit_logs
    \* the provider and the user
    upstream,  \* the payment at the provider: "none", "open", "paid", "wrong" (paid in
               \* another amount) or "closed"
    link,      \* orders whose pay URL reached the user
    acked,     \* orders whose webhook was answered with success
    \* the handlers
    pc,        \* where a worker stands
    op,        \* what it was started for
    on,        \* the order it works on
    carried,   \* workers whose notification carries a trade number
    faults,    \* units of the fault budget spent
    \* history
    reopened,  \* orders that a failed creation took out of RECHARGING or COMPLETED
    deleted    \* orders whose redeem code an administrator deleted

row      == <<status, paidAt, tradeNo, recent, due>>
benefit  == <<code, credits, logged>>
provider == <<upstream, link, acked>>
worker   == <<pc, op, on, carried>>
history  == <<reopened, deleted>>
vars     == <<row, benefit, provider, worker, faults, history>>

OrderStatuses == {"PENDING", "PAID", "RECHARGING", "COMPLETED", "EXPIRED",
                  "CANCELLED", "FAILED"}

Operations == {"create", "webhook", "verify", "cancel", "expire", "retry", "delete"}

Labels == {"idle", "checkLimits", "insert", "invokeProvider", "save", "createFailed",
           "queryOrder", "cancelPayment", "setStatus",
           "confirmPayment", "toPaid", "alreadyProcessed",
           "executeFulfillment", "lock", "doBalance", "createCode", "redeem",
           "doSub", "assign", "record", "markCompleted", "auditLog", "markFailed",
           "resetForRetry", "deleteCode"}

(* The labels between winning the CAS to RECHARGING and leaving it.        *)
Fulfilling == {"doBalance", "createCode", "redeem", "doSub", "assign", "record",
               "markCompleted", "markFailed"}

TypeOK ==
    /\ status \in [Orders -> OrderStatuses \cup {"NONE"}]
    /\ paidAt \subseteq Orders
    /\ tradeNo \subseteq Orders
    /\ recent \subseteq Orders
    /\ due \subseteq Orders
    /\ code \in [Orders -> {"absent", "unused", "used"}]
    /\ credits \in [Orders -> Nat]
    /\ logged \subseteq Orders
    /\ upstream \in [Orders -> {"none", "open", "paid", "wrong", "closed"}]
    /\ link \subseteq Orders
    /\ acked \subseteq Orders
    /\ pc \in [Workers -> Labels]
    /\ op \in [Workers -> Operations \cup {"none"}]
    /\ on \in [Workers -> Orders \cup {NoOrder}]
    /\ carried \subseteq Workers
    /\ faults \in 0 .. MaxFaults
    /\ reopened \subseteq Orders
    /\ deleted \subseteq Orders
    /\ \A w \in Workers : pc[w] # "idle" => on[w] \in Orders

Init ==
    /\ status = [o \in Orders |-> "NONE"]
    /\ paidAt = {} /\ tradeNo = {} /\ recent = {} /\ due = {}
    /\ code = [o \in Orders |-> "absent"]
    /\ credits = [o \in Orders |-> 0]
    /\ logged = {}
    /\ upstream = [o \in Orders |-> "none"]
    /\ link = {} /\ acked = {}
    /\ pc = [w \in Workers |-> "idle"]
    /\ op = [w \in Workers |-> "none"]
    /\ on = [w \in Workers |-> NoOrder]
    /\ carried = {}
    /\ faults = 0
    /\ reopened = {} /\ deleted = {}

-----------------------------------------------------------------------------
(* Control of a worker                                                     *)

Fault == faults < MaxFaults /\ faults' = faults + 1 /\ UNCHANGED history

NoFault == UNCHANGED <<faults, history>>

At(w, label) == pc[w] = label

Goto(w, label) ==
    /\ pc' = [pc EXCEPT ![w] = label]
    /\ UNCHANGED <<op, on, carried>>

(* A handler starts on order o; withTradeNo is whether the notification it *)
(* may produce carries a trade number.                                     *)
Start(w, operation, o, withTradeNo, label) ==
    /\ At(w, "idle")
    /\ pc' = [pc EXCEPT ![w] = label]
    /\ op' = [op EXCEPT ![w] = operation]
    /\ on' = [on EXCEPT ![w] = o]
    /\ carried' = IF withTradeNo THEN carried \cup {w} ELSE carried \ {w}

(* The handler returns without an answer that anybody acts on.             *)
Finish(w) ==
    /\ pc' = [pc EXCEPT ![w] = "idle"]
    /\ op' = [op EXCEPT ![w] = "none"]
    /\ on' = [on EXCEPT ![w] = NoOrder]
    /\ carried' = carried \ {w}

(* HandlePaymentNotification returns: only the webhook handler tells the   *)
(* provider, success on a nil error and 500 otherwise.                     *)
Return(w, ok) ==
    /\ Finish(w)
    /\ acked' = IF ok /\ op[w] = "webhook" THEN acked \cup {on[w]} ELSE acked
    /\ UNCHANGED <<upstream, link>>

(* Variant: the update forgets its WHERE on the status.                    *)
CASUnguarded(o, from, to) ==
    status' = [status EXCEPT ![o] = to] /\ recent' = recent \cup {o}

(* UPDATE payment_orders SET status = to WHERE id = o AND status IN from;  *)
(* every write of a row renews its updated_at.                             *)
CAS(o, from, to) ==
    IF status[o] \in from
    THEN status' = [status EXCEPT ![o] = to] /\ recent' = recent \cup {o}
    ELSE UNCHANGED <<status, recent>>

Pending == {o \in Orders : status[o] = "PENDING"}

-----------------------------------------------------------------------------
(* CreateOrder                                                             *)

(* A create request enters the transaction of createOrderInTx; a request   *)
(* refused earlier (validation, cancel rate limit, inactive user) changes  *)
(* nothing and is no step.                                                 *)
CreateOrder(w, o) ==
    /\ status[o] = "NONE"
    /\ \A v \in Workers : on[v] # o
    /\ Start(w, "create", o, FALSE, "checkLimits")
    /\ UNCHANGED <<row, benefit, provider, faults, history>>

(* checkPendingLimit and checkDailyLimit: both only read.                  *)
CheckLimits(w) ==
    /\ At(w, "checkLimits")
    /\ LET spent == {o \in Orders : status[o] \in {"PAID", "RECHARGING", "COMPLETED"}
                                    /\ o \in paidAt}
       IN IF /\ Cardinality(Pending) < MaxPending
             /\ DailyLimit > 0 => Cardinality(spent) + 1 <= DailyLimit
          THEN Goto(w, "insert")
          ELSE Finish(w)
    /\ UNCHANGED <<row, benefit, provider, faults, history>>

(* The row is inserted and committed, PENDING and with no trade number.    *)
InsertOrder(w) ==
    /\ At(w, "insert")
    /\ \/ /\ CAS(on[w], {"NONE"}, "PENDING")
          /\ Goto(w, "invokeProvider")
          /\ NoFault
       \/ /\ Finish(w) /\ Fault
          /\ UNCHANGED <<status, recent>>
    /\ UNCHANGED <<paidAt, tradeNo, due, benefit, provider>>

(* SelectInstance, CreateProvider and CreatePayment; the payment may exist *)
(* at the provider although the call failed.                               *)
InvokeProvider(w) ==
    /\ At(w, "invokeProvider")
    /\ \/ /\ upstream' = [upstream EXCEPT ![on[w]] = "open"]
          /\ \/ Goto(w, "save") /\ NoFault
             \/ Goto(w, "createFailed") /\ Fault
       \/ /\ Goto(w, "createFailed") /\ Fault
          /\ UNCHANGED upstream
    /\ UNCHANGED <<row, benefit, link, acked>>

(* The payment details are saved, whatever the row's status has become,    *)
(* and the pay URL goes out with the response.  The write may be applied   *)
(* and reported as failed: the user then finds the pay URL in his orders,  *)
(* while CreateOrder takes the creation for failed.                        *)
SavePayment(w) ==
    /\ At(w, "save")
    /\ \/ /\ tradeNo' = IF on[w] \in PopupOrders THEN tradeNo ELSE tradeNo \cup {on[w]}
          /\ recent' = recent \cup {on[w]}
          /\ link' = link \cup {on[w]}
          /\ \/ Finish(w) /\ NoFault
             \/ Goto(w, "createFailed") /\ Fault
       \/ /\ Goto(w, "createFailed") /\ Fault
          /\ UNCHANGED <<tradeNo, recent, link>>
    /\ UNCHANGED <<status, paidAt, due, benefit, upstream, acked>>

(* invokeProvider failed: the status is overwritten, unconditionally.      *)
CreateFailed(w) ==
    /\ At(w, "createFailed")
    /\ \/ /\ CAS(on[w], OrderStatuses, "FAILED") /\ UNCHANGED <<faults, deleted>>
          /\ reopened' = IF status[on[w]] \in {"RECHARGING", "COMPLETED"}
                         THEN reopened \cup {on[w]} ELSE reopened
       \/ UNCHANGED <<status, recent>> /\ Fault
    /\ Finish(w)
    /\ UNCHANGED <<paidAt, tradeNo, due, benefit, provider>>

-----------------------------------------------------------------------------
(* Webhook, verification, cancellation and expiry                          *)

(* The provider reports the payment as made, in whatever amount.           *)
IsPaid(o) == upstream[o] \in {"paid", "wrong"}

(* handleNotify: the provider delivers, or delivers again, the success     *)
(* notification of a paid order.  When no provider instance can be built   *)
(* the delivery is answered with success and dropped.                      *)
HandleNotify(w, o) ==
    /\ IsPaid(o)
    /\ \/ /\ Start(w, "webhook", o, TRUE, "confirmPayment")
          /\ NoFault
          /\ UNCHANGED acked
       \/ /\ At(w, "idle") /\ Fault
          /\ acked' = acked \cup {o}
          /\ UNCHANGED worker
    /\ UNCHANGED <<row, benefit, upstream, link>>

(* VerifyOrderByOutTradeNo and VerifyOrderPublic                           *)
VerifyOrder(w, o) ==
    /\ status[o] \in {"PENDING", "EXPIRED"}
    /\ Start(w, "verify", o, o \in tradeNo, "queryOrder")
    /\ UNCHANGED <<row, benefit, provider, faults, history>>

(* CancelOrder and AdminCancelOrder                                        *)
CancelOrder(w, o) ==
    /\ status[o] = "PENDING"
    /\ Start(w, "cancel", o, o \in tradeNo, "queryOrder")
    /\ UNCHANGED <<row, benefit, provider, faults, history>>

(* ExpireTimedOutOrders, for one order of its list.                        *)
ExpireOrder(w, o) ==
    /\ status[o] = "PENDING" /\ o \in due
    /\ Start(w, "expire", o, o \in tradeNo, "queryOrder")
    /\ UNCHANGED <<row, benefit, provider, faults, history>>

(* After checkPaid returned "": cancelCore goes on, the others are done.   *)
AfterCheckPaid(w) ==
    IF op[w] \in {"cancel", "expire"} THEN Goto(w, "setStatus") ELSE Finish(w)

(* checkPaid: a failed query, like a payment the provider does not know,   *)
(* counts as not paid; a payment found unpaid is cancelled upstream where  *)
(* the provider can do it.                                                 *)
QueryOrder(w) ==
    /\ At(w, "queryOrder")
    /\ LET o == on[w] IN
         \/ IsPaid(o) /\ Goto(w, "confirmPayment") /\ NoFault
         \/ /\ ~IsPaid(o) /\ upstream[o] # "none" /\ o \notin PopupOrders
            /\ Goto(w, "cancelPayment") /\ NoFault
         \/ /\ ~IsPaid(o) /\ (upstream[o] = "none" \/ o \in PopupOrders)
            /\ AfterCheckPaid(w) /\ NoFault
         \/ upstream[o] # "none" /\ AfterCheckPaid(w) /\ Fault
    /\ UNCHANGED <<row, benefit, provider>>

(* CancelPayment: closes a payment that is still open; errors are dropped. *)
CancelPayment(w) ==
    /\ At(w, "cancelPayment")
    /\ LET o == on[w] IN
         \/ /\ upstream' = IF upstream[o] = "open" THEN [upstream EXCEPT ![o] = "closed"]
                                                   ELSE upstream
            /\ NoFault
         \/ UNCHANGED upstream /\ Fault
    /\ AfterCheckPaid(w)
    /\ UNCHANGED <<row, benefit, link, acked>>

FinalStatus(operation) == IF operation = "expire" THEN "EXPIRED" ELSE "CANCELLED"

(* The status write of cancelCore.                                         *)
SetStatus(w) ==
    /\ At(w, "setStatus")
    /\ \/ CAS(on[w], {"PENDING"}, FinalStatus(op[w])) /\ NoFault
       \/ UNCHANGED <<status, recent>> /\ Fault
    /\ Finish(w)
    /\ UNCHANGED <<paidAt, tradeNo, due, benefit, provider>>

-----------------------------------------------------------------------------
(* Confirmation of a payment                                               *)

(* Variant: the amount is never compared.                                  *)
AmountUnchecked(o, reported) == TRUE

(* |paid - pay_amount| <= amountToleranceCNY, but only where an amount was *)
(* reported: one that is missing, not positive or not a number is taken    *)
(* for pay_amount.                                                         *)
AmountMatches(o, reported) == reported = "amount" => upstream[o] # "wrong"

(* What a report about the order may carry.                                *)
Reports(o) == IF o \in SilentOrders THEN {"amount", "no amount"} ELSE {"amount"}

(* confirmPayment: the order is read (a failed read is reported as success)*)
(* and the reported amount compared with pay_amount.                       *)
ConfirmPayment(w) ==
    /\ At(w, "confirmPayment")
    /\ \/ \E reported \in Reports(on[w]) :
             \/ /\ AmountMatches(on[w], reported)
                /\ Goto(w, "toPaid") /\ NoFault /\ UNCHANGED provider
             \/ ~AmountMatches(on[w], reported) /\ Return(w, FALSE) /\ NoFault
       \/ Return(w, TRUE) /\ Fault
    /\ UNCHANGED <<row, benefit>>

(* Variant: a cancelled order is not recovered.                            *)
PayableUnlessCancelled(o) ==
    \/ status[o] = "PENDING"
    \/ status[o] = "EXPIRED" /\ o \in recent

(* The statuses toPaid accepts: EXPIRED only within the grace period.      *)
Payable(o) ==
    \/ status[o] \in {"PENDING", "CANCELLED"}
    \/ status[o] = "EXPIRED" /\ o \in recent

(* toPaid: the trade number of the notification overwrites the row's.      *)
ToPaid(w) ==
    /\ At(w, "toPaid")
    /\ LET o == on[w] IN
         \/ /\ Payable(o)
            /\ status' = [status EXCEPT ![o] = "PAID"]
            /\ paidAt' = paidAt \cup {o}
            /\ recent' = recent \cup {o}
            /\ tradeNo' = IF w \in carried THEN tradeNo \cup {o} ELSE tradeNo \ {o}
            /\ Goto(w, "executeFulfillment") /\ NoFault
            /\ UNCHANGED provider
         \/ /\ ~Payable(o)
            /\ Goto(w, "alreadyProcessed") /\ NoFault
            /\ UNCHANGED <<status, paidAt, recent, tradeNo, provider>>
         \/ /\ Return(w, FALSE) /\ Fault
            /\ UNCHANGED <<status, paidAt, recent, tradeNo>>
    /\ UNCHANGED <<due, benefit>>

(* alreadyProcessed: only FAILED goes on, PAID and RECHARGING are errors,  *)
(* everything else and a failed read are a success.                        *)
AlreadyProcessed(w) ==
    /\ At(w, "alreadyProcessed")
    /\ LET s == status[on[w]] IN
         \/ s = "FAILED" /\ Goto(w, "executeFulfillment") /\ NoFault /\ UNCHANGED provider
         \/ s # "FAILED" /\ Return(w, s \notin {"PAID", "RECHARGING"}) /\ NoFault
         \/ Return(w, TRUE) /\ Fault
    /\ UNCHANGED <<row, benefit>>

-----------------------------------------------------------------------------
(* Fulfilment                                                              *)

(* RetryFulfillment: the checks, then the reset to PAID.                   *)
RetryFulfillment(w, o) ==
    /\ o \in paidAt /\ status[o] \in {"FAILED", "PAID"}
    /\ Start(w, "retry", o, FALSE, "resetForRetry")
    /\ UNCHANGED <<row, benefit, provider, faults, history>>

ResetForRetry(w) ==
    /\ At(w, "resetForRetry")
    /\ \/ /\ CAS(on[w], {"FAILED", "PAID"}, "PAID")
          /\ Goto(w, "executeFulfillment") /\ NoFault
       \/ /\ Finish(w) /\ Fault
          /\ UNCHANGED <<status, recent>>
    /\ UNCHANGED <<paidAt, tradeNo, due, benefit, provider>>

(* executeFulfillment and the checks of ExecuteBalanceFulfillment and      *)
(* ExecuteSubscriptionFulfillment.                                         *)
ExecuteFulfillment(w) ==
    /\ At(w, "executeFulfillment")
    /\ LET s == status[on[w]] IN
         \/ s \in {"PAID", "FAILED"} /\ Goto(w, "lock") /\ NoFault /\ UNCHANGED provider
         \/ s \notin {"PAID", "FAILED"} /\ Return(w, s = "COMPLETED") /\ NoFault
         \/ Return(w, FALSE) /\ Fault
    /\ UNCHANGED <<row, benefit>>

(* The CAS to RECHARGING that admits one fulfiller; the loser returns nil. *)
Lock(w) ==
    /\ At(w, "lock")
    /\ LET o == on[w] IN
         \/ /\ status[o] \in {"PAID", "FAILED"}
            /\ CAS(o, {"PAID", "FAILED"}, "RECHARGING")
            /\ Goto(w, IF o \in SubOrders THEN "doSub" ELSE "doBalance") /\ NoFault
            /\ UNCHANGED provider
         \/ /\ status[o] \notin {"PAID", "FAILED"}
            /\ Return(w, TRUE) /\ NoFault
            /\ UNCHANGED <<status, recent>>
         \/ /\ Return(w, FALSE) /\ Fault
            /\ UNCHANGED <<status, recent>>
    /\ UNCHANGED <<paidAt, tradeNo, due, benefit>>

(* Variant: a failed lookup is taken for a code that was used.             *)
ResolveRedeemActionHasty(existing, lookupErr) ==
    CASE lookupErr            -> "record"
      [] existing = "absent"  -> "createCode"
      [] existing = "used"    -> "record"
      [] existing = "unused"  -> "redeem"

(* resolveRedeemAction: a failed lookup is taken for an absent code.       *)
ResolveRedeemAction(existing, lookupErr) ==
    CASE lookupErr \/ existing = "absent"   -> "createCode"
      [] ~lookupErr /\ existing = "used"    -> "record"
      [] ~lookupErr /\ existing = "unused"  -> "redeem"

(* doBalance looks the order's redeem code up.                             *)
DoBalance(w) ==
    /\ At(w, "doBalance")
    /\ \/ Goto(w, ResolveRedeemAction(code[on[w]], FALSE)) /\ NoFault
       \/ Goto(w, ResolveRedeemAction(code[on[w]], TRUE)) /\ Fault
    /\ UNCHANGED <<row, benefit, provider>>

(* CreateCode: the code is unique, so a second insert fails.               *)
CreateCode(w) ==
    /\ At(w, "createCode")
    /\ LET o == on[w] IN
         \/ /\ code[o] = "absent"
            /\ code' = [code EXCEPT ![o] = "unused"]
            /\ Goto(w, "redeem") /\ NoFault
         \/ code[o] # "absent" /\ Goto(w, "markFailed") /\ NoFault /\ UNCHANGED code
         \/ code[o] = "absent" /\ Goto(w, "markFailed") /\ Fault /\ UNCHANGED code
    /\ UNCHANGED <<row, credits, logged, provider>>

(* The transaction of RedeemService.Redeem: marks an unused code used and  *)
(* credits the balance, both or neither.                                   *)
UseCode(o) ==
    /\ code[o] = "unused"
    /\ code' = [code EXCEPT ![o] = "used"]
    /\ credits' = [credits EXCEPT ![o] = @ + 1]

(* Redeem may also fail after its commit, when the used code is re-read.   *)
Redeem(w) ==
    /\ At(w, "redeem")
    /\ \/ UseCode(on[w]) /\ Goto(w, "record") /\ NoFault
       \/ UseCode(on[w]) /\ Goto(w, "markFailed") /\ Fault
       \/ /\ code[on[w]] # "unused" /\ Goto(w, "markFailed") /\ NoFault
          /\ UNCHANGED <<code, credits>>
       \/ /\ code[on[w]] = "unused" /\ Goto(w, "markFailed") /\ Fault
          /\ UNCHANGED <<code, credits>>
    /\ UNCHANGED <<row, logged, provider>>

(* Variant: a failed read of the audit log is taken for a row.             *)
HasAuditLogHasty(o, readErr) == readErr \/ o \in logged

(* hasAuditLog for SUBSCRIPTION_SUCCESS: a failed read counts as no row.   *)
HasAuditLog(o, readErr) == ~readErr /\ o \in logged

(* doSub: the group is read, then the audit log.                           *)
DoSub(w) ==
    /\ At(w, "doSub")
    /\ \/ Goto(w, IF HasAuditLog(on[w], FALSE) THEN "record" ELSE "assign") /\ NoFault
       \/ Goto(w, IF HasAuditLog(on[w], TRUE) THEN "record" ELSE "assign") /\ Fault
       \/ Goto(w, "markFailed") /\ Fault
    /\ UNCHANGED <<row, benefit, provider>>

(* AssignOrExtendSubscription commits and may fail after that.             *)
Assign(w) ==
    /\ At(w, "assign")
    /\ \/ credits' = [credits EXCEPT ![on[w]] = @ + 1] /\ Goto(w, "record") /\ NoFault
       \/ credits' = [credits EXCEPT ![on[w]] = @ + 1] /\ Goto(w, "markFailed") /\ Fault
       \/ UNCHANGED credits /\ Goto(w, "markFailed") /\ Fault
    /\ UNCHANGED <<row, code, logged, provider>>

(* markCompleted records the commission rows first (their content is left  *)
(* out here) ...                                                           *)
RecordCommission(w) ==
    /\ At(w, "record")
    /\ \/ Goto(w, "markCompleted") /\ NoFault
       \/ Goto(w, "markFailed") /\ Fault
    /\ UNCHANGED <<row, benefit, provider>>

(* ... then moves RECHARGING to COMPLETED, ignoring the row count; the     *)
(* write may be applied and still be reported as an error.                 *)
MarkCompleted(w) ==
    /\ At(w, "markCompleted")
    /\ LET o == on[w] IN
         \/ /\ CAS(o, {"RECHARGING"}, "COMPLETED")
            /\ \/ Goto(w, "auditLog") /\ NoFault
               \/ Goto(w, "markFailed") /\ Fault
         \/ /\ UNCHANGED <<status, recent>>
            /\ Goto(w, "markFailed") /\ Fault
    /\ UNCHANGED <<paidAt, tradeNo, due, benefit, provider>>

(* ... and last writes the audit row, whose failure is only logged.        *)
AuditLog(w) ==
    /\ At(w, "auditLog")
    /\ \/ logged' = (IF on[w] \in SubOrders THEN logged \cup {on[w]} ELSE logged) /\ NoFault
       \/ UNCHANGED logged /\ Fault
    /\ Return(w, TRUE)
    /\ UNCHANGED <<row, code, credits>>

(* markFailed: only from RECHARGING; its own failure is only logged.       *)
MarkFailed(w) ==
    /\ At(w, "markFailed")
    /\ \/ CAS(on[w], {"RECHARGING"}, "FAILED") /\ NoFault
       \/ UNCHANGED <<status, recent>> /\ Fault
    /\ Return(w, FALSE)
    /\ UNCHANGED <<paidAt, tradeNo, due, benefit>>

-----------------------------------------------------------------------------
(* The user, the administrator, time and crashes                           *)

(* The user pays at the provider, which he can from the pay URL, and the   *)
(* provider reports that amount or another.                                *)
Pay(o) ==
    /\ o \in link /\ upstream[o] = "open"
    /\ \E result \in {"paid", "wrong"} : upstream' = [upstream EXCEPT ![o] = result]
    /\ UNCHANGED <<row, benefit, link, acked, worker, faults, history>>

(* The user types the order's redeem code, which the order view shows him, *)
(* into the redeem form: the same Redeem.                                  *)
RedeemByUser(o) ==
    /\ UseCode(o)
    /\ UNCHANGED <<row, logged, provider, worker, faults, history>>

(* RedeemService.Delete by an administrator, bounded by the same budget as *)
(* the failures: the check ...                                             *)
DeleteRedeemCode(w, o) ==
    /\ code[o] = "unused"
    /\ Start(w, "delete", o, FALSE, "deleteCode")
    /\ Fault
    /\ UNCHANGED <<row, benefit, provider>>

(* ... and the DELETE, by id only.                                         *)
DeleteCode(w) ==
    /\ At(w, "deleteCode")
    /\ code' = [code EXCEPT ![on[w]] = "absent"]
    /\ deleted' = deleted \cup {on[w]}
    /\ Finish(w)
    /\ UNCHANGED <<row, credits, logged, provider, faults, reopened>>

(* expires_at passes, which matters for PENDING orders only.               *)
Timeout(o) ==
    /\ status[o] = "PENDING" /\ o \notin due
    /\ due' = due \cup {o}
    /\ UNCHANGED <<status, paidAt, tradeNo, recent, benefit, provider, worker, faults, history>>

(* paymentGraceMinutes pass since the last write of the row; the age of a  *)
(* row matters for EXPIRED orders only.                                    *)
GraceElapses(o) ==
    /\ status[o] = "EXPIRED" /\ o \in recent
    /\ recent' = recent \ {o}
    /\ UNCHANGED <<status, paidAt, tradeNo, due, benefit, provider, worker, faults, history>>

(* The process, or the request, ends between two steps of a worker.        *)
Crash(w) ==
    /\ ~At(w, "idle")
    /\ Finish(w)
    /\ Fault
    /\ UNCHANGED <<row, benefit, provider>>

-----------------------------------------------------------------------------
Begin(w, o) ==
    \/ CreateOrder(w, o)
    \/ HandleNotify(w, o)
    \/ VerifyOrder(w, o)
    \/ CancelOrder(w, o)
    \/ ExpireOrder(w, o)
    \/ RetryFulfillment(w, o)
    \/ DeleteRedeemCode(w, o)

Step(w) ==
    \/ CheckLimits(w) \/ InsertOrder(w) \/ InvokeProvider(w)
    \/ SavePayment(w) \/ CreateFailed(w)
    \/ QueryOrder(w) \/ CancelPayment(w) \/ SetStatus(w)
    \/ ConfirmPayment(w) \/ ToPaid(w) \/ AlreadyProcessed(w)
    \/ ResetForRetry(w) \/ ExecuteFulfillment(w) \/ Lock(w)
    \/ DoBalance(w) \/ CreateCode(w) \/ Redeem(w)
    \/ DoSub(w) \/ Assign(w)
    \/ RecordCommission(w) \/ MarkCompleted(w) \/ AuditLog(w) \/ MarkFailed(w)
    \/ DeleteCode(w)

Environment(o) ==
    \/ Pay(o) \/ RedeemByUser(o) \/ Timeout(o) \/ GraceElapses(o)

Next ==
    \/ \E w \in Workers : Step(w) \/ Crash(w) \/ \E o \in Orders : Begin(w, o)
    \/ \E o \in Orders : Environment(o)

Spec == Init /\ [][Next]_vars

-----------------------------------------------------------------------------
(* Properties                                                              *)

(* Two goroutines never fulfil one order at the same time: the conditional *)
(* update PAID/FAILED -> RECHARGING (Lock) is the only mutual exclusion,   *)
(* and webhook, verify, cancel, expiry and retry all compete for it.  The  *)
(* one write that can break it is the unconditional FAILED of a creation   *)
(* whose last write was applied and reported as failed (reopened).         *)
SingleFulfiller ==
    \A v, w \in Workers :
        /\ pc[v] \in Fulfilling /\ pc[w] \in Fulfilling
        /\ on[v] = on[w] /\ on[v] \notin reopened
        => v = w

(* However often a balance order is confirmed, retried or interrupted, its *)
(* amount is credited at most once, unless its redeem code, which doBalance*)
(* uses as its idempotency key, was deleted.                               *)
BalanceCreditedOnce ==
    \A o \in Orders \ SubOrders : o \notin deleted => credits[o] <= 1

(* An order shown COMPLETED has been credited, whichever retry, skip or    *)
(* error path brought it there.                                            *)
CompletedIsCredited ==
    \A o \in Orders : status[o] = "COMPLETED" => credits[o] > 0

(* Paid, and in the right amount wherever the provider reports amounts.    *)
Covered(o) == upstream[o] = "paid" \/ (upstream[o] = "wrong" /\ o \in SilentOrders)

(* Nothing is credited that the provider does not hold the money for: the  *)
(* right amount, or any amount where its reports may come without one.     *)
CreditRequiresPayment == \A o \in Orders : credits[o] > 0 => Covered(o)

(* Once paid_at is set no late cancel, expiry job or failed creation moves *)
(* the order back to a status in which the payment is not visible.         *)
PaidStaysPaid ==
    \A o \in paidAt : status[o] \in {"PAID", "RECHARGING", "FAILED", "COMPLETED"}

(* A COMPLETED order is never touched again by this part of the service:   *)
(* not by markFailed after an error of markCompleted, nor by a retry, only *)
(* by a creation that ends in FAILED after the order was already paid for. *)
CompletedIsFinal ==
    [][\A o \in Orders \ reopened' :
          status[o] = "COMPLETED" => status'[o] = "COMPLETED"]_vars

-----------------------------------------------------------------------------
(* The inductive invariant behind the safety properties                    *)

Creating == {"checkLimits", "insert", "invokeProvider", "save", "createFailed"}

(* What an order's row, its benefit and its payment say of each other.     *)
OrderInv(o) ==
    /\ IsPaid(o) => o \in link
    /\ status[o] = "NONE" => o \notin link
    /\ o \in paidAt => /\ Covered(o)
                       /\ status[o] \in {"PAID", "RECHARGING", "FAILED", "COMPLETED"}
    /\ status[o] \in {"PAID", "RECHARGING", "COMPLETED"} => Covered(o)
    /\ code[o] # "absent" \/ credits[o] > 0 => Covered(o)
    /\ code[o] = "used" => credits[o] > 0
    /\ o \in logged \/ status[o] = "COMPLETED" => credits[o] > 0
    /\ o \notin deleted /\ o \notin SubOrders =>
          credits[o] <= 1 /\ (code[o] # "used" => credits[o] = 0)

(* What a handler may rely on where it stands.                             *)
WorkerInv(w) ==
    LET o == on[w] IN
    /\ pc[w] \in {"checkLimits", "insert"} => status[o] = "NONE"
    /\ pc[w] \in {"checkLimits", "insert", "invokeProvider", "save"} => o \notin link
    /\ pc[w] \in {"invokeProvider", "save", "createFailed"} => status[o] # "NONE"
    /\ pc[w] = "confirmPayment" => IsPaid(o)
    /\ pc[w] \in Fulfilling \cup {"toPaid", "alreadyProcessed", "resetForRetry",
                                  "executeFulfillment", "lock", "auditLog"}
          => Covered(o)
    /\ pc[w] \in Fulfilling /\ o \notin reopened =>
          \/ status[o] = "RECHARGING"
          \/ pc[w] = "markFailed" /\ status[o] = "COMPLETED"
    /\ pc[w] \in {"doSub", "assign"} => o \in SubOrders
    /\ pc[w] \in {"record", "markCompleted", "auditLog"} => credits[o] > 0

SingleCreator ==
    \A v, w \in Workers :
        pc[v] \in Creating /\ pc[w] \in Creating /\ on[v] = on[w] => v = w

(* Every step of every handler preserves this conjunction; the safety      *)
(* properties above follow from it.                                        *)
IndInv ==
    /\ TypeOK
    /\ \A o \in Orders : OrderInv(o)
    /\ \A w \in Workers : WorkerInv(w)
    /\ SingleFulfiller
    /\ SingleCreator

-----------------------------------------------------------------------------
(* Refinement                                                              *)

BalanceOrders == Orders \ SubOrders

Ledger == INSTANCE RechargeLedger WITH
    Orders    <- BalanceOrders,
    received  <- {o \in BalanceOrders : Covered(o)},
    granted   <- [o \in BalanceOrders |-> credits[o]],
    completed <- {o \in BalanceOrders : status[o] = "COMPLETED"}

(* Seen from outside, webhook, verification, expiry, retries, failures and *)
(* crashes amount to the ledger: paid, then granted once, then COMPLETED   *)
(* for good, as long as nobody has deleted a redeem code and no creation   *)
(* has ended in FAILED when the order was already being fulfilled.         *)
ImplementsLedger ==
    Ledger!Init /\ [][reopened' = {} /\ deleted' = {} => Ledger!Next]_(Ledger!ledger)

-----------------------------------------------------------------------------
(* Fairness and liveness                                                   *)

(* A started handler goes on; a provider delivers until it is answered     *)
(* with success.  Go serves each request in a goroutine of its own, so a   *)
(* delivery never waits for a free handler: with a finite set of workers   *)
(* that is strong fairness of the delivery.                                *)
Deliver(o) == o \notin acked /\ \E w \in Workers : HandleNotify(w, o)

Fairness ==
    /\ \A w \in Workers : WF_vars(Step(w))
    /\ \A o \in Orders : SF_vars(Deliver(o))

FairSpec == Spec /\ Fairness

(* docs/PAYMENT.md: "If the user has actually paid but the callback was    *)
(* delayed, the system will reconcile automatically", and EXPIRED means    *)
(* "Timed out without payment".  So an order paid while it was PENDING,    *)
(* whose provider delivers until it is answered with success, ends         *)
(* COMPLETED, or FAILED and open to the administrator's retry, as long as  *)
(* nothing fails.                                                          *)
PaidIsReconciled ==
    \A o \in Orders :
        upstream[o] = "paid" /\ status[o] = "PENDING"
          ~> status[o] \in {"COMPLETED", "FAILED"} \/ faults > 0

(* doSub: "check audit log to see if subscription was already assigned.    *)
(* Prevents double-extension on retry after markCompleted fails."  An      *)
(* order whose days were granted and whose fulfiller has reached           *)
(* markCompleted is not granted a second time, whatever fails after that.  *)
NoExtensionAfterMarkCompleted ==
    \A o \in SubOrders :
        [](/\ credits[o] = 1
           /\ \E w \in Workers : At(w, "record") /\ on[w] = o
           => [](credits[o] = 1))

=============================================================================
