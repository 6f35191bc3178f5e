----------------------------- MODULE Commission -----------------------------
(***************************************************************************)
(* The commissions of one order: recorded by markCompleted                 *)
(* (payment_fulfillment.go, promotion_split_support.go), settled by an     *)
(* administrator or by the settlement job, taken back by the job after a   *)
(* refund, and moved to the balance by their owner (affiliate_service.go,  *)
(* affiliate_commission_settlement_service.go).                            *)
(*                                                                         *)
(* An order earns one commission log for the buyer's inviter and one split *)
(* log for each tier above the buyer that has a share, by the rule and the *)
(* tiers that the attempt to fulfil it finds.  The transactions            *)
(* run at READ COMMITTED: one reads a row, and its updates become visible  *)
(* together when it commits, other writers of these rows waiting for it,   *)
(* so that a transaction is a reading step and a writing step.  A failed   *)
(* statement (a deadlock between the row locks of a settlement and of a    *)
(* clawback included) rolls it back and costs one unit of MaxFaults.       *)
(***************************************************************************)
EXTENDS Integers, FiniteSets, FiniteSetsExt

CONSTANTS
    Tiers,         \* 1 .. n: distributor, agent, channel partner
    Rules,         \* the target rates by tier that a rule may set, 0 for a missing tier
    DiffMode,      \* whether rule.CalcMode is commissionCalcModeDiff
    Inviter,       \* the buyer's inviter: the user of a tier, or 0 for another user
    LogAmount,     \* o.Amount * inviter.CommissionRate
    Transfers,     \* the amounts users ask to transfer
    BatchSize,     \* logs that one run of the job takes
    Requests,      \* requests of administrators and users
    Job,           \* the settlement job, at most one at a time in a process
    MaxFaults      \* bound: failed statements and crashes in one behaviour

ASSUME CommissionAssumption ==
    /\ Tiers \subseteq Nat \ {0} /\ IsFiniteSet(Tiers)
    /\ Rules \subseteq [Tiers -> Nat]
    /\ DiffMode \in BOOLEAN
    /\ Inviter \in Tiers \cup {0}
    /\ LogAmount \in Nat \ {0}
    /\ Transfers \subseteq Nat \ {0}
    /\ BatchSize \in Nat \ {0}
    /\ Job \notin Requests
    /\ MaxFaults \in Nat

Users == Tiers \cup {Inviter}

Workers == Requests \cup {Job}

(* The level of a split log is the position of its tier among those that   *)
(* have a target rate; a row is found by its user and its level.           *)
Levels == 1 .. Cardinality(Tiers)

Rows == Tiers \X Levels

VARIABLES
    rates,         \* target rates of the buyer's tiers, as this attempt read them
    \* the order and its fulfilment
    order,         \* payment_orders.status
    attempts,      \* fulfilments begun: one and the RECHARGE_RETRY rows
    step,          \* where markCompleted is
    todo,          \* tiers whose split log this attempt still has to write
    \* the tables
    log,           \* commission_logs.status of the order's row, "none" before it exists
    frozen,        \* whether the log is younger than the freeze window
    switch,        \* the setting of automatic settlement: "on" or "off"
    ahead,         \* pending logs of other orders that are older than this one
    split,         \* commission_split_logs.status by row, "none" for a missing row
    share,         \* commission_split_logs.commission_amount by row
    commission,    \* users.commission_balance
    transferred,   \* sum of a user's "transferred" rows, which is what his balance got
    \* the transactions
    pc,
    seen,          \* the status a worker's transaction read
    who,           \* the tier of a split settlement, the user of a transfer
    level,         \* the level of the row of a split settlement
    amount,        \* the amount of the row it read, or of a transfer
    \* history
    paid,          \* times the log's amount was added to the inviter's commission
    clawed,        \* times it was taken off again
    splitPaid,     \* times a split was added to its tier's commission
    overtaken,     \* whether a settlement or clawback wrote a log that had changed
    faults

orderVars == <<rates, order, attempts, step, todo>>
queue     == <<switch, ahead>>
logVars   == <<log, frozen, queue, paid, clawed, overtaken>>
splitVars == <<split, share, splitPaid>>
money     == <<commission, transferred>>
worker    == <<pc, seen, who, level, amount>>
vars      == <<orderVars, logVars, splitVars, money, worker, faults>>

Refundable == {"COMPLETED", "REFUND_REQUESTED", "REFUND_FAILED"}

Refunded == {"REFUNDED", "PARTIALLY_REFUNDED"}

OrderStatuses == {"RECHARGING", "FAILED", "REFUNDING"} \cup Refundable \cup Refunded

LogStatuses == {"none", "pending", "settled", "cancelled", "reversed"}

Labels == {"idle", "processOne", "readOrder", "settle", "settleWrite", "clawback",
           "clawbackWrite", "splitWrite", "transferWrite"}

TypeOK ==
    /\ rates \in Rules
    /\ order \in OrderStatuses
    /\ attempts \in Nat
    /\ step \in {"splits", "log", "complete", "ended"}
    /\ todo \subseteq Tiers
    /\ log \in LogStatuses
    /\ frozen \in BOOLEAN
    /\ switch \in {"on", "off"} /\ ahead \in Nat
    /\ split \in [Rows -> {"none", "pending", "settled"}]
    /\ share \in [Rows -> Nat]
    /\ commission \in [Users -> Int]
    /\ transferred \in [Users -> Nat]
    /\ pc \in [Workers -> Labels]
    /\ seen \in [Workers -> LogStatuses]
    /\ who \in [Workers -> Users \cup {0}]
    /\ level \in [Workers -> Nat]
    /\ amount \in [Workers -> Nat]
    /\ paid \in Nat /\ clawed \in Nat
    /\ splitPaid \in [Tiers -> Nat]
    /\ overtaken \in BOOLEAN
    /\ faults \in 0 .. MaxFaults

-----------------------------------------------------------------------------
(* buildCommissionSplitPlans.  A tier takes what its target rate exceeds   *)
(* the highest rate below it by; in other modes, its target rate.  Amounts *)
(* are in units in which the order's amount is 1.                          *)

(* Variant: every tier takes its full rate.                                *)
LowerTierRateNone(r, t) == 0

LowerTierRate(r, t) == Max({r[s] : s \in {u \in Tiers : u < t}} \cup {0})

CommissionAmount(r, t) ==
    IF DiffMode THEN Max({r[t] - LowerTierRate(r, t), 0}) ELSE r[t]

(* The tiers that get a split log.                                         *)
Plans(r) == {t \in Tiers : CommissionAmount(r, t) > 0}

(* The row of a tier.                                                      *)
Level(r, t) == Cardinality({s \in Tiers : s < t /\ r[s] > 0}) + 1

Row(r, t) == <<t, Level(r, t)>>

Init ==
    /\ rates \in Rules
    /\ order = "RECHARGING" /\ attempts = 1
    /\ step = "splits" /\ todo = Plans(rates)
    /\ log = "none" /\ frozen = TRUE
    /\ switch \in {"on", "off"} /\ ahead \in 0 .. BatchSize
    /\ split = [k \in Rows |-> "none"] /\ share = [k \in Rows |-> 0]
    /\ commission = [u \in Users |-> 0]
    /\ transferred = [u \in Users |-> 0]
    /\ pc = [w \in Workers |-> "idle"]
    /\ seen = [w \in Workers |-> "none"]
    /\ who = [w \in Workers |-> 0]
    /\ level = [w \in Workers |-> 0]
    /\ amount = [w \in Workers |-> 0]
    /\ paid = 0 /\ clawed = 0
    /\ splitPaid = [t \in Tiers |-> 0]
    /\ overtaken = FALSE
    /\ faults = 0

Fault == faults < MaxFaults /\ faults' = faults + 1

NoFault == UNCHANGED faults

-----------------------------------------------------------------------------
(* The fulfilment, which PaymentOrder shows to be one at a time.           *)

(* An error of markCompleted: markFailed puts the order to FAILED.         *)
Fail ==
    /\ Fault
    /\ order' = "FAILED" /\ step' = "ended" /\ todo' = {}
    /\ UNCHANGED <<rates, attempts>>

(* upsertCommissionSplitLogsForOrder, one row: a conflict on order, user   *)
(* and level overwrites the row, its status included.                      *)
UpsertSplit ==
    /\ order = "RECHARGING" /\ step = "splits" /\ todo # {}
    /\ \/ /\ LET t == Min(todo) IN
               /\ split' = [split EXCEPT ![Row(rates, t)] = "pending"]
               /\ share' = [share EXCEPT ![Row(rates, t)] = CommissionAmount(rates, t)]
               /\ todo' = todo \ {t}
          /\ UNCHANGED <<rates, order, attempts, step>> /\ NoFault
       \/ UNCHANGED <<split, share>> /\ Fail
    /\ UNCHANGED <<splitPaid, logVars, money, worker>>

SplitsRecorded ==
    /\ order = "RECHARGING" /\ step = "splits" /\ todo = {}
    /\ step' = "log"
    /\ UNCHANGED <<rates, order, attempts, todo, logVars, splitVars, money, worker, faults>>

(* Variant: the row is written without looking whether there is one.       *)
CreatePendingAlways == log' = "pending"

(* The row is created unless the order has one already.                    *)
CreatePending == log' = IF log = "none" THEN "pending" ELSE log

(* recordPendingCommissionIfNeeded; a failure to read the users is taken   *)
(* for a buyer without inviter.                                            *)
RecordPendingCommission ==
    /\ order = "RECHARGING" /\ step = "log"
    /\ \/ /\ CreatePending
          /\ step' = "complete"
          /\ UNCHANGED <<rates, order, attempts, todo>> /\ NoFault
       \/ /\ UNCHANGED log
          /\ step' = "complete"
          /\ UNCHANGED <<rates, order, attempts, todo>> /\ Fault
       \/ UNCHANGED log /\ Fail
    /\ UNCHANGED <<frozen, queue, paid, clawed, overtaken, splitVars, money, worker>>

MarkCompleted ==
    /\ order = "RECHARGING" /\ step = "complete"
    /\ \/ /\ order' = "COMPLETED" /\ step' = "ended"
          /\ UNCHANGED <<rates, attempts, todo>> /\ NoFault
       \/ Fail
    /\ UNCHANGED <<logVars, splitVars, money, worker>>

(* The process ends, or markFailed fails too: the order stays RECHARGING.  *)
CrashFulfillment ==
    /\ order = "RECHARGING" /\ step # "ended"
    /\ Fault
    /\ step' = "ended" /\ todo' = {}
    /\ UNCHANGED <<rates, order, attempts, logVars, splitVars, money, worker>>

(* RetryFulfillment of a FAILED order, up to the next markCompleted, which *)
(* reads the rule and the tiers again.                                     *)
RetryFulfillment ==
    /\ order = "FAILED"
    /\ order' = "RECHARGING" /\ attempts' = attempts + 1
    /\ rates' \in Rules
    /\ step' = "splits" /\ todo' = Plans(rates')
    /\ UNCHANGED <<logVars, splitVars, money, worker, faults>>

(* The refund of the order as PaymentRefund has it, by its statuses only.  *)
RefundOrder ==
    /\ \/ order = "COMPLETED" /\ order' = "REFUND_REQUESTED"
       \/ order \in Refundable /\ order' = "REFUNDING"
       \/ order = "REFUNDING" /\ order' \in Refunded \cup Refundable
    /\ UNCHANGED <<rates, attempts, step, todo, logVars, splitVars, money, worker, faults>>

-----------------------------------------------------------------------------
At(w, label) == pc[w] = label

Goto(w, label) ==
    /\ pc' = [pc EXCEPT ![w] = label]
    /\ UNCHANGED <<seen, who, level, amount>>

Finish(w) ==
    /\ pc' = [pc EXCEPT ![w] = "idle"]
    /\ seen' = [seen EXCEPT ![w] = "none"]
    /\ who' = [who EXCEPT ![w] = 0]
    /\ level' = [level EXCEPT ![w] = 0]
    /\ amount' = [amount EXCEPT ![w] = 0]

(* The transaction rolls back, or the process ends.                        *)
Rollback(w) ==
    /\ pc[w] # "idle"
    /\ Fault
    /\ Finish(w)
    /\ UNCHANGED <<orderVars, logVars, splitVars, money>>

(* UpdateCommissionBalance                                                 *)
AddCommission(u, n) ==
    /\ commission' = [commission EXCEPT ![u] = @ + n]
    /\ UNCHANGED transferred

(* SettleCommission reads the log, for an administrator or for the job ... *)
SettleRead(w) ==
    /\ IF w = Job THEN At(w, "settle") ELSE At(w, "idle")
    /\ log # "none"
    /\ IF log = "pending" THEN Goto(w, "settleWrite") ELSE Finish(w)
    /\ UNCHANGED <<orderVars, logVars, splitVars, money, faults>>

(* ... then marks it by its id alone and pays.                             *)
SettleWrite(w) ==
    /\ At(w, "settleWrite")
    /\ log' = "settled"
    /\ AddCommission(Inviter, LogAmount)
    /\ paid' = paid + 1
    /\ overtaken' = (overtaken \/ log # "pending")
    /\ Finish(w)
    /\ UNCHANGED <<frozen, queue, clawed, orderVars, splitVars, faults>>

(* SettleCommissionSplit: read ...                                         *)
SplitRead(w, t, l) ==
    /\ w # Job /\ At(w, "idle")
    /\ split[<<t, l>>] = "pending"
    /\ pc' = [pc EXCEPT ![w] = "splitWrite"]
    /\ who' = [who EXCEPT ![w] = t]
    /\ level' = [level EXCEPT ![w] = l]
    /\ amount' = [amount EXCEPT ![w] = share[<<t, l>>]]
    /\ UNCHANGED <<seen, orderVars, logVars, splitVars, money, faults>>

(* Variant: the update tests no status.                                    *)
SplitIsPendingUnchecked(k) == split[k] # "none"

SplitIsPending(k) == split[k] = "pending"

(* ... and update where the status still is pending; the amount is the one *)
(* that was read.                                                          *)
SplitWrite(w) ==
    /\ At(w, "splitWrite")
    /\ LET k == <<who[w], level[w]>> IN
         \/ /\ SplitIsPending(k)
            /\ split' = [split EXCEPT ![k] = "settled"]
            /\ splitPaid' = [splitPaid EXCEPT ![who[w]] = @ + 1]
            /\ AddCommission(who[w], amount[w])
            /\ UNCHANGED share
         \/ ~SplitIsPending(k) /\ UNCHANGED <<splitVars, money>>
    /\ Finish(w)
    /\ UNCHANGED <<orderVars, logVars, faults>>

Covers(u, n) == commission[u] >= n

(* TransferToBalance: the balance is compared ...                          *)
TransferRead(w, u, n) ==
    /\ w # Job /\ At(w, "idle")
    /\ Covers(u, n)
    /\ pc' = [pc EXCEPT ![w] = "transferWrite"]
    /\ who' = [who EXCEPT ![w] = u]
    /\ amount' = [amount EXCEPT ![w] = n]
    /\ UNCHANGED <<seen, level, orderVars, logVars, splitVars, money, faults>>

(* ... and reduced whatever it is by then, the user's balance and the log  *)
(* of the transfer being part of the transaction.                          *)
TransferWrite(w) ==
    /\ At(w, "transferWrite")
    /\ commission' = [commission EXCEPT ![who[w]] = @ - amount[w]]
    /\ transferred' = [transferred EXCEPT ![who[w]] = @ + amount[w]]
    /\ Finish(w)
    /\ UNCHANGED <<orderVars, logVars, splitVars, faults>>

-----------------------------------------------------------------------------
(* The settlement job and what it depends on.                              *)

FreezeEnds ==
    /\ log # "none" /\ frozen
    /\ frozen' = FALSE
    /\ UNCHANGED <<log, queue, paid, clawed, overtaken, orderVars, splitVars, money, worker,
                   faults>>

(* An administrator turns automatic settlement on or off.                  *)
SetAutoSettlement ==
    /\ switch' = IF switch = "on" THEN "off" ELSE "on"
    /\ UNCHANGED <<ahead, log, frozen, paid, clawed, overtaken, orderVars, splitVars, money,
                   worker, faults>>

(* An older log is decided, by the job or by hand; its order may also keep *)
(* it pending for ever.                                                    *)
OlderDecided ==
    /\ ahead > 0
    /\ ahead' = ahead - 1
    /\ UNCHANGED <<switch, log, frozen, paid, clawed, overtaken, orderVars, splitVars, money,
                   worker, faults>>

(* runOnce, unless it is turned off, takes a batch of the pending logs     *)
(* that are no longer frozen, the oldest first.                            *)
RunOnce ==
    /\ At(Job, "idle")
    /\ switch = "on"
    /\ log = "pending" /\ ~frozen /\ ahead < BatchSize
    /\ Goto(Job, "processOne")
    /\ UNCHANGED <<orderVars, logVars, splitVars, money, faults>>

ProcessOne ==
    /\ At(Job, "processOne")
    /\ IF log = "pending" THEN Goto(Job, "readOrder") ELSE Finish(Job)
    /\ UNCHANGED <<orderVars, logVars, splitVars, money, faults>>

(* Variant: only orders that are being fulfilled are left alone.           *)
DecisionHasty == IF order \in Refunded THEN "clawback"
                 ELSE IF order = "RECHARGING" THEN "idle" ELSE "settle"

(* Variant: a refunded order is left to the administrator.                 *)
DecisionIgnoresRefunds == IF order = "COMPLETED" THEN "settle" ELSE "idle"

(* What processOne does with a log, by the status of its order.            *)
Decision == IF order \in Refunded THEN "clawback"
            ELSE IF order = "COMPLETED" THEN "settle" ELSE "idle"

ReadOrder ==
    /\ At(Job, "readOrder")
    /\ IF Decision = "idle" THEN Finish(Job) ELSE Goto(Job, Decision)
    /\ UNCHANGED <<orderVars, logVars, splitVars, money, faults>>

(* ClawbackCommission reads the log ...                                    *)
ClawbackRead ==
    /\ At(Job, "clawback")
    /\ IF log \in {"pending", "settled"}
       THEN /\ pc' = [pc EXCEPT ![Job] = "clawbackWrite"]
            /\ seen' = [seen EXCEPT ![Job] = log]
            /\ UNCHANGED <<who, level, amount>>
       ELSE Finish(Job)
    /\ UNCHANGED <<orderVars, logVars, splitVars, money, faults>>

(* Variant: a settled commission is marked and not taken back.             *)
ClawbackEffectUnpaid ==
    /\ log' = IF seen[Job] = "pending" THEN "cancelled" ELSE "reversed"
    /\ UNCHANGED <<clawed, money>>

(* A pending commission is cancelled, a settled one reversed.              *)
ClawbackEffect ==
    IF seen[Job] = "pending"
    THEN /\ log' = "cancelled"
         /\ UNCHANGED <<clawed, money>>
    ELSE /\ log' = "reversed"
         /\ clawed' = clawed + 1
         /\ AddCommission(Inviter, -LogAmount)

(* ... and writes what it read calls for.                                  *)
ClawbackWrite ==
    /\ At(Job, "clawbackWrite")
    /\ ClawbackEffect
    /\ overtaken' = (overtaken \/ log # seen[Job])
    /\ Finish(Job)
    /\ UNCHANGED <<frozen, queue, paid, orderVars, splitVars, faults>>

-----------------------------------------------------------------------------
Fulfillment ==
    \/ UpsertSplit \/ SplitsRecorded \/ RecordPendingCommission \/ MarkCompleted
    \/ CrashFulfillment \/ RetryFulfillment \/ RefundOrder

Transaction(w) ==
    \/ SettleRead(w) \/ SettleWrite(w)
    \/ \E t \in Tiers, l \in Levels : SplitRead(w, t, l)
    \/ SplitWrite(w)
    \/ \E u \in Users, n \in Transfers : TransferRead(w, u, n)
    \/ TransferWrite(w)
    \/ Rollback(w)

JobStep == RunOnce \/ ProcessOne \/ ReadOrder \/ ClawbackRead \/ ClawbackWrite

JobConditions == FreezeEnds \/ SetAutoSettlement \/ OlderDecided

Next == Fulfillment \/ JobConditions \/ JobStep \/ \E w \in Workers : Transaction(w)

Spec == Init /\ [][Next]_vars

(* Time passes, and the timing wheel runs the job again and again.         *)
Fairness ==
    /\ WF_vars(FreezeEnds)
    /\ WF_vars(JobStep \/ SettleRead(Job) \/ SettleWrite(Job))

FairSpec == Spec /\ Fairness

-----------------------------------------------------------------------------
(* A tier is paid at most once per fulfilment attempt, over all its rows:  *)
(* a settlement of a split that another one just settled changes nothing,  *)
(* and only the upsert of a retried fulfilment makes it payable again.     *)
SplitPaidOncePerAttempt == \A t \in Tiers : splitPaid[t] <= attempts

(* The status of the log tells what the inviter was paid, whatever         *)
(* settlements, clawbacks and retried fulfilments did, unless a write      *)
(* overtook the check of another transaction.                              *)
LogTellsPaid == ~overtaken => paid - clawed = IF log = "settled" THEN 1 ELSE 0

(* When the order is COMPLETED, after however many partly written attempts *)
(* under other rules, the amounts in the rows of the rule it was completed *)
(* under make up the highest target rate among the buyer's tiers, no more  *)
(* and no less (diff mode).  Rows that only an earlier rule had stay.      *)
SplitsMakeUpTopRate ==
    DiffMode /\ order = "COMPLETED" =>
        MapThenSumSet(LAMBDA t : share[Row(rates, t)],
                      {t \in Plans(rates) : split[Row(rates, t)] # "none"})
            = Max({rates[t] : t \in Tiers} \cup {0})

SettledShare(u) ==
    (IF u = Inviter /\ log = "settled" THEN LogAmount ELSE 0)
    + (IF u \in Tiers /\ split[Row(rates, u)] = "settled" THEN share[Row(rates, u)] ELSE 0)

(* Every user's commission balance is what the tables show: his settled    *)
(* logs less his transfers, unless a write overtook another transaction's  *)
(* check or a fulfilment was retried.                                      *)
BalanceReconciles ==
    ~overtaken /\ attempts = 1 =>
        \A u \in Users : commission[u] = SettledShare(u) - transferred[u]

(* The job pays only for orders that completed: an order it found          *)
(* COMPLETED may have gone on to a refund, never back to its fulfilment.   *)
JobPaysCompleted ==
    [][At(Job, "settleWrite") /\ paid' > paid /\ pc'[Job] # pc[Job]
          => order \notin {"RECHARGING", "FAILED"}]_vars

(* The commission of an order that stays completed or refunded does not    *)
(* stay pending for ever: the job decides it once it is no longer frozen,  *)
(* as long as it is turned on and older pending logs leave room in its     *)
(* batch.  While a refund is requested, under way or failed it leaves it   *)
(* alone.                                                                  *)
PendingIsDecided ==
    (log = "pending" /\ order \in {"COMPLETED"} \cup Refunded)
        ~> (\/ log # "pending"
            \/ order \in {"REFUND_REQUESTED", "REFUNDING", "REFUND_FAILED"}
            \/ switch = "off" \/ ahead >= BatchSize)

=============================================================================
