# SubioHub in TLA+

SubioHub is a gateway in front of AI providers: it sells access (top-ups and subscriptions paid
through EasyPay, Alipay, WeChat Pay or Stripe), routes requests to upstream accounts, limits and
bills them. It is a Go server over PostgreSQL (through the generated ORM `ent`) and Redis, with a
Next.js client. This directory holds TLA+ models of the parts in which a mistake costs money or
blocks the system: payment orders, refunds and commissions, the slots and queues of the gateway, the
refresh of OAuth tokens, usage billing, idempotent requests and the lock of system operations. TLC
checks them on small instances; TLAPS proves their safety properties for every instance.

Contents: 1 inventory, 2 modules and the code they stand for, 3 runs, 4 fairness, 5 proofs,
6 disagreements between code and documentation, 7 further observations, 8 what is not modelled,
9 plan.

Run a check with `tlc -config <cfg> <module>` and a proof with `tlapm <module>.tla`.

## 1. Inventory

Paths are relative to `backend/internal/`.

| Part | State | Operations | What is hard | What makes it correct |
|---|---|---|---|---|
| Payment orders (`service/payment_order*.go`, `payment_fulfillment.go`) | `payment_orders` row, its redeem code, audit rows; the payment at the provider | create, webhook, verify, cancel, expiry job, fulfil, retry | all of them run at the same time on one row; each is a sequence of separate transactions and provider calls; each call may fail, before or after it took effect; redelivery, late payment, crash | one fulfilment at a time, credit once and only for money received, COMPLETED means credited, a payment is not forgotten, a payment made in time is reconciled |
| Refunds (`service/payment_refund.go`) | the same row, the user's balance or subscription, the provider | user's request, prepare, execute, rollback, restore | compensation instead of a transaction; the provider's answer may be lost; a plan made before the lock | one refunder, one refund accepted by the provider and in the amount shown, rollback covered by a deduction, a refund ends |
| Idempotent requests (`service/idempotency.go`, `repository/idempotency_repo.go`) | one row per scope and key | create, read, take over, store result, cleanup | conditional updates against rows read earlier, a clock read once, expiry | runs of one key exclude each other as long as they are in time, only a slow one loses its row, results are replayed, backoffs are waited for |
| System operation lock (`service/system_operation_lock_service.go`) | one such row with a lease, a renewal goroutine | acquire, renew, release | lease against slow or failed renewals, stale holders | operations exclude each other, an abandoned lock becomes free |
| Redeem codes, subscriptions | code rows, subscription rows | redeem, delete, assign, extend, revoke | check and write in different statements | a code is used once, extensions add up |
| Affiliates and commissions (`service/affiliate_*.go`, `promotion_split_support.go`) | commission logs, split logs, commission balances | record, settle (administrator, job), claw back, transfer | status read, then written by id; an upsert that resets a status; a retried fulfilment | a split is paid once, logs and balances tell what was paid, splits add up, a pending commission is decided |
| Usage billing (`service/usage_record_worker_pool.go`, `repository/usage_billing_repo.go`) and billing cache (`service/billing_cache_service.go`) | dedup rows and their archive, balances and their copies in Redis, a task pool, a write queue, a circuit breaker | check, load, submit, charge, deduct, invalidate, archive | full queues, asynchronous writes that overtake each other, a commit whose answer is lost | a request is charged once, what is served is charged, a wrong copy is explained and does not last, the breaker is not stuck |
| Gateway core (`handler/gateway_handler.go`), concurrency slots (`repository/concurrency_cache.go`), user message queue | sorted sets, counters and locks in Redis with TTL | admit, select, wait, lock, forward, fail over, release, clean up at start | TTL against running requests, clients that leave, several ways out of a handler, cleanup by a starting process | a request beyond a limit is accounted for by one that lost its slot, what the handler got it gives back, everything drains |
| OAuth token refresh (`service/oauth_refresh_api.go`, `token_refresh_service.go`) | credentials of an account, a lock and a token cache in Redis | refresh, recover, cache, force after a 401 | one refresh token, several processes, a lock that degrades, objects read earlier | refreshes exclude each other, the newest token is stored, a good account is not disabled, a due token is refreshed |
| API keys and their cache, account scheduling snapshot, rate limits, WebSocket pool | caches and snapshots of database rows, pooled connections | invalidate, poll, rebuild, lease | stale copies, ordering of messages | a change becomes visible; no connection is leased twice |
| Gateways, channels, pricing, monitoring, content, administration | request bodies, price tables, reports | translate, compute, list | formats of third parties, floating point | not a matter of states |

How they interact. `PaymentService` calls the provider, `RedeemService.Redeem` (which makes the
code the idempotency key of the credit), `SubscriptionService.AssignOrExtendSubscription`, the
affiliate recording and, for a refund, `UserRepository.DeductBalance`/`UpdateBalance` or
`SubscriptionService`. The expiry job is a ticker in the same process. The only mutual exclusion
between handlers is the conditional `UPDATE ... WHERE status IN (...)`; there are no row locks.
Write endpoints wrap their work in `IdempotencyCoordinator.Execute`; the system lock uses the same
table under a reserved scope. A gateway request passes the eligibility check of the billing cache,
takes the slots of its user and of an account, gets an access token (and may refresh it), and after
the answer submits its usage to the pool that charges it. These parts share the database and Redis.

`PROJECT.json` lists every part under `components`, and under `hazards` the places in the code
where an interleaving, a failure or a limit bites and a test would hardly go, each with the
properties that would notice.

## 2. Modules

A handler is a *worker*, the model of a goroutine. Workers interleave between any two statements
that touch the database or a provider, so every such statement is one action; a transaction is one
action. A call that may fail has an alternative that spends one unit of the budget `MaxFaults`, in
both variants (not carried out, carried out and reported as failed) where they lead to different
states. A worker may vanish at any point, also for a unit. The number of workers and the budget are the main
bounds.

* **`PaymentOrder`** - the orders of one user. Variables: the row (`status`, `paidAt`, `tradeNo`,
  `recent` for "updated within the grace period", `due` for "past expires_at"); what the user got
  (`code`, `credits`, `logged`); the provider (`upstream`, `link`, `acked`); the handlers (`pc`,
  `op`, `on`, `carried`). Every handler that touches an order is there: `CreateOrder` ..
  `CreateFailed` (payment_order.go), `HandleNotify`, `VerifyOrder`, `CancelOrder`, `ExpireOrder`
  and the steps of `checkPaid`/`cancelCore` (payment_order_lifecycle.go), `ConfirmPayment` ..
  `MarkFailed` and `RetryFulfillment` (payment_fulfillment.go), and an administrator deleting
  redeem codes. A payment is abstracted to its state at the provider, `"wrong"` being one whose
  amount is outside the tolerance of `confirmPayment`. `confirmPayment` skips its comparison when
  the reported amount is zero, NaN or infinite; `SilentOrders` are those whose provider may report
  such an amount (EasyPay's query does), and on them a payment in a wrong amount is accepted too.
  `SavePayment` may be applied and reported as failed, after which `CreateFailed` writes FAILED
  without a condition over whatever the order has become; `reopened` is the history variable for
  that, `deleted` the one for deleted redeem codes. Every order counts for one unit of the daily
  limit.
* **`RechargeLedger`** - the abstract specification of balance orders: money is received, granted
  once, then shown as completed for good. `PaymentOrder` implements it (`ImplementsLedger`) with
  the mapping received = `Covered`, granted = `credits`, completed = COMPLETED: every step is one of
  the ledger's or a stutter until a redeem code is deleted or a failed creation reopens an order.
  Subscription orders have no such ledger (section 6).
* **`PaymentRefund`** - one COMPLETED order, balance or subscription, with a trade number or without,
  and its refunds. `wallet` is the balance or the remaining days; `taken` is what refunds took and
  did not give back; `was`, `amount` and `cut` are the fields of a worker's `RefundPlan`. The
  provider's `RefundResponse.Status` is ignored by `gwRefund`, so a refund is first `accepted`; it is
  `returned` at once, or pending and then returned or `bounced` (`SettlePending`), which the service
  never learns. Deduction, rollback and the call of the provider may each take effect and be
  reported as failed; `lost` records that this happened to the provider's answer, `abandoned` that a
  refunder ended or failed in its last status write. Amounts are integers, so that tolerance,
  minimum and the rounded share of `calculateGatewayRefundAmount` are computed as in the code.
* **`RefundLedger`** - the abstract specification of refunds: the provider accepts the share of one
  refund, once, and then the order shows that refund for good. `PaymentRefund` implements it
  (`ImplementsRefundLedger`), until an answer of the provider is lost, with the mapping online = the
  order has a trade number, shown = `refundAmount` of a REFUNDED or PARTIALLY_REFUNDED order. An
  order without a trade number shows a refund of which nothing went through the provider, and a
  refund that was accepted need not have reached the user (section 7).
* **`IdempotencyRecord`** - the row of one scope and key, a clock, and the statements of
  `idempotency_repo.go`. NULL is 0, which the comparisons do not tell from a past instant.
* **`Idempotency`** - `Execute` over that row: create, read, take over an expired or failed row,
  run, store. Time passes while requests run, and nothing bounds how long one takes: a request that
  outlasts the processing timeout or the TTL runs on, another takes its row, and `displaced` and
  `overwritten` record the first and whether it then wrote its result over the other's. `keptUntil`
  and `failedUntil` are history variables as well.
* **`SystemOperationLock`** - `Acquire`, `Release` and the goroutine `renewLoop` over the same
  row. `renew` is the position of that goroutine.
* **`Commission`** - the commissions of one order: the inviter's log and the split logs of the
  tiers, their recording in `markCompleted` (upsert of splits, creation of the log, completion),
  settlement by a request or by the job, clawback, transfer, and the refund of the order. Each
  attempt to fulfil the order reads the rule again, one of `Rules`; `LowerTierRate` and
  `CommissionAmount` compute the plan of `buildCommissionSplitPlans` from it. A split row is found
  by its user and its level (`Rows`), and the level depends on which tiers have a rate, so that rows
  of an earlier rule stay beside those of the rule in force. The job takes `BatchSize` of the oldest
  pending logs: `ahead` counts those of other orders before this one. `switch` is the setting of
  automatic settlement. `overtaken` is a history variable: a settlement or clawback wrote a log that
  had changed since its transaction read it.
* **`Gateway`** - the handler `Messages` from admission to release, over the Redis scripts of slots,
  wait counters and serial locks. `slots`, `userSlots` name the requests that hold a slot; `orphans`,
  `userOrphans` count slots whose release is lost, which only their TTL frees. `lost` records what
  of a request's was removed under it (by TTL or by a starting process). A request whose client left
  goes on until its upstream call ends, although its slots are given back at once: `Running` counts
  it, `Uncovered` names it. Limits, accounts, switches
  and retries are chosen at the start from `Settings`, and so is whether a process joins while the
  others serve; its cleanup removes one kind of keys after the other. A client may leave at any moment; what the
  code does on a cancelled context is modelled at each step.
* **`TokenRefresh`** - the credentials of one account. The provider numbers the tokens it issues and
  accepts only the newest refresh token. The steps of `RefreshIfNeeded` (lock, re-read, send,
  answer, recovery after invalid_grant, persist, unlock), the job's retries and its outcome,
  `GetAccessToken` with both policies, and the 401 path of `RateLimitService`: upstream may answer
  401 to any token, and the account is then refreshed by force, or disabled at once (`"unauthorized"`:
  Antigravity, and OpenAI's answers that call the token invalidated, revoked or unauthorized).
  `dropped` and `overlapped` are history variables.
* **`Billing`** - requests of one user: eligibility check behind the breaker, singleflight load,
  cache fill, pool with its three overflow policies, the transaction of `Apply` with its two key
  tables, the archiving job, deduction and invalidation of the cached balance. `raced` records that
  a cache fill overlapped a change of the balance. Requests may share a key (a record repeated) or a
  key with another fingerprint. `ChargeElsewhere` stands for the user's requests in other
  processes, without a bound on their number: each finds the cached balance positive, is charged,
  and lowers and renews the cached entry. Its steps are one action, since what can happen between
  them happens between those of `Requests`.
* **`UsageLedger`** - the abstract specification of billing: a key is charged once, under the
  fingerprint that came first and stays; the balance moves by charges (those of other processes are
  counted in `elsewhere`) and credits only; a caller is
  told "charged" or "conflict" when that is so. `Billing` implements it (`ImplementsUsageLedger`)
  with the mapping billed = the fingerprint in the archive or else the live table, answer = what
  `Apply` returned.
* **`MCPaymentOrder`, `MCPaymentRefund`, `MCIdempotency`, `MCSystemLock`, `MCCommission`,
  `MCGateway`, `MCTokenRefresh`, `MCBilling`** - the instances for TLC.
* **`PaymentOrderProofs`, `PaymentRefundProofs`, `IdempotencyProofs`, `SystemOperationLockProofs`,
  `CommissionProofs`, `GatewayProofs`, `TokenRefreshProofs`, `BillingProofs`** - the theorems, one
  module for each component.

Operators whose name extends another's (`CASUnguarded`, `ReclaimableLocked`, ...), introduced as
*Variant*, are plausible slips in the code. They are used nowhere; putting one in the place of its
original makes the property that `PROJECT.json` names under `mutants` fail, which shows that the
property depends on that line.

## 3. Runs

| Run | Instance | Shows |
|---|---|---|
| `orders` (`MCPaymentOrder.cfg`) | a balance order, and a subscription order on a popup page whose provider may report no amount; both limits one, two handlers, one failure, crash or deletion of a redeem code | fulfilments exclude each other; nothing is credited that was not paid, in the right amount where amounts are reported; COMPLETED means credited; a paid order stays visible as paid; the refinement of `RechargeLedger` |
| `refund` (`MCRefund.cfg`) | a balance or a subscription order of 3 paid with 5, refunds of 1 and 3, tolerance 1, a balance that covers a user's request until some of it is spent, with a trade number or without, two handlers, any number of refusals by the provider and one failure, crash or write reported as failed | one refunder; one refund accepted, in the share shown; rollbacks covered; the refinement of `RefundLedger`; every refund that took the order lets go of it unless its refunder ended |
| `idempotency` (`MCIdempotency.cfg`) | two requests of any length, two payloads, TTL 3, processing timeout 2, five instants, one failure | runs in time exclude each other, only a request that is late loses its row, a stored success is kept, a backoff is waited for, all until a displaced request overwrites a row |
| `system_lock` (`MCSystemLock.cfg`) | two handlers, a lease of 6, renewals every 2, TTL 7, eleven instants, one failure | a lock whose renewals reach the row is kept through a failed renewal, late acquirers and the cleanup; an abandoned lock is free one lease later |
| `commission` (`MCCommission.cfg`) | two tiers, the lower one the inviter; a rule with rates 2 and 3 and one without a rate for the lower tier; two requests and the job with batches of one, a refund, a retried fulfilment, one failure | a split is paid once per attempt; logs and balances tell what was paid unless a write overtook a check; the rows of the rule in force make up the top rate; the job pays for completed orders, and decides every pending commission while it is on and older logs leave room in its batch |
| `gateway` (`MCGateway.cfg`) | two requests of one user in two processes, one of which may start under the requests of the other; the user, the account or the serial lock as the bottleneck; a failover or a retry; one failure or crash | every request beyond a limit is accounted for by one that lost its slot, the serial lock is exclusive, slots that reach the handler are given back unless a call fails, everything drains |
| `token_refresh` (`MCTokenRefresh.cfg`) | the job and a request in one process or two, two refreshes, one failure | refreshes exclude each other unless a call fails, the newest token is stored or its loss is explained, the job disables an account only after a loss or an overlap, no expired token stays cached, a due token is refreshed |
| `billing` (`MCBilling.cfg`) | two requests, with two keys or one, one fingerprint or two, all overflow policies, queues of one, a recharge, any number of requests elsewhere, two failures | charged once; served is charged under `sync`; drift of the cached balance is explained and heals; the breaker is not stuck; the refinement of `UsageLedger` |

Four more runs expect a violation (section 6): `payment_after_expiry`,
`subscription_extended_twice`, `system_lock_not_renewed` and `token_overwritten`.
Three proved invariants are not listed in a configuration because the refinement that is checked on
the same instance implies them: `BalanceCreditedOnce` (`RechargeLedger` grants once),
`RefundedIsAccepted` (`RefundLedger` shows the refund whose share was accepted) and `ChargedOnce`
(`UsageLedger`). `orders` compares states by a VIEW, which leaves out what no later step reads
(`Relevant` in `MCPaymentOrder`). Each passing run needs about three minutes with two workers, or
less.

Why the bounds are enough to be interesting. Two handlers are enough for every race of two
statements; the invariants quantify over pairs of workers. A fulfilment that fails after the credit
and is retried takes one failure; that more failures change nothing is proved (section 5). A refund
whose rollback fails takes one, since the provider may refuse at any time; a second one, such as the
audit row that is then not read, is left to the proofs. Two orders are enough for the limits,
which are the only place where orders meet. In `idempotency` five instants are longer than a TTL and
two processing timeouts, so that a record expires or is taken over while its first request still
runs, and that request ends after it; in `system_lock` eleven instants are a
lease, its abandonment and the start of a second one. Refunds of 1 and 3 of 3 are a
partial one, whose share of 5 is rounded, and a full one. In `commission` two rules are enough for a retry that moves a tier to another
level, and a batch of one is full with one older log. In
`gateway` two requests compete for every bound of one; an instance with two accounts and a retry
(9.8 million states, safety only) was checked once. In `token_refresh` two refreshes are one that
rotates the token and one that meets the rotated one; two failures were checked once for safety. In
`billing` queues of one task are full as soon as two requests meet; the requests elsewhere are
bounded by nothing but the cached balance. Type invariants (`TypeOK`) are
proved; the runs leave them out. Workers are
symmetric in the runs without a liveness property only. Deadlock is not checked: with
all orders settled and the budgets spent, the systems really have nothing to do.

## 4. Fairness

`PaymentOrder!FairSpec` assumes weak fairness of every started handler (Go's scheduler runs every
goroutine; each statement has a timeout and returns) and strong fairness of a delivery to an order
whose webhook was not answered with success: providers redeliver until then, and Go starts a
goroutine for each delivery, so a delivery never waits for a free worker, which with a finite set
of workers needs strong fairness. Nothing is assumed of the user, of the administrator, of the
expiry job or of time. It is used by the two runs that expect violations, so that their
counterexamples are not mere stops. `PaymentRefund!FairSpec` assumes weak fairness of started
handlers only; what no fairness helps against, the end of the process and the failure of the last
status write, is recorded in `abandoned` and excepted by `RefundEnds`.

`Commission!FairSpec` assumes weak fairness of the job's next step (a ticker; while it is turned off,
or its batch is filled by older logs, that step leaves this log alone) and of the end of the freeze
window. Nothing is assumed of the switch or of the older logs: `PendingIsDecided` excepts both.
`Gateway!FairSpec` assumes it of started requests (every wait has a timeout, every upstream call
ends), of starting processes and of the expiry of keys; `TokenRefresh!FairSpec` of started workers,
the job's next cycle included, and of the lapse of an abandoned lock; `Billing!FairSpec` of started
requests and tasks, of the cache workers and of a started invalidation. A cached balance is assumed
to lapse *unless it is renewed again and again*, since every deduction starts its TTL anew:
`WF_vars(CacheLapses) \/ []<><<Renewed>>_cache`. `DriftHeals` holds although the requests of other
processes may renew the entry at any time, because each deduction also lowers its value and a user
whose cached balance is used up is rejected. A slot or lock that lapses under its holder counts as a
failure and is not assumed to happen.

## 5. Proofs

For any sets of orders and workers, any limits, amounts and times that satisfy the named
assumptions, and any fault budget:

* `PaymentOrderProofs`: `TypeCorrect`, `Invariance` (`IndInv`), and from it
  `FulfilmentIsExclusive`, `CreditedAtMostOnce`, `CompletedOrdersAreCredited`,
  `CreditsArePaidFor`, `PaymentIsNotForgotten`, `CompletedOrdersStay`, and `Refinement`: the service
  implements `RechargeLedger` until a redeem code is deleted or a failed creation reopens an order.
* `PaymentRefundProofs`: `RefundTypeCorrect`, `RefundInvariance`, `RefundsExclude`,
  `RefundIsAcceptedOnce`, `RefundShowsWhatWasAccepted`, `RollbacksAreCovered`, `RefundsStay`, and
  `RefundRefinement`: the service implements `RefundLedger` until an answer of the provider is lost.
  Lost answers are steps of the model; `AcceptedOnce` and the refinement say nothing after one.
* `IdempotencyProofs`: `IdempotencyInvariance`, `RequestsRunSingly`,
  `OnlySlowRequestsLoseTheirRow`, `SuccessesAreKept`, `BackoffsAreWaitedFor`, for requests of any
  length and any TTL, timeout and backoff.
* `SystemOperationLockProofs`: `LockInvariance`, `LockTypeCorrect`, `LockIsFreed`, and
  `RenewedLockIsKept` under the hypothesis `LeaseSuffices`.
* `CommissionProofs`: `CommissionInvariance`, `CommissionTypeCorrect`, `SplitsArePaidOnce`,
  `LogIsTrue`, `BalancesReconcile`, `JobPaysForCompletedOrders`, `SplitsDivideTopRate`,
  `SplitsAddUp`, for any finite set of tiers and any rules, also ones that change between attempts.
* `GatewayProofs`: `GatewayInvariance`, `GatewayTypeCorrect`, `LimitsAreKept`,
  `SerialLockExcludes`, `CountersAreTakenBack`, `SlotsAreGivenBack`.
* `TokenRefreshProofs`: `TokenInvariance`, `TokenTypeCorrect`, `RefreshesNeverOverlap`,
  `AccountIsDisabledOnlyWhenLost`, `NewestTokenIsStored`, `ExpiredTokenIsNotKept`.
* `BillingProofs`: `BillingInvariance`, `BillingTypeCorrect`, `KeysAreChargedOnce`,
  `WhatIsServedIsCharged`, `ProbesReport`, `DriftHasItsCause`, for any requests, keys, fingerprints,
  policies and queue lengths, and `UsageRefinement`: billing implements `UsageLedger`.

The assumptions are the `ASSUME`s of the modules: types and disjointness of the constants, finite
sets of gateway requests and of tiers, a lease below the TTL, a renewal call shorter than the interval between renewals,
limits above zero.
`RenewedLockIsKept` needs one fact more, which is its hypothesis and not an assumption of the
module: `LeaseSuffices`, by which the lease outlasts as many failed renewals in a row as the budget
allows, plus the delays of the write that granted it and of the call that extends it. With more
failures than that the lock does lapse under its holder. The instance of the run satisfies it
(4 + 1 + 0 < 6); no other theorem needs it.

Most of the properties are not inductive as stated. The strengthenings:

* *Orders.* `OrderInv` ties the row to what lies outside it: a payment exists only once the link is
  out, paid_at implies a payment that covers the order (`Covered`) and one of four statuses, a used
  code means a credit and, without deletions, a balance order with a credit has a used code.
  `WorkerInv` says what a handler knows at each label, first of all that one in `Fulfilling` works on
  a RECHARGING order (or on a COMPLETED one, in `markFailed` after an error of `markCompleted`),
  unless the order is in `reopened`. The unconditional write of `CreateFailed` is harmless as long
  as the link is not out; when it is, because the last write took effect and was reported as failed,
  the payment stays visible (FAILED is one of the four statuses) and what was COMPLETED is fulfilled
  again: hence `reopened`.
* *Refunds.* `RefunderInv`: the refunder's order is REFUNDING, nothing was accepted before
  `markRefundOk` unless an answer was lost, and what would be rolled back was taken, except for a
  revoked subscription, whose rollback fails. The refinement adds `PlanInv`: a plan has one of the
  amounts that were entered, so that what the provider is asked for and what the order shows are the
  share and the amount of one refund.
* *Idempotency.* `OwnsRow` says that a request that executes and was not displaced is the only one,
  and that the row is its own, processing and locked until its deadline, or gone because its TTL has
  passed. Taking a row over needs an expired row, or a failed one, so whoever loses it is late:
  `OnlyTheSlowAreDisplaced` and `SingleRun` follow. `SuccessExpires` and `FailureIsKept` say that the
  row still holds the last result. All of it is claimed until a displaced request writes
  (`overwritten`).
* *System lock.* `OnSchedule` and `HeldTellsTime` tie the instants that acquirers and renewals carry
  to the clock and to `lastHeld`, from which `LeaseIsBounded` follows; that bound is
  `FreeAfterLease`. `LeaseCoversRenewal` is the budget argument: each failed renewal moves the next
  one by one interval and spends one unit, so that the lease is behind the next renewal by no more
  than `Spent(faults)` and the delays. `IdsGivenOut` makes the operation id of a holder its own.
* *Commissions.* `SplitsAccounted` counts, for each tier, payments made, pending rows and a tier
  still to be written together: never more than the attempts. `SplitsFollowPlan` says that, once the
  splits are recorded, every row of the rule in force is there with its planned share, and
  `FirstRowsStand` that in the first attempt there are no others. `JobFollowsOrder` says what the
  job's earlier read is still good for. `SplitsDivideTopRate`
  follows with the facts that a finite set of rates has a highest and a finite set of tiers a
  lowest member: the unit k of the top rate is in the share of the lowest tier whose rate reaches
  k, and in no other. `SplitsAddUp` counts these units: `Units` of a set of tiers is the union of
  their shares, disjoint sets of units add up, and the fold of the sum is shown to be the number of
  units by a smallest set on which it would not be.
* *Gateway.* `Sound` says of one request that it is entered in Redis wherever its label says that it
  holds something, unless the entry was removed under it (`lost`), and, without a failure, nowhere
  else. `AccountsFit` and `UsersFit` bound entries and orphans *together*, which is what the scripts
  compare with the limit; `WithinLimits` follows since every request that runs is entered or
  `Uncovered`. `HandedSlotsReturn` needs `NoUserOrphan` beside `Sound`.
* *Token refresh.* `RowIsAhead` and `OneCarries`: unless credentials were dropped, nobody has newer
  ones than the row except at most one worker, between the provider's answer and its write.
  `LockProtects` and `SendsWhatIsStored`: without a failure the lock belongs to the worker inside
  and what it sends is what is stored. `RefusedForAReason` and `DeadForAReason` carry what a
  refused refresh says about the past until the job decides. A step is shown to be `Harmless` to
  the workers, then the parts follow.
* *Billing.* `KeysTellCharges`: a key is in the live or the archive table exactly when it was charged,
  a transaction that has inserted its key is alone with it and the key is not live, and whoever saw
  the key, or charged it, is right for good. `ServedIsCharged` follows step by step, since `stopped`
  is taken back only by a crash. `HalfOpenIsProbed` is inductive: a request that was let through
  stays between the breaker and its report, and every report leaves the half open state. The cached
  balance has an invariant of its own, `DriftInv`: while nothing failed and no fill raced, the cache
  is ahead of the balance by the number of deductions that are charged and not yet taken from it
  (`CacheFollows`; a charge elsewhere lowers both), and what a fill read is still the balance (`WorkIsFresh`). Requests
  move through `Moves`, which says what the rest of the state can see of a step. The refinement
  needs `LedgerInv`: a key is never in both tables, so that archiving it is a stutter of the ledger
  and the fingerprint of either table is the one charged; a request has no outcome before it is
  done; and one that charged finds its own fingerprint. Steps are `Silent` or one of the ledger's.

Each induction is one lemma for the steps of a handler with one case per action, one for the starts,
one for the environment and one for crashes; action properties and the refinements follow from the
invariants.

Only model-checked: liveness (`RefundEnds`, `PendingIsDecided`, `DrainsInTheEnd`, `DueIsRefreshed`, `DriftHeals`), which with its fairness and ENABLED is beyond the
prover. The library's induction theorems take an operator as a parameter and cannot be used either;
where a proof needs an induction over finite sets (`SplitsAddUp`) it takes a smallest
counterexample instead, from the well-foundedness of the subset relation.

## 6. Disagreements between code and documentation

Each is a run that expects a violation and a finding in `PROJECT.json` with the quotations.

* `payment_after_expiry` (`MCPaymentLate.cfg`, `PaidIsReconciled`): the user pays while the expiry job
  stands between its query of the provider and its status write; the callback comes after the grace
  period, is answered with success (payment_fulfillment.go:112) and the order stays EXPIRED, which
  docs/PAYMENT.md:236 defines as "Timed out without payment", while :246 promises that a payment
  with a delayed callback is reconciled automatically. No failure is needed.
* `subscription_extended_twice` (`MCSubTwice.cfg`, `NoExtensionAfterMarkCompleted`): `doSub` looks for
  an audit row that, its comment says, "prevents double-extension on retry after markCompleted
  fails" (payment_fulfillment.go:354-355). `markCompleted` writes that row after everything in it
  that can fail, so that there is none when it failed, and the next delivery or retry grants the days
  again.
* `token_overwritten` (`MCTokenActive.cfg`, `StaysActive`): a request that upstream answers with 401
  stores the whole credentials of the account object it was selected with, to set `expires_at`
  (ratelimit_service.go:193). When a refresh has stored a new refresh token since, it is overwritten
  by the one it replaced; the next refresh gets invalid_grant and the account is disabled, although
  no call failed and the comment says that it stays active for the refresh service.
* `system_lock_not_renewed` (`MCSystemLockTwice.cfg`, `OperationsExclude`): an acquired record that existed before keeps
  the operation id of its creator, so that the holder's renewals find nothing and end; after a lease
  a second operation runs beside it. No failure is needed.

One more has no run of its own. `newSelectionResult` forgets the release function of an account slot
when it cannot read the account again (gateway_service.go:2425), for which a client that leaves is
enough: the slot stays taken for its TTL of 15 minutes. The comments at concurrency_service.go:128
and :167 say that the release function "MUST be called", and those at gateway_helper.go:175 and
gateway_handler.go:237 that a disconnect leaks nothing. The model takes this step (an orphan);
`HandedSlotsReturn` speaks of the slots that reach the handler and says in its comment that this one
does not, and `DrainsInTheEnd` that the TTL frees it.

## 7. Further observations

Met while modelling; the models take these steps, and the properties are stated so that they hold
in spite of them.

Payments and idempotent requests:

* `confirmPayment` compares the amounts only when the reported one is positive and finite
  (payment_fulfillment.go:46-57), and EasyPay's query reports 0 when it cannot parse the amount
  (easypay.go:180): such a payment is taken for the right one. `CreditRequiresPayment` therefore
  asks for the right amount only where the provider reports amounts.
* When the last write of a creation took effect and was reported as failed, the order is set to
  FAILED without a condition (payment_order.go:63, 220), whatever it has become; one that was paid
  and COMPLETED by then can be fulfilled again, a balance order without a second credit, because its
  code is used, a subscription order with one.
* The audit row that guards a second deduction of a refund may fail to be written or read
  (payment_refund.go:170), and the retry deducts again.
* A refund that the provider carried out and whose answer was lost counts as failed
  (payment_refund.go:220): the balance is given back, and a further refund goes out under a new
  request number.
* A refund that the provider reports as pending is shown as REFUNDED (payment_refund.go:229), and
  nothing asks later whether the money was returned.
* A request that outlasts the processing timeout, or the TTL, of its idempotency record can run
  beside its successor, and then writes its result over the successor's row by id
  (idempotency_repo.go:186).
* A request that read an idempotency record as expired takes it over although another one has
  stored a new success in between, because the take-over compares the status and the lock but not
  the expiry (idempotency_repo.go:119), and repeats the operation.
* A processing record is refused until its TTL, whatever the processing timeout says
  (idempotency.go:345, config.go:168).
* `checkPendingLimit` counts and the insert follows without a lock (payment_order.go:165): two
  concurrent requests pass "maximum concurrent pending orders per user" (docs/PAYMENT.md:60).
* `checkPaid` cancels an unpaid payment at the provider for a mere verification too
  (payment_order_lifecycle.go:159): the order stays PENDING and can no longer be paid.
* An order left RECHARGING or REFUNDING by a process that ended is refused by every later webhook,
  retry and refund (payment_fulfillment.go:403, payment_refund.go:160).
* `RedeemService.Delete` checks and deletes in two statements (redeem_service.go:460): a code used
  in between is deleted, and with it the key that makes the credit idempotent: `BalanceCreditedOnce`
  and `Refinement` say nothing once that happened (`deleted`).
* An order without a trade number becomes REFUNDED although nothing was given back
  (payment_refund.go:209); the refinement of `RefundLedger` tells such orders apart.
* A refund that is retried after a failed rollback and fails again restores COMPLETED with the
  balance still deducted (payment_refund.go:236), and a rolled-back deduction counts as a recharge
  (repository/user_repo.go:465).
* A webhook that meets no provider instance, and one whose order cannot be read, are answered with
  success (payment_webhook_handler.go:80, payment_fulfillment.go:41). `EnsureProviders` marks the
  providers as loaded also after a failed query (payment_service.go:177-220).
* An order reported as paid in a wrong amount is never expired: `checkPaid` answers already paid
  (payment_order_lifecycle.go:152-157).
* A commission is not recorded when the user cannot be read (payment_fulfillment.go:221).
* Two concurrent extensions of a subscription each write an expiry computed from the row they read
  (subscription_service.go:199): the days of one are lost.

Commissions:

* Two settlements of a log, or a settlement and a clawback, both pass the check of its status
  (affiliate_service.go:117, 207): the commission is paid twice, or stays paid and is shown as
  cancelled. `LogTellsPaid` and `BalanceReconciles` hold where no such write overtook a check.
* Two transfers pass the check of the commission balance, which becomes negative
  (affiliate_service.go:267); a clawback may do the same. Nothing is claimed about its sign.
* The job reads the status of the order and settles later (line 174 of
  affiliate_commission_settlement_service.go): it may pay for an order whose refund has begun, and a
  log once settled is not looked at again.
* The upsert of a retried fulfilment makes a settled split payable again
  (promotion_split_support.go:383). When the rule changed between the attempts a tier may get a row
  at another level (line 293), and its earlier row stays pending and can be settled as well.
* The job reads the oldest pending logs, a batch at a time: logs that it leaves alone (orders with a
  requested or failed refund) may fill every batch and keep younger ones waiting
  (affiliate_commission_settlement_service.go:106). `PendingIsDecided` speaks of logs for which
  there is room, while automatic settlement is on.

Gateway:

* When a client leaves, the slots are released at once while the upstream call may still run: more
  calls than the limit are then under way. `WithinLimits` counts them as `Uncovered`.
* A starting process removes the slots and counters of all other processes, running ones included
  (concurrency_cache.go:497): an account then runs beyond its limit until those requests end.
* A failed increment of a wait counter counts as done, and is decremented later
  (concurrency_service.go:217).

Token refresh:

* Two failures, one that lets a refresh use an old object and one of the recovery's re-read, disable
  an account whose stored token is good.
* A refresh's answer is stored with the request's context: a client that leaves in between loses it
  (oauth_refresh_api.go:150). The lock is deleted without comparing its owner
  (repository/gemini_token_cache.go:46), so that a refresh slower than the lock's TTL lets a third
  one in beside its successor.
* For Antigravity accounts, and for answers that call the token invalidated or unauthorized, a 401
  disables the account at once (ratelimit_service.go:157-220), also when the token it was answered to
  has been replaced since.

Billing:

* The default overflow policy `sample` runs one in ten records that find the queue full and drops
  the others; records submitted after `Stop` are dropped under every policy.
* The eligibility check of subscriptions uses the request's context and counts "not found" as a
  failure: clients that leave may open the breaker for everybody (billing_cache_service.go:692, 429).
* Every deduction renews the TTL of the cached balance, so that a drifted value ends only when it
  is used up, when the user pauses for a TTL or when it is invalidated.
* `Stop` closes the channel of cache writes while a sender may stand between its check and its send
  (billing_cache_service.go:170).

## 8. What is not modelled

The payment providers' protocols, signatures and money formats; configuration and reports; the
contents of audit rows other than the two that are read back. Of redeem codes and subscriptions,
what an order does to them is modelled and the rest is not. In `PaymentOrder` balances are counts of
grants, and clock times are the two facts "due" and "recent". In `Idempotency` the replayed body is
its record's status. `Commission` leaves out the binding of users to tiers, and has one order.
`Gateway` leaves out request conversion, streaming, sticky sessions and session limits, the fallback
group for long prompts, the RPM-dependent delay and the removal of locks without a TTL; settings do
not change while requests run. In `TokenRefresh` a request's account object is a copy of the row at
its selection (the scheduler's snapshot may be older still), and administrators do not edit the
credentials. `Billing` charges balances; subscription and API key usage are committed in the same
transaction and cached through the same queue. The other gateways, pricing, monitoring and
administration are translation, floating point and reporting, and stay out. `PROJECT.json` gives
the reason for every part.

## 9. Plan

The modules of the first plan are written, except `Subscription`, whose one hazard is described
above, and every invariant, action property and refinement that the runs check is proved. What is
left, in this order:

1. An abstract specification of idempotent requests, which would put their theorems into one
   refinement, as `RechargeLedger`, `RefundLedger` and `UsageLedger` do.
2. Candidates for further modules: the WebSocket pool (leases, dialling, eviction), the scheduling
   snapshot (outbox, versions), the two-level cache of API keys, the rotation of login refresh
   tokens, promo codes.

Runs are kept few: a new component takes one run with all its properties, and existing runs are
merged where two instances ask one question.
