------------------------------- MODULE Billing -------------------------------
(***************************************************************************)
(* Requests of one user that pay from the balance, in one process: the     *)
(* eligibility check on the cached balance behind a circuit breaker        *)
(* (BillingCacheService), the bounded pool that records usage              *)
(* (UsageRecordWorkerPool), the transaction that charges a request at most *)
(* once (usageBillingRepository.Apply) with the job that archives its      *)
(* keys, and the cached balance, written by a queue of workers and read,   *)
(* deducted from and invalidated beside them.                              *)
(*                                                                         *)
(* A request costs one unit.  Each call of the database or Redis is an     *)
(* action; a call that fails, and a crash, cost one unit of MaxFaults.     *)
(***************************************************************************)
EXTENDS Integers, FiniteSets

CONSTANTS
    Requests, Keys, Prints,
    Settings,            \* balance, keys and fingerprints, overflow policy
    PoolQueue, PoolWorkers,
    CacheQueue,          \* cacheWriteBufferSize
    FailureThreshold, HalfOpenRequests,
    MaxFaults,           \* bound: failures in one behaviour
    None

ASSUME BillingAssumption ==
    /\ \A s \in Settings :
          /\ s.balance \in Int /\ s.policy \in {"sync", "sample", "drop"}
          /\ s.key \in [Requests -> Keys] /\ s.print \in [Requests -> Prints]
    /\ {PoolQueue, PoolWorkers, CacheQueue, FailureThreshold, HalfOpenRequests} \subseteq Nat \ {0}
    /\ MaxFaults \in Nat
    /\ None \notin Requests \cup Prints

VARIABLES
    setting,
    \* the database
    balance,
    live, archive,       \* usage_billing_dedup and its archive: fingerprints
    \* Redis
    cache,               \* billing:balance
    \* the process
    req,
    writes,              \* tasks of the cache write queue and its workers
    flight,              \* the leader of the singleflight load
    breaker,
    stopped,             \* the pool takes no more tasks
    recharge,            \* a credit of one unit, before its invalidation or after
    elsewhere,           \* requests of the user charged by other processes
    charged,             \* history: times a key was charged
    raced,               \* history: a cache fill overlapped a change of the balance
    faults

vars == <<setting, balance, live, archive, cache, req, writes, flight, breaker,
          stopped, recharge, elsewhere, charged, raced, faults>>

Labels == {"idle", "cache", "load", "join", "dbRead", "fill", "report", "error", "serve",
           "submit", "pooled", "claim", "existing", "claimed", "deduct", "done"}

(* The labels between the breaker and the report to it.                    *)
Checking == {"cache", "load", "join", "dbRead", "fill", "report", "error"}

Outcomes == {"none", "rejected", "unavailable", "unbilled", "dropped", "failed",
             "duplicate", "conflict", "recorded", "crashed"}

States == [pc : Labels, value : Int, inPool : BOOLEAN, outcome : Outcomes]

Entries == [value : Int, ttl : BOOLEAN]

Breakers == [state : {"closed", "open", "halfOpen"}, failures : 0 .. FailureThreshold,
             remaining : 0 .. HalfOpenRequests, elapsed : BOOLEAN]

(* What an enqueued write does, and for which request it was enqueued.     *)
Tasks == [kind : {"set", "deduct"}, of : Requests, value : Int]

TypeOK ==
    /\ setting \in Settings
    /\ balance \in Int
    /\ live \in [Keys -> Prints \cup {None}] /\ archive \in [Keys -> Prints \cup {None}]
    /\ cache \in Entries \cup {None}
    /\ req \in [Requests -> States]
    /\ writes \subseteq Tasks /\ IsFiniteSet(writes) /\ Cardinality(writes) <= CacheQueue
    /\ flight \in Requests \cup {None}
    /\ breaker \in Breakers
    /\ stopped \in BOOLEAN
    /\ recharge \in {"none", "invalidate", "done"}
    /\ elsewhere \in Nat
    /\ charged \in [Keys -> Nat]
    /\ raced \in BOOLEAN
    /\ faults \in 0 .. MaxFaults

Closed == [state |-> "closed", failures |-> 0, remaining |-> 0, elapsed |-> FALSE]

Init ==
    /\ setting \in Settings
    /\ balance = setting.balance
    /\ live = [k \in Keys |-> None] /\ archive = [k \in Keys |-> None]
    /\ cache = None
    /\ req = [r \in Requests |->
                [pc |-> "idle", value |-> 0, inPool |-> FALSE, outcome |-> "none"]]
    /\ writes = {} /\ flight = None
    /\ breaker = Closed
    /\ stopped = FALSE /\ recharge = "none" /\ elsewhere = 0
    /\ charged = [k \in Keys |-> 0]
    /\ raced = FALSE
    /\ faults = 0

-----------------------------------------------------------------------------
Fault == faults < MaxFaults /\ faults' = faults + 1

NoFault == UNCHANGED faults

At(r, label) == req[r].pc = label

Goto(r, label) == req' = [req EXCEPT ![r].pc = label]

Done(r, outcome) ==
    req' = [req EXCEPT ![r] = [pc |-> "done", value |-> 0, inPool |-> FALSE, outcome |-> outcome]]

Key(r) == setting.key[r]

Fingerprint(r) == setting.print[r]

database == <<balance, live, archive, charged>>
process  == <<writes, flight, breaker>>
others   == <<setting, stopped, recharge, elsewhere>>

(* A balance was read from the database and has not reached the cache.     *)
Filling ==
    \/ \E r \in Requests : At(r, "fill")
    \/ \E t \in writes : t.kind = "set"

(* A request was charged and the cache not told.                           *)
Deducting ==
    \/ \E r \in Requests : At(r, "deduct")
    \/ \E t \in writes : t.kind = "deduct"

-----------------------------------------------------------------------------
(* The circuit breaker                                                     *)

CanAllow ==
    \/ breaker.state = "closed"
    \/ breaker.state = "open" /\ breaker.elapsed
    \/ breaker.state = "halfOpen" /\ breaker.remaining > 0

Allowed ==
    IF breaker.state = "closed" THEN breaker
    ELSE [breaker EXCEPT
            !.state = "halfOpen", !.elapsed = FALSE,
            !.remaining = (IF breaker.state = "open" THEN HalfOpenRequests ELSE @) - 1]

(* Variant: a failed probe leaves the breaker half open.                   *)
OnFailureStays ==
    CASE breaker.state = "closed" ->
            LET failures == breaker.failures + 1
            IN  [breaker EXCEPT !.failures = failures,
                    !.state = IF failures >= FailureThreshold THEN "open" ELSE @]
      [] OTHER -> breaker

OnFailure ==
    CASE breaker.state = "open" -> breaker
      [] breaker.state = "halfOpen" ->
            [breaker EXCEPT !.state = "open", !.remaining = 0, !.elapsed = FALSE]
      [] OTHER ->
            LET failures == breaker.failures + 1
            IN  [breaker EXCEPT !.failures = failures, !.elapsed = FALSE,
                    !.state = IF failures >= FailureThreshold THEN "open" ELSE @]

(* resetTimeout has passed since openedAt.                                 *)
ResetTimeout ==
    /\ breaker.state = "open" /\ ~breaker.elapsed
    /\ breaker' = [breaker EXCEPT !.elapsed = TRUE]
    /\ UNCHANGED <<database, others, cache, req, writes, flight, raced, faults>>

-----------------------------------------------------------------------------
(* CheckBillingEligibility                                                 *)

Allow(r) ==
    /\ At(r, "idle") /\ ~stopped
    /\ IF CanAllow THEN breaker' = Allowed /\ Goto(r, "cache")
       ELSE UNCHANGED breaker /\ Done(r, "unavailable")
    /\ UNCHANGED <<database, others, cache, writes, flight, raced, faults>>

(* Redis; a failure of it is a miss.                                       *)
ReadCache(r) ==
    /\ At(r, "cache")
    /\ \/ /\ cache # None /\ NoFault
          /\ req' = [req EXCEPT ![r].pc = "report", ![r].value = cache.value]
       \/ cache = None /\ Goto(r, "load") /\ NoFault
       \/ cache # None /\ Goto(r, "load") /\ Fault
    /\ UNCHANGED <<database, others, process, cache, raced>>

(* singleflight: one request loads, the others wait for what it gets.      *)
Load(r) ==
    /\ At(r, "load")
    /\ IF flight = None THEN flight' = r /\ Goto(r, "dbRead")
       ELSE UNCHANGED flight /\ Goto(r, "join")
    /\ UNCHANGED <<database, others, writes, breaker, cache, raced, faults>>

Joined == {q \in Requests : At(q, "join")}

DbRead(r) ==
    /\ At(r, "dbRead")
    /\ \/ /\ req' = [req EXCEPT ![r].pc = "fill", ![r].value = balance]
          /\ raced' = (raced \/ Deducting)
          /\ UNCHANGED flight /\ NoFault
       \/ /\ req' = [q \in Requests |->
                        IF q \in Joined \cup {r} THEN [req[q] EXCEPT !.pc = "error"] ELSE req[q]]
          /\ flight' = None
          /\ UNCHANGED raced /\ Fault
    /\ UNCHANGED <<database, others, writes, breaker, cache>>

(* The queue has room.                                                     *)
QueueRoom == Cardinality(writes) < CacheQueue

(* The set_balance task is enqueued, or dropped when the queue is full.    *)
Fill(r) ==
    /\ At(r, "fill")
    /\ writes' = IF QueueRoom
                 THEN writes \cup {[kind |-> "set", of |-> r, value |-> req[r].value]}
                 ELSE writes
    /\ flight' = None
    /\ req' = [q \in Requests |->
                 IF q \in Joined \cup {r} THEN [req[q] EXCEPT !.pc = "report", !.value = req[r].value]
                 ELSE req[q]]
    /\ UNCHANGED <<database, others, breaker, cache, raced, faults>>

(* OnSuccess, then balance <= 0.                                           *)
Report(r) ==
    /\ At(r, "report")
    /\ breaker' = Closed
    /\ IF req[r].value <= 0 THEN Done(r, "rejected")
       ELSE req' = [req EXCEPT ![r].pc = "serve", ![r].value = 0]
    /\ UNCHANGED <<database, others, writes, flight, cache, raced, faults>>

ReportError(r) ==
    /\ At(r, "error")
    /\ breaker' = OnFailure
    /\ Done(r, "unavailable")
    /\ UNCHANGED <<database, others, writes, flight, cache, raced, faults>>

-----------------------------------------------------------------------------
(* The pool that records usage                                             *)

(* The upstream answers, with usage to record or without.                  *)
Serve(r) ==
    /\ At(r, "serve")
    /\ Goto(r, "submit") \/ Done(r, "unbilled")
    /\ UNCHANGED <<database, others, process, cache, raced, faults>>

PoolRoom == Cardinality({q \in Requests : At(q, "pooled")}) < PoolQueue

(* Variant: the policy sync is taken for drop.                             *)
RunsOverflowNever == {FALSE}

(* overflowPolicy: whether a task that found the queue full is run by the  *)
(* request itself; of a sample, the first ten of a hundred are.            *)
RunsOverflow ==
    CASE setting.policy = "sync" -> {TRUE}
      [] setting.policy = "sample" -> BOOLEAN
      [] OTHER -> {FALSE}

Submit(r) ==
    /\ At(r, "submit")
    /\ CASE stopped -> Done(r, "dropped")
         [] ~stopped /\ PoolRoom -> req' = [req EXCEPT ![r].pc = "pooled", ![r].inPool = TRUE]
         [] OTHER -> \E runs \in RunsOverflow :
                        IF runs THEN Goto(r, "claim") ELSE Done(r, "dropped")
    /\ UNCHANGED <<database, others, process, cache, raced, faults>>

Running == {q \in Requests : req[q].inPool /\ ~At(q, "pooled")}

StartTask(r) ==
    /\ At(r, "pooled") /\ Cardinality(Running) < PoolWorkers
    /\ Goto(r, "claim")
    /\ UNCHANGED <<database, others, process, cache, raced, faults>>

(* Stop: what is queued is still run.                                      *)
Stop ==
    /\ ~stopped
    /\ stopped' = TRUE
    /\ UNCHANGED <<setting, recharge, elsewhere, database, process, cache, req, raced, faults>>

-----------------------------------------------------------------------------
(* Apply                                                                   *)

(* INSERT ... ON CONFLICT DO NOTHING waits for a transaction that has      *)
(* inserted the key.                                                       *)
Claim(r) ==
    /\ At(r, "claim")
    /\ \A q \in Requests : At(q, "claimed") => Key(q) # Key(r)
    /\ \/ Goto(r, IF live[Key(r)] = None THEN "claimed" ELSE "existing") /\ NoFault
       \/ Done(r, "failed") /\ Fault
    /\ UNCHANGED <<database, others, process, cache, raced>>

Found(r, print) == Done(r, IF print = Fingerprint(r) THEN "duplicate" ELSE "conflict")

(* The fingerprint of the row; it may have been archived meanwhile, which  *)
(* is an error.                                                            *)
ReadExisting(r) ==
    /\ At(r, "existing")
    /\ \/ live[Key(r)] # None /\ Found(r, live[Key(r)]) /\ NoFault
       \/ live[Key(r)] = None /\ Done(r, "failed") /\ NoFault
       \/ live[Key(r)] # None /\ Done(r, "failed") /\ Fault
    /\ UNCHANGED <<database, others, process, cache, raced>>

(* Variant: only the live keys count.                                      *)
ArchivedNever(r) == None

(* The fingerprint in usage_billing_dedup_archive.                         *)
Archived(r) == archive[Key(r)]

(* applyUsageBillingEffects and the commit.                                *)
Charge(r) ==
    /\ live' = [live EXCEPT ![Key(r)] = Fingerprint(r)]
    /\ balance' = balance - 1
    /\ charged' = [charged EXCEPT ![Key(r)] = @ + 1]
    /\ raced' = (raced \/ Filling)
    /\ UNCHANGED archive

(* The rest of the transaction, which holds the key.                       *)
Apply(r) ==
    /\ At(r, "claimed")
    /\ \/ /\ Archived(r) # None /\ Found(r, Archived(r))
          /\ UNCHANGED <<database, raced>> /\ NoFault
       \/ Archived(r) = None /\ Charge(r) /\ Goto(r, "deduct") /\ NoFault
       \/ Archived(r) = None /\ Charge(r) /\ Done(r, "failed") /\ Fault
       \/ Done(r, "failed") /\ UNCHANGED <<database, raced>> /\ Fault
    /\ UNCHANGED <<others, process, cache>>

(* CleanupUsageBillingDedup                                                *)
Archive(k) ==
    /\ live[k] # None
    /\ archive' = [archive EXCEPT ![k] = IF @ = None THEN live[k] ELSE @]
    /\ live' = [live EXCEPT ![k] = None]
    /\ UNCHANGED <<balance, charged, others, process, cache, req, raced, faults>>

-----------------------------------------------------------------------------
(* The cached balance                                                      *)

(* Variant: the script does without EXPIRE.                                *)
DeductedForGood == IF cache = None THEN None ELSE [value |-> cache.value - 1, ttl |-> FALSE]

(* deductBalanceScript: nothing when there is no entry; the TTL starts     *)
(* anew.                                                                   *)
Deducted == IF cache = None THEN None ELSE [value |-> cache.value - 1, ttl |-> TRUE]

(* Variant: the deduction is lost when the queue is full.                  *)
FallbackNothing == cache

(* DeductBalanceCache, when the queue is full                              *)
Fallback == Deducted

(* QueueDeductBalance                                                      *)
QueueDeduct(r) ==
    /\ At(r, "deduct")
    /\ \/ /\ QueueRoom
          /\ writes' = writes \cup {[kind |-> "deduct", of |-> r, value |-> 1]}
          /\ UNCHANGED cache /\ NoFault
       \/ ~QueueRoom /\ cache' = Fallback /\ UNCHANGED writes /\ NoFault
       \/ ~QueueRoom /\ UNCHANGED <<cache, writes>> /\ Fault
    /\ Done(r, "recorded")
    /\ UNCHANGED <<database, others, flight, breaker, raced>>

(* cacheWriteWorker: ten workers, hence in any order.                      *)
WriteCache(t) ==
    /\ t \in writes
    /\ writes' = writes \ {t}
    /\ \/ /\ cache' = IF t.kind = "set" THEN [value |-> t.value, ttl |-> TRUE] ELSE Deducted
          /\ NoFault
       \/ UNCHANGED cache /\ Fault
    /\ UNCHANGED <<database, others, req, flight, breaker, raced>>

(* A redeemed code or an administrator adds to the balance; a goroutine    *)
(* invalidates the cache afterwards.                                       *)
Recharge ==
    /\ recharge = "none"
    /\ recharge' = "invalidate"
    /\ balance' = balance + 1
    /\ raced' = (raced \/ Filling)
    /\ UNCHANGED <<setting, stopped, elsewhere, live, archive, charged, process, cache, req, faults>>

InvalidateUserBalance ==
    /\ recharge = "invalidate"
    /\ recharge' = "done"
    /\ \/ cache' = None /\ NoFault
       \/ UNCHANGED cache /\ Fault
    /\ UNCHANGED <<setting, stopped, elsewhere, database, process, req, raced>>

(* Another process serves a request of the user that finds the cached      *)
(* balance positive.  What happens between its steps happens between those *)
(* of Requests too, so that they are one here: this action is there for    *)
(* the user who goes on spending, each deduction renewing the entry.       *)
ChargeElsewhere ==
    /\ cache # None /\ cache.value > 0
    /\ elsewhere' = elsewhere + 1
    /\ balance' = balance - 1
    /\ cache' = Deducted
    /\ raced' = (raced \/ Filling)
    /\ UNCHANGED <<setting, stopped, recharge, live, archive, charged, process, req, faults>>

CacheLapses ==
    /\ cache # None /\ cache.ttl
    /\ cache' = None
    /\ UNCHANGED <<database, others, process, req, raced, faults>>

(* The process ends and another one starts: what was in memory is gone.    *)
Crash ==
    /\ Fault
    /\ req' = [r \in Requests |->
                 IF req[r].pc \in {"idle", "done"} THEN req[r]
                 ELSE [pc |-> "done", value |-> 0, inPool |-> FALSE, outcome |-> "crashed"]]
    /\ writes' = {} /\ flight' = None /\ breaker' = Closed /\ stopped' = FALSE
    /\ recharge' = IF recharge = "invalidate" THEN "done" ELSE recharge
    /\ UNCHANGED <<setting, elsewhere, database, cache, raced>>

-----------------------------------------------------------------------------
Step(r) ==
    \/ ReadCache(r) \/ Load(r) \/ DbRead(r) \/ Fill(r) \/ Report(r) \/ ReportError(r)
    \/ Serve(r) \/ Submit(r) \/ StartTask(r)
    \/ Claim(r) \/ ReadExisting(r) \/ Apply(r) \/ QueueDeduct(r)

Next ==
    \/ \E r \in Requests : Allow(r) \/ Step(r)
    \/ \E t \in writes : WriteCache(t)
    \/ \E k \in Keys : Archive(k)
    \/ Recharge \/ InvalidateUserBalance \/ ChargeElsewhere \/ CacheLapses
    \/ ResetTimeout \/ Stop \/ Crash

Spec == Init /\ [][Next]_vars

(* The TTL of the cached balance starts anew.                              *)
Renewed == cache # None /\ cache' # None

(* Requests and tasks go on, queued writes are carried out, and an entry   *)
(* lapses, unless it is renewed again and again.  Nothing is assumed of    *)
(* the requests in other processes.                                        *)
Fairness ==
    /\ \A r \in Requests : WF_vars(Step(r))
    /\ WF_vars(\E t \in writes : WriteCache(t))
    /\ WF_vars(InvalidateUserBalance)
    /\ WF_vars(CacheLapses) \/ []<><<Renewed>>_cache

FairSpec == Spec /\ Fairness

-----------------------------------------------------------------------------
(* However records of one request are repeated, fail, race with each other *)
(* or with the job that archives the keys: a key is charged at most once,  *)
(* and an Apply that reports it as applied, or as applied before, is       *)
(* right.                                                                  *)
ChargedOnce ==
    \A r \in Requests :
        /\ charged[Key(r)] <= 1
        /\ req[r].outcome \in {"recorded", "duplicate"} => charged[Key(r)] = 1

(* With the policy sync, a request that was served is charged, unless a    *)
(* call fails or the pool is stopped: a full queue does not lose it, and   *)
(* neither does a key that is archived while it is compared.               *)
ServedIsCharged ==
    setting.policy = "sync" /\ faults = 0 /\ ~stopped =>
        \A r \in Requests :
            req[r].outcome \in {"dropped", "failed", "duplicate", "conflict", "recorded"} =>
                charged[Key(r)] = 1

(* When nothing is under way the cached balance is the balance, unless a   *)
(* call failed or a fill of the cache overlapped a change of the balance   *)
(* or a deduction from the cache.                                          *)
DriftIsExplained ==
    (cache # None /\ ~Filling /\ ~Deducting /\ recharge # "invalidate") =>
        cache.value = balance \/ raced \/ faults > 0

(* A half open breaker without probes left waits for the report of a       *)
(* request it let through: it is never stuck.                              *)
HalfOpenIsProbed ==
    breaker.state = "halfOpen" /\ breaker.remaining = 0 =>
        \E r \in Requests : req[r].pc \in Checking

(* A wrong cached balance, whatever caused it, does not last, although     *)
(* every deduction renews the TTL of the entry: each one also lowers the   *)
(* value, and a user whose cached balance is used up is rejected, so that  *)
(* in the end nothing renews it.                                           *)
DriftHeals ==
    (cache # None /\ cache.value # balance) ~> (cache = None \/ cache.value = balance)

-----------------------------------------------------------------------------
(* The inductive invariant behind the safety properties: a key is in one   *)
(* of the two tables exactly when it was charged, a transaction holds its  *)
(* key alone, and what a request has seen of its key stays true.           *)
KeysTellCharges ==
    /\ \A k \in Keys : charged[k] = IF live[k] = None /\ archive[k] = None THEN 0 ELSE 1
    /\ \A r \in Requests : At(r, "claimed") => live[Key(r)] = None
    /\ \A q, r \in Requests : At(q, "claimed") /\ At(r, "claimed") /\ q # r => Key(q) # Key(r)
    /\ \A r \in Requests :
          (req[r].pc \in {"existing", "deduct"} \/ req[r].outcome \in {"recorded", "duplicate", "conflict"})
            => charged[Key(r)] = 1

ClosedBelowThreshold == breaker.state = "closed" => breaker.failures < FailureThreshold

IndInv ==
    /\ TypeOK /\ ClosedBelowThreshold
    /\ KeysTellCharges /\ ServedIsCharged /\ HalfOpenIsProbed

-----------------------------------------------------------------------------
(* Refinement                                                              *)

(* The fingerprint a key was charged under, wherever the row is kept.      *)
Billed(k) == IF archive[k] # None THEN archive[k] ELSE live[k]

(* What Apply has told about request r.                                    *)
Answered(r) ==
    CASE req[r].outcome \in {"recorded", "duplicate"} -> "charged"
      [] req[r].outcome = "conflict" -> "conflict"
      [] OTHER -> "none"

Usage == INSTANCE UsageLedger WITH
    command <- [r \in Requests |-> [key |-> Key(r), print |-> Fingerprint(r)]],
    billed  <- [k \in Keys |-> Billed(k)],
    answer  <- [r \in Requests |-> Answered(r)]

(* Seen from outside, the pool, repeated and failing records, the archive  *)
(* of keys and crashes amount to the ledger: a key is charged once, under  *)
(* a fingerprint that archiving it does not change, and what Apply reports *)
(* is what the ledger says.                                                *)
ImplementsUsageLedger == Usage!Spec

(* What the mapping needs beside IndInv: a key is never in both tables, a  *)
(* request has its outcome when it is done and not before, and one that    *)
(* charged finds its own fingerprint.                                      *)
LedgerInv ==
    /\ \A k \in Keys : live[k] = None \/ archive[k] = None
    /\ \A r \in Requests :
          /\ req[r].pc # "done" => req[r].outcome = "none"
          /\ At(r, "deduct") => Billed(Key(r)) = Fingerprint(r)

==============================================================================
