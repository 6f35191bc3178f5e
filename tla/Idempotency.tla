----------------------------- MODULE Idempotency ----------------------------
(***************************************************************************)
(* IdempotencyCoordinator.Execute (idempotency.go): requests that carry    *)
(* the same idempotency key, and the row that makes one of them execute    *)
(* and the others replay its answer or be refused.                         *)
(*                                                                         *)
(* Every repository call is an action.  Execute reads the time once, at    *)
(* its start, and uses it until its end; nothing bounds how long it takes. *)
(* A call that fails has no effect; one that is carried out and reported   *)
(* as failed has that of a call followed by a crash.                       *)
(***************************************************************************)
EXTENDS IdempotencyRecord

CONSTANTS
    Workers,            \* request handlers
    TTL,                \* how long a record is kept
    ProcessingTimeout,  \* cfg.ProcessingTimeout
    RetryBackoff,       \* cfg.FailedRetryBackoff
    MaxFaults           \* bound: failed calls and crashes

ASSUME IdempotencyAssumption ==
    /\ TTL \in Nat /\ ProcessingTimeout \in Nat /\ RetryBackoff \in Nat
    /\ MaxFaults \in Nat

VARIABLES
    pc,
    print,      \* fingerprint of the worker's request
    start,      \* now, as Execute read it
    mine,       \* record.ID, or existing.ID until it is reclaimed
    seen,       \* existing.Status
    keptUntil,   \* history: when the last stored success expires, 0 once taken over
    failedUntil, \* history: when the backoff, or the record, of the last failure ends
    displaced,   \* history: workers that execute while another has taken the row
    overwritten, \* history: "yes" once one of them has written its result to it
    faults

worker  == <<pc, print, start, mine, seen>>
results == <<keptUntil, failedUntil>>
history == <<results, displaced, overwritten>>
vars    == <<clock, record, worker, history, faults>>

Executing == {"execute", "markSucceeded", "markFailed"}

Labels == {"idle", "create", "getExisting", "reclaimExpired", "getLatest",
           "reclaimFailed"} \cup Executing

TypeOK ==
    /\ RecordTypeOK
    /\ pc \in [Workers -> Labels]
    /\ print \in [Workers -> Prints]
    /\ start \in [Workers -> Nat]
    /\ mine \in [Workers -> Nat]
    /\ seen \in [Workers -> RecordStates]
    /\ keptUntil \in Nat /\ failedUntil \in Nat
    /\ displaced \subseteq Workers /\ overwritten \in {"no", "yes"}
    /\ faults \in 0 .. MaxFaults

Init ==
    /\ RecordInit
    /\ pc = [w \in Workers |-> "idle"]
    /\ print \in [Workers -> Prints]
    /\ start = [w \in Workers |-> 0]
    /\ mine = [w \in Workers |-> 0]
    /\ seen = [w \in Workers |-> "processing"]
    /\ keptUntil = 0 /\ failedUntil = 0
    /\ displaced = {} /\ overwritten = "no"
    /\ faults = 0

-----------------------------------------------------------------------------
Fault == faults < MaxFaults /\ faults' = faults + 1

NoFault == UNCHANGED faults

At(w, label) == pc[w] = label

Goto(w, label) ==
    /\ pc' = [pc EXCEPT ![w] = label]
    /\ UNCHANGED <<print, start, mine, seen>>

(* Execute returns, with whatever answer.                                  *)
Finish(w) ==
    /\ pc' = [pc EXCEPT ![w] = "idle"]
    /\ start' = [start EXCEPT ![w] = 0]
    /\ mine' = [mine EXCEPT ![w] = 0]
    /\ seen' = [seen EXCEPT ![w] = "processing"]
    /\ UNCHANGED print

(* The worker remembers the row it has read.                               *)
Remember(w, label) ==
    /\ pc' = [pc EXCEPT ![w] = label]
    /\ mine' = [mine EXCEPT ![w] = id]
    /\ seen' = [seen EXCEPT ![w] = state]
    /\ UNCHANGED <<print, start>>

(* Variant: the row is not locked for the time of the request.             *)
UntilStart(w) == start[w]

Until(w) == start[w] + ProcessingTimeout

Expires(w) == start[w] + TTL

(* The row is the worker's now: whoever else executes has lost it.         *)
Displace(w) ==
    /\ displaced' = {v \in Workers : pc[v] \in Executing /\ v # w}
    /\ UNCHANGED overwritten

(* The worker is done; if it has lost its row, this wrote the row of       *)
(* another, unless that is a new row with an id of its own.                *)
Leave(w, writes) ==
    /\ displaced' = displaced \ {w}
    /\ overwritten' = IF writes /\ w \in displaced /\ id = mine[w]
                      THEN "yes" ELSE overwritten

(* A request with fingerprint p enters Execute.                            *)
Execute(w, p) ==
    /\ At(w, "idle")
    /\ pc' = [pc EXCEPT ![w] = "create"]
    /\ print' = [print EXCEPT ![w] = p]
    /\ start' = [start EXCEPT ![w] = clock]
    /\ UNCHANGED <<mine, seen, clock, record, history, faults>>

Create(w) ==
    /\ At(w, "create")
    /\ \/ /\ CreateProcessing(print[w], Until(w), Expires(w))
          /\ pc' = [pc EXCEPT ![w] = "execute"]
          /\ mine' = [mine EXCEPT ![w] = lastId + 1]
          /\ UNCHANGED <<print, start, seen>> /\ NoFault /\ Displace(w)
       \/ /\ id # 0 /\ Goto(w, "getExisting") /\ NoFault
          /\ UNCHANGED <<record, displaced, overwritten>>
       \/ Finish(w) /\ Fault /\ UNCHANGED <<record, displaced, overwritten>>
    /\ UNCHANGED <<clock, results>>

(* A failed attempt whose backoff is over may be taken over.               *)
RetryNow(w) == state = "failed_retryable" /\ lockedUntil <= start[w]

(* The switch on existing.Status: replay, conflict or another attempt.     *)
Decide(w) == IF RetryNow(w) THEN Remember(w, "reclaimFailed") ELSE Finish(w)

(* A missing row and another fingerprint are refused; an expired row is    *)
(* taken over whatever its status.                                         *)
GetExisting(w) ==
    /\ At(w, "getExisting")
    /\ \/ /\ id = 0 \/ fingerprint # print[w]
          /\ Finish(w) /\ NoFault
       \/ /\ id # 0 /\ fingerprint = print[w] /\ expiresAt <= start[w]
          /\ Remember(w, "reclaimExpired") /\ NoFault
       \/ /\ id # 0 /\ fingerprint = print[w] /\ expiresAt > start[w]
          /\ Decide(w) /\ NoFault
       \/ Finish(w) /\ Fault
    /\ UNCHANGED <<clock, record, history>>

ReclaimExpired(w) ==
    /\ At(w, "reclaimExpired")
    /\ \/ /\ Reclaimable(mine[w], seen[w], start[w])
          /\ TryReclaim(Until(w), Expires(w))
          /\ keptUntil' = 0 /\ Displace(w)
          /\ Goto(w, "execute") /\ NoFault
       \/ /\ ~Reclaimable(mine[w], seen[w], start[w])
          /\ Goto(w, "getLatest") /\ NoFault
          /\ UNCHANGED <<record, keptUntil, displaced, overwritten>>
       \/ Finish(w) /\ Fault /\ UNCHANGED <<record, keptUntil, displaced, overwritten>>
    /\ UNCHANGED <<clock, failedUntil>>

(* The row is read again, and its expiry not looked at again.              *)
GetLatest(w) ==
    /\ At(w, "getLatest")
    /\ \/ (id = 0 \/ fingerprint # print[w]) /\ Finish(w) /\ NoFault
       \/ id # 0 /\ fingerprint = print[w] /\ Decide(w) /\ NoFault
       \/ Finish(w) /\ Fault
    /\ UNCHANGED <<clock, record, history>>

ReclaimFailed(w) ==
    /\ At(w, "reclaimFailed")
    /\ \/ /\ Reclaimable(mine[w], "failed_retryable", start[w])
          /\ TryReclaim(Until(w), Expires(w))
          /\ Displace(w)
          /\ Goto(w, "execute") /\ NoFault
       \/ /\ ~Reclaimable(mine[w], "failed_retryable", start[w])
          /\ Finish(w) /\ NoFault /\ UNCHANGED <<record, displaced, overwritten>>
       \/ Finish(w) /\ Fault /\ UNCHANGED <<record, displaced, overwritten>>
    /\ UNCHANGED <<clock, results>>

(* The guarded operation itself, which succeeds or fails.                  *)
RunOperation(w) ==
    /\ At(w, "execute")
    /\ \/ Goto(w, "markSucceeded")
       \/ Goto(w, "markFailed")
    /\ UNCHANGED <<clock, record, history, faults>>

(* If the success cannot be stored the row stays processing.               *)
StoreSuccess(w) ==
    /\ At(w, "markSucceeded")
    /\ \/ /\ MarkSucceeded(mine[w], Expires(w))
          /\ keptUntil' = IF id = mine[w] THEN Expires(w) ELSE keptUntil
          /\ NoFault /\ Leave(w, TRUE)
       \/ UNCHANGED <<record, keptUntil>> /\ Fault /\ Leave(w, FALSE)
    /\ Finish(w)
    /\ UNCHANGED <<clock, failedUntil>>

StoreFailure(w) ==
    /\ At(w, "markFailed")
    /\ \/ /\ MarkFailedRetryable(mine[w], clock + RetryBackoff, Expires(w))
          /\ failedUntil' = IF id # mine[w] THEN failedUntil
                            ELSE IF clock + RetryBackoff < Expires(w)
                                 THEN clock + RetryBackoff ELSE Expires(w)
          /\ NoFault /\ Leave(w, TRUE)
       \/ UNCHANGED <<record, failedUntil>> /\ Fault /\ Leave(w, FALSE)
    /\ Finish(w)
    /\ UNCHANGED <<clock, keptUntil>>

Cleanup ==
    /\ DeleteExpired
    /\ UNCHANGED <<clock, worker, history, faults>>

Crash(w) ==
    /\ ~At(w, "idle")
    /\ Finish(w) /\ Fault /\ Leave(w, FALSE)
    /\ UNCHANGED <<clock, record, results>>

(* Time passes, whatever a request is doing.                               *)
Tick ==
    /\ clock <= MaxTime
    /\ clock' = clock + 1
    /\ UNCHANGED <<record, worker, history, faults>>

Step(w) ==
    \/ Create(w) \/ GetExisting(w) \/ ReclaimExpired(w) \/ GetLatest(w)
    \/ ReclaimFailed(w) \/ RunOperation(w) \/ StoreSuccess(w) \/ StoreFailure(w)

Next ==
    \/ Tick \/ Cleanup
    \/ \E w \in Workers : Step(w) \/ Crash(w) \/ \E p \in Prints : Execute(w, p)

Spec == Init /\ [][Next]_vars

-----------------------------------------------------------------------------
(* Properties                                                              *)

(* The worker starts to run its operation.                                 *)
Starts(w) == pc[w] # "execute" /\ pc'[w] = "execute"

(* Neither the processing timeout nor the TTL of the request has passed.   *)
InTime(w) == clock < start[w] + ProcessingTimeout /\ clock < start[w] + TTL

(* Requests with one key that are in time do not run their operation at    *)
(* the same time, not even when a row expires, is deleted, or several      *)
(* requests take it over at once, and whatever slower requests still run:  *)
(* until one of those overwrites the row of another.                       *)
SingleRun ==
    overwritten = "no" =>
        \A v, w \in Workers :
            /\ pc[v] \in Executing /\ InTime(v)
            /\ pc[w] \in Executing /\ InTime(w)
            => v = w

(* A request loses its row to another only when it has outlasted the       *)
(* processing timeout or the TTL, so that only such a request can write    *)
(* its result over that of another.                                        *)
OnlyTheSlowAreDisplaced ==
    overwritten = "no" => \A w \in displaced : ~InTime(w)

(* A stored success is kept for replay until it expires or is taken over:  *)
(* no cleanup deletes it and no request that still has its row marks it    *)
(* failed.                                                                 *)
SuccessIsKept ==
    (overwritten = "no" /\ keptUntil > clock) => id # 0 /\ state = "succeeded"

(* After a stored failure no request runs the operation before the backoff *)
(* is over or the record has expired, also not one that read the row       *)
(* before that failure.                                                    *)
BackoffIsRespected ==
    [][((\E w \in Workers : Starts(w)) /\ overwritten = "no")
          => (failedUntil <= clock)]_vars

(* Why these hold: the row of a request that executes and has not been     *)
(* displaced is its own and says so, unless it was deleted, which it is    *)
(* not while the request is in time; only who executes can be displaced;   *)
(* and the row that holds the last success, or the last failure, outlives  *)
(* its TTL, or its backoff.                                                *)
Started == \A w \in Workers : pc[w] # "idle" => start[w] <= clock

ReadRow ==
    \A w \in Workers :
        /\ pc[w] \in {"reclaimExpired", "reclaimFailed"} \cup Executing => mine[w] # 0
        /\ pc[w] \in Executing => mine[w] <= lastId
        /\ w \in displaced => pc[w] \in Executing

OwnsRow ==
    \A w \in Workers : pc[w] \in Executing /\ w \notin displaced =>
        /\ \A v \in Workers : pc[v] \in Executing /\ v \notin displaced => v = w
        /\ id # 0 => /\ mine[w] = id /\ state = "processing"
                     /\ lockedUntil = Until(w) /\ expiresAt = Expires(w)
        /\ id = 0 => Expires(w) <= clock

SuccessExpires ==
    keptUntil > clock => id # 0 /\ state = "succeeded" /\ expiresAt = keptUntil

FailureIsKept ==
    failedUntil > clock =>
        /\ id # 0 /\ state = "failed_retryable"
        /\ failedUntil <= lockedUntil /\ failedUntil <= expiresAt

IndInv ==
    /\ TypeOK /\ Started /\ ReadRow
    /\ overwritten = "no" =>
          OwnsRow /\ OnlyTheSlowAreDisplaced /\ SuccessExpires /\ FailureIsKept

=============================================================================
