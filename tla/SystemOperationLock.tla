------------------------- MODULE SystemOperationLock ------------------------
(***************************************************************************)
(* SystemOperationLockService (system_operation_lock_service.go): update,  *)
(* rollback and restart exclude each other through one idempotency record  *)
(* with a lease, which a goroutine of the holder renews.  Fingerprints are *)
(* operation ids here.                                                     *)
(*                                                                         *)
(* The goroutine is the variable renew: it waits for its ticker or is in   *)
(* the middle of a call that extends the lease.  It is on time: the clock  *)
(* does not pass a due tick, nor the timeout of such a call.               *)
(***************************************************************************)
EXTENDS IdempotencyRecord, FiniteSets

CONSTANTS
    Workers,    \* handlers of system operations
    TTL,        \* how long the record is kept
    Lease,      \* s.lease
    MaxAcquire, \* the longest Acquire takes
    MaxExtend,  \* the longest a renewal takes, its context's timeout
    MaxFaults   \* bound: failed calls and crashes

(* NewSystemOperationLockService: a third of the lease, at least a second. *)
RenewInterval == IF Lease \div 3 < 1 THEN 1 ELSE Lease \div 3

ASSUME LockAssumption ==
    /\ Lease \in Nat \ {0} /\ TTL \in Nat /\ Lease < TTL
    /\ MaxAcquire \in Nat /\ MaxExtend \in Nat /\ MaxFaults \in Nat
    /\ MaxExtend < RenewInterval

VARIABLES
    pc,
    print,     \* operation id of the worker
    start,     \* now, as Acquire read it
    mine,      \* record.ID, or existing.ID until it is reclaimed
    seen,      \* existing.Status
    renew,     \* the worker's renewLoop
    renewAt,   \* its next tick, or the time of the call under way
    lastHeld,  \* history: when the lock was last held
    faults

handler == <<pc, print, start, mine, seen>>
loop    == <<renew, renewAt>>
vars    == <<clock, record, handler, loop, lastHeld, faults>>

Acquiring == {"create", "getExisting", "reclaim"}

Holders == {w \in Workers : pc[w] = "operate"}

TypeOK ==
    /\ RecordTypeOK
    /\ pc \in [Workers -> Acquiring \cup {"idle", "operate"}]
    /\ print \in [Workers -> Prints]
    /\ start \in [Workers -> Nat]
    /\ mine \in [Workers -> Nat]
    /\ seen \in [Workers -> RecordStates]
    /\ renew \in [Workers -> {"off", "wait", "extend"}]
    /\ renewAt \in [Workers -> Nat]
    /\ lastHeld \in Nat
    /\ faults \in 0 .. MaxFaults

Init ==
    /\ RecordInit
    /\ pc = [w \in Workers |-> "idle"]
    /\ print \in [Workers -> Prints]
    /\ start = [w \in Workers |-> 0]
    /\ mine = [w \in Workers |-> 0]
    /\ seen = [w \in Workers |-> "processing"]
    /\ renew = [w \in Workers |-> "off"]
    /\ renewAt = [w \in Workers |-> 0]
    /\ lastHeld = 0
    /\ faults = 0

-----------------------------------------------------------------------------
(* The handler                                                             *)

Fault == faults < MaxFaults /\ faults' = faults + 1

NoFault == UNCHANGED faults

Finish(w) ==
    /\ pc' = [pc EXCEPT ![w] = "idle"]
    /\ start' = [start EXCEPT ![w] = 0]
    /\ seen' = [seen EXCEPT ![w] = "processing"]
    /\ UNCHANGED <<print, mine>>

(* Variant: the ticker runs at the pace of the lease.                      *)
NextTickAtLease(w) == renewAt' = [renewAt EXCEPT ![w] = clock + Lease]

(* The ticker of the renewal.                                              *)
NextTick(w) == renewAt' = [renewAt EXCEPT ![w] = clock + RenewInterval]

(* Acquire returns a lock on row i and starts its renewLoop.               *)
Hold(w, i) ==
    /\ pc' = [pc EXCEPT ![w] = "operate"]
    /\ mine' = [mine EXCEPT ![w] = i]
    /\ renew' = [renew EXCEPT ![w] = "wait"]
    /\ NextTick(w)
    /\ lastHeld' = clock
    /\ NoFault
    /\ UNCHANGED <<print, start, seen>>

(* Acquire ends with an error.                                             *)
Refuse(w) == Finish(w) /\ UNCHANGED <<record, loop, lastHeld>>

Acquire(w, op) ==
    /\ pc[w] = "idle" /\ renew[w] = "off"
    /\ pc' = [pc EXCEPT ![w] = "create"]
    /\ print' = [print EXCEPT ![w] = op]
    /\ start' = [start EXCEPT ![w] = clock]
    /\ UNCHANGED <<mine, seen, clock, record, loop, lastHeld, faults>>

Create(w) ==
    /\ pc[w] = "create"
    /\ \/ /\ CreateProcessing(print[w], start[w] + Lease, start[w] + TTL)
          /\ Hold(w, lastId + 1)
       \/ /\ id # 0
          /\ pc' = [pc EXCEPT ![w] = "getExisting"]
          /\ NoFault
          /\ UNCHANGED <<record, print, start, mine, seen, loop, lastHeld>>
       \/ Refuse(w) /\ Fault
    /\ UNCHANGED clock

Busy(w) == state = "processing" /\ lockedUntil > start[w]

GetExisting(w) ==
    /\ pc[w] = "getExisting"
    /\ \/ (id = 0 \/ Busy(w)) /\ Refuse(w) /\ NoFault
       \/ /\ id # 0 /\ ~Busy(w)
          /\ pc' = [pc EXCEPT ![w] = "reclaim"]
          /\ mine' = [mine EXCEPT ![w] = id]
          /\ seen' = [seen EXCEPT ![w] = state]
          /\ NoFault
          /\ UNCHANGED <<record, print, start, loop, lastHeld>>
       \/ Refuse(w) /\ Fault
    /\ UNCHANGED clock

(* A lost race ends with an error, whatever is read of the row then.       *)
Reclaim(w) ==
    /\ pc[w] = "reclaim"
    /\ \/ /\ Reclaimable(mine[w], seen[w], start[w])
          /\ TryReclaim(start[w] + Lease, start[w] + TTL)
          /\ Hold(w, mine[w])
       \/ ~Reclaimable(mine[w], seen[w], start[w]) /\ Refuse(w) /\ NoFault
       \/ Refuse(w) /\ Fault
    /\ UNCHANGED clock

(* Variant: the renewal goes on.                                           *)
StopNothing(w) == UNCHANGED renew

(* close(lock.stopCh): a waiting loop ends, a call under way is completed. *)
Stop(w) == renew' = [renew EXCEPT ![w] = IF @ = "wait" THEN "off" ELSE @]

(* The operation has ended, well or not; the row is marked by id only.     *)
Release(w) ==
    /\ pc[w] = "operate"
    /\ Stop(w)
    /\ \/ MarkSucceeded(mine[w], clock + TTL) /\ NoFault
       \/ MarkFailedRetryable(mine[w], clock, clock + TTL) /\ NoFault
       \/ UNCHANGED record /\ Fault
    /\ Finish(w)
    /\ UNCHANGED <<clock, renewAt, lastHeld>>

-----------------------------------------------------------------------------
(* renewLoop                                                               *)

RenewTick(w) ==
    /\ renew[w] = "wait" /\ renewAt[w] <= clock
    /\ renew' = [renew EXCEPT ![w] = "extend"]
    /\ renewAt' = [renewAt EXCEPT ![w] = clock]
    /\ UNCHANGED <<clock, record, handler, lastHeld, faults>>

(* The loop waits for its next tick, or ends if it has been stopped.       *)
Continue(w) ==
    /\ renew' = [renew EXCEPT ![w] = IF pc[w] = "operate" THEN "wait" ELSE "off"]
    /\ renewAt' = [renewAt EXCEPT ![w] = @ + RenewInterval]

(* An error is ignored; a row that is not the worker's ends the loop.      *)
Extend(w) ==
    /\ renew[w] = "extend"
    /\ \/ /\ Extendable(mine[w], print[w])
          /\ ExtendProcessingLock(renewAt[w] + Lease, renewAt[w] + TTL)
          /\ Continue(w) /\ NoFault
       \/ /\ ~Extendable(mine[w], print[w])
          /\ renew' = [renew EXCEPT ![w] = "off"]
          /\ NoFault /\ UNCHANGED <<renewAt, record>>
       \/ Continue(w) /\ Fault /\ UNCHANGED record
    /\ UNCHANGED <<clock, handler, lastHeld>>

-----------------------------------------------------------------------------
Cleanup ==
    /\ DeleteExpired
    /\ UNCHANGED <<clock, handler, loop, lastHeld, faults>>

(* The process of a worker ends, with its goroutine.                       *)
Crash(w) ==
    /\ pc[w] # "idle" \/ renew[w] # "off"
    /\ Finish(w) /\ Fault
    /\ renew' = [renew EXCEPT ![w] = "off"]
    /\ UNCHANGED <<clock, record, renewAt, lastHeld>>

OnTime(w) ==
    /\ pc[w] \in Acquiring => clock < start[w] + MaxAcquire
    /\ renew[w] = "wait" => clock < renewAt[w]
    /\ renew[w] = "extend" => clock < renewAt[w] + MaxExtend

Tick ==
    /\ clock <= MaxTime
    /\ \A w \in Workers : OnTime(w)
    /\ clock' = clock + 1
    /\ lastHeld' = IF Holders = {} THEN lastHeld ELSE clock + 1
    /\ UNCHANGED <<record, handler, loop, faults>>

Next ==
    \/ Tick \/ Cleanup
    \/ \E w \in Workers :
          \/ Create(w) \/ GetExisting(w) \/ Reclaim(w) \/ Release(w)
          \/ RenewTick(w) \/ Extend(w) \/ Crash(w)
          \/ \E op \in Prints : Acquire(w, op)

Spec == Init /\ [][Next]_vars

-----------------------------------------------------------------------------
(* Properties                                                              *)

(* The worker's renewals find its operation id in a row that is locked.    *)
Renews(w) == renew[w] # "off" /\ Extendable(mine[w], print[w])

(* An operation whose renewals reach the row keeps the lock to itself,     *)
(* through slow and failed renewals, late acquirers and the cleanup.       *)
KeptWhileRenewed ==
    [][(\E w \in Workers : Holders = {w} /\ Renews(w)) => Cardinality(Holders') <= 1]_vars

(* A lock that nobody holds any more, after a crash or a release that      *)
(* failed, is free one lease after it was last held: a renewal that comes  *)
(* late, or belongs to an earlier holder, does not keep it.                *)
FreeAfterLease ==
    Holders = {} => lockedUntil <= lastHeld + Lease

-----------------------------------------------------------------------------
(* Acquire answers "another system operation is in progress" while one is: *)
(* no two system operations run at a time.                                 *)
OperationsExclude == Cardinality(Holders) <= 1

=============================================================================
