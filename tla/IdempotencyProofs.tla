-------------------------- MODULE IdempotencyProofs -------------------------
(***************************************************************************)
(* Proofs about Idempotency, for any requests, times and number of         *)
(* failures.  Requests may be as slow as they like: only those that have   *)
(* outlasted the processing timeout or the TTL lose their row to another;  *)
(* and until one of them writes its result to the row of another, the      *)
(* requests in time run one at a time, a stored success is kept until it   *)
(* expires or is taken over, and a backoff is waited for.                  *)
(***************************************************************************)
EXTENDS Idempotency, TLAPS

(* The steps of a request keep every variable in its type.                 *)
LEMMA TypeStep ==
  ASSUME TypeOK, NEW w \in Workers, Step(w)
  PROVE  TypeOK'
<1> USE IdempotencyAssumption, RecordAssumption DEF TypeOK, RecordTypeOK, RecordStates,
      Labels, Executing,
      record, worker, results, history, At, Goto, Finish, Remember, Fault, NoFault, Until, Expires,
      Displace, Leave
<1>1. CASE Create(w)
  BY <1>1 DEF Create, CreateProcessing
<1>2. CASE GetExisting(w)
  BY <1>2 DEF GetExisting, Decide, RetryNow
<1>3. CASE ReclaimExpired(w)
  BY <1>3 DEF ReclaimExpired, Reclaimable, TryReclaim
<1>4. CASE GetLatest(w)
  BY <1>4 DEF GetLatest, Decide, RetryNow
<1>5. CASE ReclaimFailed(w)
  BY <1>5 DEF ReclaimFailed, Reclaimable, TryReclaim
<1>6. CASE RunOperation(w)
  BY <1>6 DEF RunOperation
<1>7. CASE StoreSuccess(w)
  BY <1>7 DEF StoreSuccess, MarkSucceeded, Mark
<1>8. CASE StoreFailure(w)
  BY <1>8 DEF StoreFailure, MarkFailedRetryable, Mark
<1>9. QED
  BY <1>1, <1>2, <1>3, <1>4, <1>5, <1>6, <1>7, <1>8 DEF Step

(* So do time, the cleanup, a new request and a crash.                     *)
LEMMA TypeOther ==
  ASSUME TypeOK,
         \/ Tick \/ Cleanup \/ UNCHANGED vars
         \/ \E w \in Workers : Crash(w) \/ \E p \in Prints : Execute(w, p)
  PROVE  TypeOK'
<1> USE IdempotencyAssumption, RecordAssumption DEF TypeOK, RecordTypeOK, RecordStates,
      Labels, Executing,
      record, worker, results, history, At, Goto, Finish, Remember, Fault, NoFault, Until, Expires,
      Displace, Leave
<1>1. CASE Tick
  BY <1>1 DEF Tick
<1>2. CASE Cleanup
  BY <1>2 DEF Cleanup, DeleteExpired
<1>3. CASE UNCHANGED vars
  BY <1>3 DEF vars
<1>4. ASSUME NEW w \in Workers, Crash(w)
      PROVE  TypeOK'
  BY <1>4 DEF Crash
<1>5. ASSUME NEW w \in Workers, NEW p \in Prints, Execute(w, p)
      PROVE  TypeOK'
  BY <1>5 DEF Execute
<1>6. QED
  BY <1>1, <1>2, <1>3, <1>4, <1>5

(* Everything of the invariant but the types.                              *)
Consistent ==
    /\ Started /\ ReadRow
    /\ overwritten = "no" =>
          OwnsRow /\ OnlyTheSlowAreDisplaced /\ SuccessExpires /\ FailureIsKept

(* A step of a request keeps the row in order.  A row that another request *)
(* works on in time is not open to it: it is locked for that time.         *)
LEMMA ConsistentStep ==
  ASSUME TypeOK, Consistent, NEW w \in Workers, Step(w)
  PROVE  Consistent'
<1> USE IdempotencyAssumption DEF Consistent, TypeOK, RecordTypeOK, Executing,
      Started, InTime, ReadRow, OwnsRow, OnlyTheSlowAreDisplaced, SuccessExpires, FailureIsKept,
      record, worker, results, history, At, Goto, Finish, Remember, Fault, NoFault, Until, Expires,
      Displace, Leave
<1>1. CASE Create(w)
  BY <1>1 DEF Create, CreateProcessing
<1>2. CASE GetExisting(w)
  BY <1>2 DEF GetExisting, Decide, RetryNow
<1>3. CASE ReclaimExpired(w)
  BY <1>3 DEF ReclaimExpired, Reclaimable, TryReclaim
<1>4. CASE GetLatest(w)
  BY <1>4 DEF GetLatest, Decide, RetryNow
<1>5. CASE ReclaimFailed(w)
  BY <1>5 DEF ReclaimFailed, Reclaimable, TryReclaim
<1>6. CASE RunOperation(w)
  BY <1>6 DEF RunOperation
<1>7. CASE StoreSuccess(w)
  BY <1>7 DEF StoreSuccess, MarkSucceeded, Mark
<1>8. CASE StoreFailure(w)
  BY <1>8 DEF StoreFailure, MarkFailedRetryable, Mark
<1>9. QED
  BY <1>1, <1>2, <1>3, <1>4, <1>5, <1>6, <1>7, <1>8 DEF Step

(* Time and the cleanup respect a row in use: it is kept for as long as a  *)
(* request is in time.                                                     *)
LEMMA ConsistentOther ==
  ASSUME TypeOK, Consistent,
         \/ Tick \/ Cleanup \/ UNCHANGED vars
         \/ \E w \in Workers : Crash(w) \/ \E p \in Prints : Execute(w, p)
  PROVE  Consistent'
<1> USE IdempotencyAssumption DEF Consistent, TypeOK, RecordTypeOK, Executing,
      Started, InTime, ReadRow, OwnsRow, OnlyTheSlowAreDisplaced, SuccessExpires, FailureIsKept,
      record, worker, results, history, At, Goto, Finish, Remember, Fault, NoFault, Until, Expires,
      Displace, Leave
<1>1. CASE Tick
  BY <1>1 DEF Tick
<1>2. CASE Cleanup
  BY <1>2 DEF Cleanup, DeleteExpired, Expired
<1>3. CASE UNCHANGED vars
  BY <1>3 DEF vars
<1>4. ASSUME NEW w \in Workers, Crash(w)
      PROVE  Consistent'
  BY <1>4 DEF Crash
<1>5. ASSUME NEW w \in Workers, NEW p \in Prints, Execute(w, p)
      PROVE  Consistent'
  BY <1>5 DEF Execute
<1>6. QED
  BY <1>1, <1>2, <1>3, <1>4, <1>5

-----------------------------------------------------------------------------

(* The inductive invariant of the idempotency records.                     *)
THEOREM IdempotencyInvariance == Spec => []IndInv
<1>1. Init => TypeOK /\ Consistent
  BY IdempotencyAssumption, RecordAssumption DEF Init, RecordInit, TypeOK, RecordTypeOK,
     RecordStates, Labels, Consistent, Executing, Started, InTime, ReadRow, OwnsRow, OnlyTheSlowAreDisplaced, SuccessExpires, FailureIsKept
<1>2. TypeOK /\ Consistent /\ [Next]_vars => (TypeOK /\ Consistent)'
  BY TypeStep, TypeOther, ConsistentStep, ConsistentOther DEF Next
<1>3. TypeOK /\ Consistent => IndInv
  BY DEF Consistent, IndInv
<1>4. QED
  BY <1>1, <1>2, <1>3, PTL DEF Spec

(* Requests with one key that are in time never run their operation at the *)
(* same time, until a slow one overwrites the row of another.              *)
THEOREM RequestsRunSingly == Spec => []SingleRun
<1>1. IndInv => SingleRun
  BY DEF IndInv, OwnsRow, OnlyTheSlowAreDisplaced, SingleRun
<1>2. QED
  BY <1>1, IdempotencyInvariance, PTL

(* Only a request that has outlasted the processing timeout or the TTL     *)
(* loses its row to another while it runs.                                 *)
THEOREM OnlySlowRequestsLoseTheirRow == Spec => []OnlyTheSlowAreDisplaced
<1>1. IndInv => OnlyTheSlowAreDisplaced
  BY DEF IndInv, OnlyTheSlowAreDisplaced
<1>2. QED
  BY <1>1, IdempotencyInvariance, PTL

(* A stored success stays in place until it expires or is taken over, or   *)
(* a slow request overwrites the row of another.                           *)
THEOREM SuccessesAreKept == Spec => []SuccessIsKept
<1>1. IndInv => SuccessIsKept
  BY DEF IndInv, SuccessExpires, SuccessIsKept
<1>2. QED
  BY <1>1, IdempotencyInvariance, PTL

(* What a step of a request does that starts to run the operation: it has  *)
(* created the row, or taken over one that is not locked any more.         *)
LEMMA StartsFromFreeRow ==
  ASSUME IndInv, overwritten = "no", NEW w \in Workers, Step(w), Starts(w)
  PROVE  failedUntil <= clock
<1> USE IdempotencyAssumption DEF IndInv, TypeOK, RecordTypeOK, Starts, Started,
      FailureIsKept, At, Goto, Finish, Remember
<1>1. CASE Create(w)
  BY <1>1 DEF Create, CreateProcessing
<1>2. CASE ReclaimExpired(w)
  BY <1>2 DEF ReclaimExpired, Reclaimable
<1>3. CASE ReclaimFailed(w)
  BY <1>3 DEF ReclaimFailed, Reclaimable
<1>4. CASE GetExisting(w) \/ GetLatest(w) \/ RunOperation(w) \/ StoreSuccess(w) \/ StoreFailure(w)
  BY <1>4 DEF GetExisting, GetLatest, Decide, RunOperation, StoreSuccess, StoreFailure
<1>5. QED
  BY <1>1, <1>2, <1>3, <1>4 DEF Step

(* Only the step of that request can start it.                             *)
LEMMA StartIsAStep ==
  ASSUME TypeOK, [Next]_vars, NEW w \in Workers, Starts(w)
  PROVE  Step(w)
<1> USE DEF TypeOK, Starts, At, Goto, Finish, Remember, worker, vars
<1>1. ASSUME NEW v \in Workers, Step(v), v # w
      PROVE  FALSE
  BY <1>1 DEF Step, Create, GetExisting, ReclaimExpired, GetLatest, ReclaimFailed,
     Decide, RunOperation, StoreSuccess, StoreFailure
<1>2. ASSUME NEW v \in Workers, Crash(v) \/ \E p \in Prints : Execute(v, p)
      PROVE  FALSE
  BY <1>2 DEF Crash, Execute
<1>3. ~(Tick \/ Cleanup \/ UNCHANGED vars)
  BY DEF Tick, Cleanup
<1>4. QED
  BY <1>1, <1>2, <1>3 DEF Next

(* No request runs the operation during the backoff of a stored failure,   *)
(* until a slow request overwrites the row of another.                     *)
THEOREM BackoffsAreWaitedFor == Spec => BackoffIsRespected
<1>1. IndInv /\ [Next]_vars
        => [((\E w \in Workers : Starts(w)) /\ overwritten = "no")
              => (failedUntil <= clock)]_vars
  BY StartsFromFreeRow, StartIsAStep DEF IndInv
<1>2. QED
  BY <1>1, IdempotencyInvariance, PTL DEF Spec, BackoffIsRespected

=============================================================================
