---------------------- MODULE SystemOperationLockProofs ----------------------
(***************************************************************************)
(* Proofs about SystemOperationLock, for every number of handlers and      *)
(* operation ids, every lease, every delay and every number of failures: a *)
(* lock that nobody holds is free one lease later, and, when the lease     *)
(* leaves room for the renewals that fail, an operation whose renewals     *)
(* reach the row stays alone.                                              *)
(***************************************************************************)
EXTENDS SystemOperationLock, FiniteSetTheorems, TLAPS

(* How old the instant may be that a write of the row carries: the start   *)
(* of Acquire, or of a renewal.                                            *)
Delay == IF MaxAcquire < MaxExtend THEN MaxExtend ELSE MaxAcquire

(* How long a lease has to last for n renewals to fail and one to follow.  *)
Spent(n) == (n + 1) * RenewInterval

(* The lease outlasts the failures of a behaviour, the delay of the write  *)
(* that set it and the call that extends it.                               *)
LeaseSuffices == Spent(MaxFaults) + Delay + MaxExtend < Lease

-----------------------------------------------------------------------------
(* The inductive invariant                                                 *)

(* Acquire and the renewals are on time, and a renewal that is under way   *)
(* began while the lock was held.                                          *)
OnSchedule ==
    \A w \in Workers :
        /\ start[w] <= clock
        /\ pc[w] \in Acquiring => clock <= start[w] + MaxAcquire
        /\ renew[w] = "wait" => pc[w] = "operate" /\ clock <= renewAt[w]
        /\ renew[w] = "extend" => renewAt[w] <= lastHeld /\ clock <= renewAt[w] + MaxExtend
        /\ renew[w] # "off" => renewAt[w] <= clock + RenewInterval

(* The history variable is what its name says.                             *)
HeldTellsTime ==
    /\ lastHeld <= clock
    /\ \A w \in Workers : pc[w] = "operate" => lastHeld = clock

(* Every lease was granted or extended when the lock was held.             *)
LeaseIsBounded == lockedUntil <= lastHeld + Lease

(* Ids are given out once, and those of holders exist.                     *)
IdsGivenOut ==
    \A w \in Workers :
        /\ mine[w] <= lastId
        /\ pc[w] \in {"operate", "reclaim"} => mine[w] # 0

(* The lease of an operation that renews it covers its next renewal, but   *)
(* for the failures so far.                                                *)
LeaseCoversRenewal ==
    \A w \in Workers :
        pc[w] = "operate" /\ Renews(w) =>
            renewAt[w] + Lease <= lockedUntil + Spent(faults) + Delay

LockInv ==
    /\ TypeOK
    /\ OnSchedule /\ HeldTellsTime /\ LeaseIsBounded
    /\ IdsGivenOut /\ LeaseCoversRenewal

-----------------------------------------------------------------------------
(* The constants are numbers.                                              *)
LEMMA Numbers ==
  /\ Lease \in Nat /\ TTL \in Nat /\ MaxTime \in Nat /\ MaxFaults \in Nat
  /\ MaxAcquire \in Nat /\ MaxExtend \in Nat
  /\ RenewInterval \in Nat /\ MaxExtend < RenewInterval
  /\ Delay \in Nat /\ MaxAcquire <= Delay /\ MaxExtend <= Delay
<1>1. RenewInterval \in Nat
  BY LockAssumption DEF RenewInterval
<1>2. QED
  BY <1>1, LockAssumption, RecordAssumption DEF Delay

(* What one more failure costs of the lease.                               *)
LEMMA SpentSteps ==
  ASSUME NEW n \in Nat
  PROVE  /\ Spent(n) \in Nat
         /\ RenewInterval <= Spent(n)
         /\ Spent(n + 1) = Spent(n) + RenewInterval
<1> DEFINE R == RenewInterval
<1>1. R \in Nat
  BY Numbers
<1> HIDE DEF R
<1>2. n * R \in Nat /\ (n + 1) * R = n * R + R /\ ((n + 1) + 1) * R = n * R + R + R
  BY <1>1
<1>3. QED
  BY <1>1, <1>2 DEF Spent, R

(* More failures take longer.                                              *)
LEMMA SpentGrows ==
  ASSUME NEW n \in Nat, n <= MaxFaults
  PROVE  Spent(n) <= Spent(MaxFaults)
<1> DEFINE R == RenewInterval
           d == MaxFaults - n
<1>1. R \in Nat /\ d \in Nat /\ MaxFaults = n + d
  BY Numbers
<1> HIDE DEF R, d
<1>2. d * R \in Nat /\ (n + 1) * R \in Nat /\ ((n + d) + 1) * R = (n + 1) * R + d * R
  BY <1>1
<1>3. QED
  BY <1>1, <1>2 DEF Spent, R

-----------------------------------------------------------------------------
(* The initial state                                                       *)
LEMMA LockInit == Init => LockInv
BY Numbers
   DEF Init, RecordInit, LockInv, TypeOK, RecordTypeOK, OnSchedule, HeldTellsTime, LeaseIsBounded,
       IdsGivenOut, LeaseCoversRenewal, Renews, Acquiring, RecordStates

(* Type correctness, one step per action.                                  *)
LEMMA TypeStep ==
  ASSUME TypeOK, [Next]_vars
  PROVE  TypeOK'
<1> USE Numbers DEF TypeOK, RecordTypeOK, Acquiring, RecordStates
<1>1. CASE Tick
  BY <1>1 DEF Tick, record, handler, loop
<1>2. CASE Cleanup
  BY <1>2 DEF Cleanup, DeleteExpired, handler, loop
<1>3. ASSUME NEW w \in Workers, Create(w)
      PROVE  TypeOK'
  BY <1>3 DEF Create, CreateProcessing, Hold, NextTick, Refuse, Finish, Fault, NoFault, record, loop
<1>4. ASSUME NEW w \in Workers, GetExisting(w)
      PROVE  TypeOK'
  BY <1>4 DEF GetExisting, Refuse, Finish, Fault, NoFault, record, loop
<1>5. ASSUME NEW w \in Workers, Reclaim(w)
      PROVE  TypeOK'
  BY <1>5 DEF Reclaim, TryReclaim, Hold, NextTick, Refuse, Finish, Fault, NoFault, record, loop
<1>6. ASSUME NEW w \in Workers, Release(w)
      PROVE  TypeOK'
  BY <1>6 DEF Release, Stop, MarkSucceeded, MarkFailedRetryable, Mark, Finish, Fault, NoFault, record
<1>7. ASSUME NEW w \in Workers, RenewTick(w)
      PROVE  TypeOK'
  BY <1>7 DEF RenewTick, record, handler
<1>8. ASSUME NEW w \in Workers, Extend(w)
      PROVE  TypeOK'
  BY <1>8 DEF Extend, ExtendProcessingLock, Continue, Fault, NoFault, record, handler
<1>9. ASSUME NEW w \in Workers, Crash(w)
      PROVE  TypeOK'
  BY <1>9 DEF Crash, Finish, Fault, record
<1>10. ASSUME NEW w \in Workers, NEW op \in Prints, Acquire(w, op)
       PROVE  TypeOK'
  BY <1>10 DEF Acquire, record, loop
<1>11. CASE UNCHANGED vars
  BY <1>11 DEF vars, record, handler, loop
<1>12. QED
  BY <1>1, <1>2, <1>3, <1>4, <1>5, <1>6, <1>7, <1>8, <1>9, <1>10, <1>11 DEF Next

(* Time: the schedule of acquirers and renewals, and what lastHeld and the *)
(* lease say, one step per action.                                         *)
LEMMA TimeStep ==
  ASSUME LockInv, [Next]_vars
  PROVE  (OnSchedule /\ HeldTellsTime)'
<1> USE Numbers DEF LockInv, TypeOK, RecordTypeOK, Acquiring, RecordStates, OnSchedule, HeldTellsTime
<1>1. CASE Tick
  BY <1>1 DEF Tick, OnTime, record, handler, loop, Holders
<1>2. CASE Cleanup
  BY <1>2 DEF Cleanup, DeleteExpired, handler, loop
<1>3. ASSUME NEW w \in Workers, Create(w)
      PROVE  (OnSchedule /\ HeldTellsTime)'
  BY <1>3 DEF Create, CreateProcessing, Hold, NextTick, Refuse, Finish, Fault, NoFault, record, loop
<1>4. ASSUME NEW w \in Workers, GetExisting(w)
      PROVE  (OnSchedule /\ HeldTellsTime)'
  BY <1>4 DEF GetExisting, Refuse, Finish, Fault, NoFault, record, loop
<1>5. ASSUME NEW w \in Workers, Reclaim(w)
      PROVE  (OnSchedule /\ HeldTellsTime)'
  BY <1>5 DEF Reclaim, TryReclaim, Hold, NextTick, Refuse, Finish, Fault, NoFault, record, loop
<1>6. ASSUME NEW w \in Workers, Release(w)
      PROVE  (OnSchedule /\ HeldTellsTime)'
  BY <1>6 DEF Release, Stop, MarkSucceeded, MarkFailedRetryable, Mark, Finish, Fault, NoFault, record
<1>7. ASSUME NEW w \in Workers, RenewTick(w)
      PROVE  (OnSchedule /\ HeldTellsTime)'
  BY <1>7 DEF RenewTick, record, handler
<1>8. ASSUME NEW w \in Workers, Extend(w)
      PROVE  (OnSchedule /\ HeldTellsTime)'
  BY <1>8 DEF Extend, ExtendProcessingLock, Continue, Fault, NoFault, record, handler
<1>9. ASSUME NEW w \in Workers, Crash(w)
      PROVE  (OnSchedule /\ HeldTellsTime)'
  BY <1>9 DEF Crash, Finish, Fault, record
<1>10. ASSUME NEW w \in Workers, NEW op \in Prints, Acquire(w, op)
       PROVE  (OnSchedule /\ HeldTellsTime)'
  BY <1>10 DEF Acquire, record, loop
<1>11. CASE UNCHANGED vars
  BY <1>11 DEF vars, record, handler, loop
<1>12. QED
  BY <1>1, <1>2, <1>3, <1>4, <1>5, <1>6, <1>7, <1>8, <1>9, <1>10, <1>11 DEF Next

(* A lease is granted from an instant at which the lock was held, or is    *)
(* now.                                                                    *)
LEMMA LeaseStep ==
  ASSUME LockInv, [Next]_vars
  PROVE  LeaseIsBounded'
<1> USE Numbers DEF LockInv, TypeOK, RecordTypeOK, Acquiring, RecordStates, OnSchedule, HeldTellsTime, LeaseIsBounded
<1>1. CASE Tick
  BY <1>1 DEF Tick, OnTime, record, handler, loop, Holders
<1>2. CASE Cleanup
  BY <1>2 DEF Cleanup, DeleteExpired, handler, loop
<1>3. ASSUME NEW w \in Workers, Create(w)
      PROVE  LeaseIsBounded'
  BY <1>3 DEF Create, CreateProcessing, Hold, NextTick, Refuse, Finish, Fault, NoFault, record, loop
<1>4. ASSUME NEW w \in Workers, GetExisting(w)
      PROVE  LeaseIsBounded'
  BY <1>4 DEF GetExisting, Refuse, Finish, Fault, NoFault, record, loop
<1>5. ASSUME NEW w \in Workers, Reclaim(w)
      PROVE  LeaseIsBounded'
  BY <1>5 DEF Reclaim, TryReclaim, Hold, NextTick, Refuse, Finish, Fault, NoFault, record, loop
<1>6. ASSUME NEW w \in Workers, Release(w)
      PROVE  LeaseIsBounded'
  BY <1>6 DEF Release, Stop, MarkSucceeded, MarkFailedRetryable, Mark, Finish, Fault, NoFault, record
<1>7. ASSUME NEW w \in Workers, RenewTick(w)
      PROVE  LeaseIsBounded'
  BY <1>7 DEF RenewTick, record, handler
<1>8. ASSUME NEW w \in Workers, Extend(w)
      PROVE  LeaseIsBounded'
  BY <1>8 DEF Extend, ExtendProcessingLock, Continue, Fault, NoFault, record, handler
<1>9. ASSUME NEW w \in Workers, Crash(w)
      PROVE  LeaseIsBounded'
  BY <1>9 DEF Crash, Finish, Fault, record
<1>10. ASSUME NEW w \in Workers, NEW op \in Prints, Acquire(w, op)
       PROVE  LeaseIsBounded'
  BY <1>10 DEF Acquire, record, loop
<1>11. CASE UNCHANGED vars
  BY <1>11 DEF vars, record, handler, loop
<1>12. QED
  BY <1>1, <1>2, <1>3, <1>4, <1>5, <1>6, <1>7, <1>8, <1>9, <1>10, <1>11 DEF Next

(* A new id is larger than all before.                                     *)
LEMMA IdsStep ==
  ASSUME LockInv, [Next]_vars
  PROVE  IdsGivenOut'
<1> USE Numbers DEF LockInv, TypeOK, RecordTypeOK, Acquiring, RecordStates, IdsGivenOut
<1>1. CASE Tick
  BY <1>1 DEF Tick, OnTime, record, handler, loop, Holders
<1>2. CASE Cleanup
  BY <1>2 DEF Cleanup, DeleteExpired, handler, loop
<1>3. ASSUME NEW w \in Workers, Create(w)
      PROVE  IdsGivenOut'
  BY <1>3 DEF Create, CreateProcessing, Hold, NextTick, Refuse, Finish, Fault, NoFault, record, loop
<1>4. ASSUME NEW w \in Workers, GetExisting(w)
      PROVE  IdsGivenOut'
  BY <1>4 DEF GetExisting, Refuse, Finish, Fault, NoFault, record, loop
<1>5. ASSUME NEW w \in Workers, Reclaim(w)
      PROVE  IdsGivenOut'
  BY <1>5 DEF Reclaim, TryReclaim, Hold, NextTick, Refuse, Finish, Fault, NoFault, record, loop
<1>6. ASSUME NEW w \in Workers, Release(w)
      PROVE  IdsGivenOut'
  BY <1>6 DEF Release, Stop, MarkSucceeded, MarkFailedRetryable, Mark, Finish, Fault, NoFault, record
<1>7. ASSUME NEW w \in Workers, RenewTick(w)
      PROVE  IdsGivenOut'
  BY <1>7 DEF RenewTick, record, handler
<1>8. ASSUME NEW w \in Workers, Extend(w)
      PROVE  IdsGivenOut'
  BY <1>8 DEF Extend, ExtendProcessingLock, Continue, Fault, NoFault, record, handler
<1>9. ASSUME NEW w \in Workers, Crash(w)
      PROVE  IdsGivenOut'
  BY <1>9 DEF Crash, Finish, Fault, record
<1>10. ASSUME NEW w \in Workers, NEW op \in Prints, Acquire(w, op)
       PROVE  IdsGivenOut'
  BY <1>10 DEF Acquire, record, loop
<1>11. CASE UNCHANGED vars
  BY <1>11 DEF vars, record, handler, loop
<1>12. QED
  BY <1>1, <1>2, <1>3, <1>4, <1>5, <1>6, <1>7, <1>8, <1>9, <1>10, <1>11 DEF Next

(* The lease covers the next renewal.  A write of the row that leaves it   *)
(* processing, whoever makes it, carries an instant that is not older than *)
(* Delay; a renewal that fails costs one interval and one failure.         *)
LEMMA CoverStep ==
  ASSUME LockInv, [Next]_vars
  PROVE  LeaseCoversRenewal'
<1> USE DEF LockInv, TypeOK, RecordTypeOK, Acquiring, RecordStates
<1>1. /\ Lease \in Nat /\ RenewInterval \in Nat /\ Delay \in Nat
      /\ MaxAcquire \in Nat /\ MaxExtend \in Nat
      /\ MaxAcquire <= Delay /\ MaxExtend <= Delay
  BY Numbers
<1>2. faults \in Nat /\ faults' \in Nat /\ faults' \in {faults, faults + 1}
  BY DEF Next, Tick, Cleanup, Create, GetExisting, Reclaim, Release, RenewTick, Extend, Crash,
         Acquire, Hold, Fault, NoFault, vars
<1>3. /\ Spent(faults) \in Nat /\ Spent(faults') \in Nat /\ RenewInterval <= Spent(faults)
      /\ Spent(faults) <= Spent(faults')
      /\ faults' = faults + 1 => Spent(faults') = Spent(faults) + RenewInterval
  BY <1>1, <1>2, SpentSteps
<1> SUFFICES ASSUME NEW v \in Workers, pc'[v] = "operate", Renews(v)'
             PROVE  renewAt'[v] + Lease <= lockedUntil' + Spent(faults') + Delay
  BY DEF LeaseCoversRenewal
<1>4. ASSUME pc[v] = "operate", Renews(v), lockedUntil' = lockedUntil, renewAt'[v] = renewAt[v]
      PROVE  renewAt'[v] + Lease <= lockedUntil' + Spent(faults') + Delay
  BY <1>1, <1>3, <1>4 DEF LeaseCoversRenewal
<1>5. ASSUME renewAt'[v] <= clock + RenewInterval, clock + Lease <= lockedUntil' + Delay
      PROVE  renewAt'[v] + Lease <= lockedUntil' + Spent(faults') + Delay
  <2>1. renewAt'[v] \in Nat /\ lockedUntil' \in Nat
    BY TypeStep
  <2>2. QED
    BY <1>1, <1>3, <1>5, <2>1
<1>6. CASE Tick
  BY <1>4, <1>6 DEF Tick, record, handler, loop, Renews, Extendable
<1>7. CASE Cleanup
  BY <1>4, <1>7 DEF Cleanup, DeleteExpired, handler, loop, Renews, Extendable, IdsGivenOut
<1>8. ASSUME NEW w \in Workers, Create(w)
      PROVE  renewAt'[v] + Lease <= lockedUntil' + Spent(faults') + Delay
  <2>1. CASE CreateProcessing(print[w], start[w] + Lease, start[w] + TTL) /\ Hold(w, lastId + 1)
    <3>1. v = w
      <4>1. id' = lastId + 1 /\ id' = mine'[v]
        BY <2>1 DEF CreateProcessing, Renews, Extendable
      <4>2. v # w => mine'[v] = mine[v]
        BY <2>1 DEF Hold
      <4>3. mine[v] <= lastId /\ mine[v] \in Nat /\ lastId \in Nat
        BY DEF IdsGivenOut
      <4>4. QED
        BY <4>1, <4>2, <4>3
    <3>2. renewAt'[v] = clock + RenewInterval /\ lockedUntil' = start[w] + Lease
      BY <2>1, <3>1 DEF CreateProcessing, Hold, NextTick
    <3>3. clock <= start[w] + MaxAcquire
      BY <1>8 DEF Create, OnSchedule
    <3>4. QED
      BY <1>1, <1>5, <3>2, <3>3
  <2>2. CASE UNCHANGED <<record, loop>> /\ pc'[w] # "operate" /\ UNCHANGED <<print, mine>>
                /\ \A u \in Workers \ {w} : pc'[u] = pc[u]
    BY <1>4, <2>2 DEF record, loop, Renews, Extendable
  <2>3. QED
    BY <1>8, <2>1, <2>2 DEF Create, Refuse, Finish
<1>9. ASSUME NEW w \in Workers, GetExisting(w)
      PROVE  renewAt'[v] + Lease <= lockedUntil' + Spent(faults') + Delay
  BY <1>4, <1>9 DEF GetExisting, Refuse, Finish, record, loop, Renews, Extendable
<1>10. ASSUME NEW w \in Workers, Reclaim(w)
       PROVE  renewAt'[v] + Lease <= lockedUntil' + Spent(faults') + Delay
  <2>1. CASE TryReclaim(start[w] + Lease, start[w] + TTL) /\ Hold(w, mine[w])
    <3>1. clock <= start[w] + MaxAcquire /\ lockedUntil' = start[w] + Lease
      BY <1>10, <2>1 DEF Reclaim, TryReclaim, OnSchedule
    <3>2. renewAt'[v] <= clock + RenewInterval
      BY <1>1, <2>1 DEF Hold, NextTick, Renews, OnSchedule
    <3>3. QED
      BY <1>1, <1>5, <3>1, <3>2
  <2>2. CASE Refuse(w)
    BY <1>4, <2>2 DEF Refuse, Finish, record, loop, Renews, Extendable
  <2>3. QED
    BY <1>10, <2>1, <2>2 DEF Reclaim
<1>11. ASSUME NEW w \in Workers, Release(w)
       PROVE  renewAt'[v] + Lease <= lockedUntil' + Spent(faults') + Delay
  BY <1>4, <1>11
     DEF Release, Stop, MarkSucceeded, MarkFailedRetryable, Mark, Finish, record, Renews, Extendable
<1>12. ASSUME NEW w \in Workers, RenewTick(w)
       PROVE  renewAt'[v] + Lease <= lockedUntil' + Spent(faults') + Delay
  <2>1. renewAt[w] = clock
    BY <1>12 DEF RenewTick, OnSchedule
  <2>2. renewAt'[v] = renewAt[v]
    BY <1>12, <2>1 DEF RenewTick
  <2>3. Renews(v) /\ pc[v] = "operate" /\ lockedUntil' = lockedUntil
    BY <1>12 DEF RenewTick, record, handler, Renews, Extendable
  <2>4. QED
    BY <1>4, <2>2, <2>3
<1>13. ASSUME NEW w \in Workers, Extend(w)
       PROVE  renewAt'[v] + Lease <= lockedUntil' + Spent(faults') + Delay
  <2>1. pc'[v] = pc[v] /\ renew[w] = "extend" /\ Extendable(mine[v], print[v])
    BY <1>13 DEF Extend, handler, record, Renews, Extendable, ExtendProcessingLock
  <2>2. CASE lockedUntil' = renewAt[w] + Lease /\ Continue(w)
    <3>1. renewAt'[v] <= clock + RenewInterval
      BY <1>1, <2>1, <2>2 DEF Continue, OnSchedule, HeldTellsTime, Renews
    <3>2. clock <= renewAt[w] + MaxExtend
      BY <2>1 DEF OnSchedule
    <3>3. QED
      BY <1>1, <1>5, <2>2, <3>1, <3>2
  <2>3. CASE UNCHANGED <<record, renewAt>> /\ renew' = [renew EXCEPT ![w] = "off"]
    BY <1>4, <2>1, <2>3 DEF record, Renews
  <2>4. CASE UNCHANGED record /\ Continue(w) /\ Fault
    <3>1. lockedUntil' = lockedUntil /\ faults' = faults + 1
          /\ renewAt'[v] \in {renewAt[v], renewAt[v] + RenewInterval}
      BY <2>4 DEF record, Continue, Fault
    <3>2. renewAt[v] + Lease <= lockedUntil + Spent(faults) + Delay
      BY <2>1, <2>4 DEF LeaseCoversRenewal, Continue, Renews
    <3>3. renewAt[v] \in Nat /\ lockedUntil \in Nat
      OBVIOUS
    <3>4. QED
      BY <1>1, <1>3, <3>1, <3>2, <3>3
  <2>5. QED
    BY <1>13, <2>2, <2>3, <2>4 DEF Extend, ExtendProcessingLock
<1>14. ASSUME NEW w \in Workers, Crash(w)
       PROVE  renewAt'[v] + Lease <= lockedUntil' + Spent(faults') + Delay
  BY <1>4, <1>14 DEF Crash, Finish, record, Renews, Extendable
<1>15. ASSUME NEW w \in Workers, NEW op \in Prints, Acquire(w, op)
       PROVE  renewAt'[v] + Lease <= lockedUntil' + Spent(faults') + Delay
  BY <1>4, <1>15 DEF Acquire, record, loop, Renews, Extendable
<1>16. CASE UNCHANGED vars
  BY <1>4, <1>16 DEF vars, record, handler, loop, Renews, Extendable
<1>17. QED
  BY <1>6, <1>7, <1>8, <1>9, <1>10, <1>11, <1>12, <1>13, <1>14, <1>15, <1>16 DEF Next

-----------------------------------------------------------------------------
(* LockInv is an invariant of every instance of the specification.         *)
THEOREM LockInvariance == Spec => []LockInv
<1>1. LockInv /\ [Next]_vars => LockInv'
  BY TypeStep, TimeStep, LeaseStep, IdsStep, CoverStep DEF LockInv
<1>2. QED
  BY <1>1, LockInit, PTL DEF Spec

(* The values of the lock service keep their types, the bound of the       *)
(* failures included.                                                      *)
THEOREM LockTypeCorrect == Spec => []TypeOK
<1>1. LockInv => TypeOK
  BY DEF LockInv
<1>2. QED
  BY <1>1, LockInvariance, PTL

(* However handlers crash, releases fail and renewals come late, a lock    *)
(* that nobody holds is free one lease after it was last held.             *)
THEOREM LockIsFreed == Spec => []FreeAfterLease
<1>1. LockInv => FreeAfterLease
  BY DEF LockInv, LeaseIsBounded, FreeAfterLease
<1>2. QED
  BY <1>1, LockInvariance, PTL

(* When the lease leaves room for the failures there are, nobody reclaims  *)
(* a row that its holder renews: the lease is still running.               *)
LEMMA RenewedIsLocked ==
  ASSUME LockInv, LeaseSuffices, NEW w \in Workers, pc[w] = "operate", Renews(w)
  PROVE  clock < lockedUntil
<1>1. /\ Lease \in Nat /\ MaxExtend \in Nat /\ Delay \in Nat
      /\ clock \in Nat /\ lockedUntil \in Nat /\ renewAt[w] \in Nat /\ faults \in Nat
  BY Numbers DEF LockInv, TypeOK, RecordTypeOK
<1>2. Spent(faults) \in Nat /\ Spent(MaxFaults) \in Nat /\ Spent(faults) <= Spent(MaxFaults)
  BY Numbers, SpentSteps, SpentGrows DEF LockInv, TypeOK
<1>3. clock <= renewAt[w] + MaxExtend
  BY <1>1 DEF LockInv, TypeOK, OnSchedule, Renews
<1>4. renewAt[w] + Lease <= lockedUntil + Spent(faults) + Delay
  BY DEF LockInv, LeaseCoversRenewal
<1>5. QED
  BY <1>1, <1>2, <1>3, <1>4 DEF LeaseSuffices

(* An operation that is alone and renews its row stays alone, if the lease *)
(* suffices for the renewals that may fail.                                *)
THEOREM RenewedLockIsKept == LeaseSuffices /\ Spec => KeptWhileRenewed
<1> SUFFICES ASSUME LeaseSuffices
             PROVE  Spec => KeptWhileRenewed
  OBVIOUS
<1>1. ASSUME LockInv, [Next]_vars, NEW w \in Workers, Holders = {w}, Renews(w)
      PROVE  Cardinality(Holders') <= 1
  <2>1. pc[w] = "operate" /\ id = mine[w] /\ id # 0 /\ state = "processing"
    BY <1>1 DEF Holders, Renews, Extendable, LockInv, IdsGivenOut
  <2>2. clock < lockedUntil
    BY <1>1, <2>1, RenewedIsLocked
  <2>3. ASSUME NEW v \in Workers, pc[v] # "operate", pc'[v] = "operate"
        PROVE  FALSE
    <3>1. Create(v) \/ Reclaim(v)
      BY <1>1, <2>3
         DEF Next, Tick, Cleanup, Create, GetExisting, Reclaim, Release, RenewTick, Extend, Crash,
             Acquire, Finish, Refuse, Hold, handler, vars, LockInv, TypeOK, Acquiring
    <3>2. ~Create(v)
      BY <1>1, <2>1, <2>3 DEF Create, CreateProcessing, Refuse, Finish, LockInv, TypeOK
    <3>3. ~Reclaim(v)
      <4>1. start[v] <= clock /\ start[v] \in Nat /\ clock \in Nat /\ lockedUntil \in Nat
        BY <1>1 DEF LockInv, OnSchedule, TypeOK, RecordTypeOK
      <4>2. ~Reclaimable(mine[v], seen[v], start[v])
        BY <2>2, <4>1 DEF Reclaimable
      <4>3. QED
        BY <1>1, <2>3, <4>2 DEF Reclaim, Refuse, Finish, LockInv, TypeOK
    <3>4. QED
      BY <3>1, <3>2, <3>3
  <2>4. Holders' \subseteq {w}
    BY <1>1, <2>3 DEF Holders
  <2>5. IsFiniteSet({w}) /\ Cardinality({w}) = 1
    BY FS_Singleton
  <2>6. Cardinality(Holders') <= Cardinality({w})
    BY <2>4, <2>5, FS_Subset
  <2>7. QED
    BY <2>5, <2>6
<1>2. LockInv /\ [Next]_vars
        => [(\E w \in Workers : Holders = {w} /\ Renews(w)) => Cardinality(Holders') <= 1]_vars
  BY <1>1
<1>3. QED
  BY <1>2, LockInvariance, PTL DEF Spec, KeptWhileRenewed

=============================================================================
