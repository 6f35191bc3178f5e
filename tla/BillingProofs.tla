---------------------------- MODULE BillingProofs ----------------------------
(***************************************************************************)
(* Proofs about Billing, for every set of requests, every assignment of    *)
(* keys, fingerprints and policies, queues of any length and any number of *)
(* failures: a key is charged at most once, under the policy sync whatever *)
(* was served is charged, the cached balance drifts for a reason only, and *)
(* a half open breaker is never stuck.                                     *)
(***************************************************************************)
EXTENDS Billing, FiniteSetTheorems, TLAPS

(* The key and the fingerprint of a request.                               *)
LEMMA KeyType ==
  ASSUME TypeOK, NEW r \in Requests
  PROVE  Key(r) \in Keys /\ Fingerprint(r) \in Prints /\ Fingerprint(r) # None
BY BillingAssumption DEF TypeOK, Key, Fingerprint

(* A write is only enqueued where there is room for it.                    *)
LEMMA QueueType ==
  ASSUME TypeOK, NEW t \in Tasks
  PROVE  /\ QueueRoom => /\ writes \cup {t} \subseteq Tasks
                         /\ IsFiniteSet(writes \cup {t})
                         /\ Cardinality(writes \cup {t}) <= CacheQueue
         /\ /\ writes \ {t} \subseteq Tasks
            /\ IsFiniteSet(writes \ {t})
            /\ Cardinality(writes \ {t}) <= CacheQueue
<1>1. IsFiniteSet(writes) /\ Cardinality(writes) \in Nat
  BY FS_CardinalityType DEF TypeOK
<1>2. /\ IsFiniteSet(writes \cup {t})
      /\ Cardinality(writes \cup {t}) \in {Cardinality(writes), Cardinality(writes) + 1}
  BY <1>1, FS_AddElement
<1>3. /\ IsFiniteSet(writes \ {t})
      /\ Cardinality(writes \ {t}) \in {Cardinality(writes), Cardinality(writes) - 1}
  BY <1>1, FS_RemoveElement
<1>4. CacheQueue \in Nat
  BY BillingAssumption
<1>5. QED
  BY <1>1, <1>2, <1>3, <1>4 DEF TypeOK, QueueRoom

(* A deduction leaves an entry, or none.                                   *)
LEMMA DeductedType ==
  ASSUME cache \in Entries \cup {None}
  PROVE  Deducted \in Entries \cup {None}
<1>1. CASE cache = None
  BY <1>1 DEF Deducted
<1>2. CASE cache # None
  <2>1. cache.value - 1 \in Int
    BY <1>2 DEF Entries
  <2>2. QED
    BY <1>2, <2>1 DEF Deducted, Entries
<1>3. QED
  BY <1>1, <1>2

(* The breaker: what it becomes on a request and on a failure.             *)
LEMMA BreakerType ==
  ASSUME breaker \in Breakers, ClosedBelowThreshold
  PROVE  /\ CanAllow => Allowed \in Breakers
         /\ OnFailure \in Breakers
         /\ Closed \in Breakers
<1>1. FailureThreshold \in Nat \ {0} /\ HalfOpenRequests \in Nat \ {0}
  BY BillingAssumption
<1>2. /\ breaker.state \in {"closed", "open", "halfOpen"} /\ breaker.elapsed \in BOOLEAN
      /\ breaker.failures \in 0 .. FailureThreshold /\ breaker.remaining \in 0 .. HalfOpenRequests
  BY DEF Breakers
<1>3. ASSUME CanAllow
      PROVE  Allowed \in Breakers
  <2>1. CASE breaker.state = "closed"
    BY <2>1 DEF Allowed
  <2>2. CASE breaker.state = "open"
    <3>1. Allowed = [breaker EXCEPT !.state = "halfOpen", !.elapsed = FALSE, !.remaining = HalfOpenRequests - 1]
      BY <2>2 DEF Allowed
    <3>2. HalfOpenRequests - 1 \in 0 .. HalfOpenRequests
      BY <1>1
    <3>3. QED
      BY <3>1, <3>2 DEF Breakers
  <2>3. CASE breaker.state = "halfOpen"
    <3>1. Allowed = [breaker EXCEPT !.state = "halfOpen", !.elapsed = FALSE, !.remaining = breaker.remaining - 1]
      BY <2>3 DEF Allowed, Breakers
    <3>2. breaker.remaining - 1 \in 0 .. HalfOpenRequests
      BY <1>1, <1>2, <1>3, <2>3 DEF CanAllow
    <3>3. QED
      BY <3>1, <3>2 DEF Breakers
  <2>4. QED
    BY <1>2, <2>1, <2>2, <2>3
<1>4. OnFailure \in Breakers
  <2>1. CASE breaker.state = "open"
    BY <2>1 DEF OnFailure
  <2>2. CASE breaker.state = "halfOpen"
    <3>1. OnFailure = [breaker EXCEPT !.state = "open", !.remaining = 0, !.elapsed = FALSE]
      BY <2>2 DEF OnFailure
    <3>2. 0 \in 0 .. HalfOpenRequests
      BY <1>1
    <3>3. QED
      BY <3>1, <3>2 DEF Breakers
  <2>3. CASE breaker.state = "closed"
    <3> DEFINE n == breaker.failures + 1
               s == IF n >= FailureThreshold THEN "open" ELSE "closed"
    <3>1. OnFailure = [breaker EXCEPT !.failures = n, !.elapsed = FALSE, !.state = s]
      BY <2>3 DEF OnFailure, Breakers
    <3>2. n \in 0 .. FailureThreshold
      BY <1>1, <1>2, <2>3 DEF ClosedBelowThreshold
    <3>3. s \in {"closed", "open", "halfOpen"}
      OBVIOUS
    <3> HIDE DEF n, s
    <3>4. QED
      BY <3>1, <3>2, <3>3 DEF Breakers
  <2>4. QED
    BY <1>2, <2>1, <2>2, <2>3
<1>5. QED
  BY <1>1, <1>3, <1>4 DEF Closed, Breakers

(* Request r moves to a label with an outcome, and no other request moves. *)
Moves(r, label, outcome) ==
    /\ req' \in [Requests -> States]
    /\ \A q \in Requests \ {r} : req'[q] = req[q]
    /\ req'[r].pc = label /\ req'[r].outcome = outcome

(* Whatever a step stores in the record of its request, it is a move.      *)
LEMMA GotoMoves ==
  ASSUME req \in [Requests -> States], NEW r \in Requests, NEW l \in Labels, Goto(r, l)
  PROVE  Moves(r, l, req[r].outcome)
BY DEF Goto, Moves, States

(* A request that ends leaves a blank record with its outcome.             *)
LEMMA DoneMoves ==
  ASSUME req \in [Requests -> States], NEW r \in Requests, NEW o \in Outcomes, Done(r, o)
  PROVE  Moves(r, "done", o)
<1>1. [pc |-> "done", value |-> 0, inPool |-> FALSE, outcome |-> o] \in States
  BY DEF States, Labels
<1>2. QED
  BY <1>1 DEF Done, Moves

(* A request moves on with a balance it has read.                          *)
LEMMA ValueMoves ==
  ASSUME req \in [Requests -> States], NEW r \in Requests, NEW l \in Labels, NEW v \in Int,
         req' = [req EXCEPT ![r].pc = l, ![r].value = v]
  PROVE  Moves(r, l, req[r].outcome)
BY DEF Moves, States

(* A submitted record is with the pool.                                    *)
LEMMA PoolMoves ==
  ASSUME req \in [Requests -> States], NEW r \in Requests,
         req' = [req EXCEPT ![r].pc = "pooled", ![r].inPool = TRUE]
  PROVE  Moves(r, "pooled", req[r].outcome)
BY DEF Moves, States, Labels

(* The record of one request is read by the others only through these.     *)
SameKeys ==
    /\ req' \in [Requests -> States]
    /\ \A q \in Requests :
          /\ req'[q].pc \in {"claimed", "existing", "deduct"} => req'[q].pc = req[q].pc
          /\ req'[q].outcome \in {"recorded", "duplicate", "conflict"} => req'[q].outcome = req[q].outcome

SameRecords ==
    \A q \in Requests :
        req'[q].outcome \in {"dropped", "failed", "duplicate", "conflict", "recorded"} =>
            req'[q].outcome = req[q].outcome

SameChecks == \A q \in Requests : req[q].pc \in Checking => req'[q].pc \in Checking

(* A step that leaves the tables alone and moves nobody to or from a key.  *)
LEMMA QuietKeys ==
  ASSUME KeysTellCharges, SameKeys, UNCHANGED <<live, archive, charged, setting>>
  PROVE  KeysTellCharges'
<1>1. \A k \in Keys : (charged[k] = IF live[k] = None /\ archive[k] = None THEN 0 ELSE 1)'
  BY DEF KeysTellCharges
<1>2. \A r \in Requests : (At(r, "claimed") => live[Key(r)] = None)'
  BY DEF KeysTellCharges, SameKeys, At, Key
<1>3. \A q, r \in Requests : (At(q, "claimed") /\ At(r, "claimed") /\ q # r => Key(q) # Key(r))'
  BY DEF KeysTellCharges, SameKeys, At, Key
<1>4. \A r \in Requests :
         ((req[r].pc \in {"existing", "deduct"} \/ req[r].outcome \in {"recorded", "duplicate", "conflict"})
            => charged[Key(r)] = 1)'
  BY DEF KeysTellCharges, SameKeys, Key
<1>5. QED
  BY <1>1, <1>2, <1>3, <1>4 DEF KeysTellCharges

(* A step that gives no record an outcome keeps ServedIsCharged: failures  *)
(* and stops are not taken back without a crash.                           *)
LEMMA QuietRecords ==
  ASSUME TypeOK, ServedIsCharged, SameRecords, UNCHANGED <<charged, setting>>,
         faults' = faults \/ faults' = faults + 1, stopped' = stopped \/ stopped' \/ faults' # faults
  PROVE  ServedIsCharged'
<1>1. faults \in Nat
  BY BillingAssumption DEF TypeOK
<1>2. QED
  BY <1>1 DEF ServedIsCharged, SameRecords, Key

(* A step that lets no probe go unreported and leaves the breaker in its   *)
(* state keeps HalfOpenIsProbed.                                           *)
LEMMA QuietBreaker ==
  ASSUME HalfOpenIsProbed, SameChecks, breaker \in Breakers,
         UNCHANGED breaker \/ breaker' = [breaker EXCEPT !.elapsed = TRUE]
  PROVE  HalfOpenIsProbed'
<1>1. breaker'.state = breaker.state /\ breaker'.remaining = breaker.remaining
  BY DEF Breakers
<1>2. QED
  BY <1>1 DEF HalfOpenIsProbed, SameChecks

(* Requests that waited for a load are woken together.                     *)
LEMMA WakeMoves ==
  ASSUME req \in [Requests -> States], NEW J \in SUBSET Requests, NEW l \in Labels, NEW v \in Int,
         \/ req' = [q \in Requests |-> IF q \in J THEN [req[q] EXCEPT !.pc = l] ELSE req[q]]
         \/ req' = [q \in Requests |-> IF q \in J THEN [req[q] EXCEPT !.pc = l, !.value = v] ELSE req[q]]
  PROVE  /\ req' \in [Requests -> States]
         /\ \A q \in J : req'[q].pc = l
         /\ \A q \in Requests : req'[q].outcome = req[q].outcome /\ (q \notin J => req'[q].pc = req[q].pc)
<1>1. ASSUME NEW q \in Requests
      PROVE  /\ [req[q] EXCEPT !.pc = l] \in States /\ [req[q] EXCEPT !.pc = l, !.value = v] \in States
             /\ [req[q] EXCEPT !.pc = l].pc = l /\ [req[q] EXCEPT !.pc = l, !.value = v].pc = l
             /\ [req[q] EXCEPT !.pc = l].outcome = req[q].outcome
             /\ [req[q] EXCEPT !.pc = l, !.value = v].outcome = req[q].outcome
  BY DEF States
<1>2. QED
  BY <1>1

-----------------------------------------------------------------------------
(* The eligibility check keeps the invariant: no key is touched, and a     *)
(* request that is let through is there until it reports.                  *)
LEMMA CheckStep ==
  ASSUME IndInv, NEW r \in Requests,
         Allow(r) \/ ReadCache(r) \/ Load(r) \/ DbRead(r) \/ Fill(r) \/ Report(r) \/ ReportError(r)
  PROVE  IndInv'
<1> SUFFICES /\ TypeOK' /\ ClosedBelowThreshold'
             /\ SameKeys /\ SameRecords /\ HalfOpenIsProbed'
             /\ UNCHANGED <<live, archive, charged, setting, stopped>>
             /\ faults' = faults \/ faults' = faults + 1
  BY QuietKeys, QuietRecords DEF IndInv
<1> USE DEF IndInv
<1>0. /\ req \in [Requests -> States] /\ breaker \in Breakers /\ balance \in Int
      /\ MaxFaults \in Nat /\ faults \in 0 .. MaxFaults /\ req[r].value \in Int /\ flight \in Requests \cup {None}
  BY BillingAssumption DEF TypeOK, States
<1>1. CASE Allow(r)
  <2>1. \/ CanAllow /\ breaker' = Allowed /\ Moves(r, "cache", req[r].outcome)
        \/ breaker' = breaker /\ Moves(r, "done", "unavailable")
    BY <1>0, <1>1, GotoMoves, DoneMoves DEF Allow, Labels, Outcomes
  <2>2. UNCHANGED <<setting, elsewhere, balance, live, archive, cache, writes, flight, stopped, recharge, charged, raced, faults>>
    BY <1>1 DEF Allow, database, others
  <2>3. breaker' \in Breakers /\ (breaker' = breaker \/ breaker' = Allowed)
    BY <1>0, <2>1, BreakerType
  <2>4. ClosedBelowThreshold'
    BY <1>0, <2>3 DEF ClosedBelowThreshold, Allowed, Breakers
  <2>5. HalfOpenIsProbed'
    <3>1. CASE Moves(r, "cache", req[r].outcome)
      BY <3>1 DEF Moves, HalfOpenIsProbed, Checking
    <3>2. CASE breaker' = breaker /\ Moves(r, "done", "unavailable")
      BY <1>0, <1>1, <3>2, QuietBreaker DEF Moves, SameChecks, Checking, Allow, At
    <3>3. QED
      BY <2>1, <3>1, <3>2
  <2>6. QED
    BY <2>1, <2>2, <2>3, <2>4, <2>5 DEF TypeOK, Moves, SameKeys, SameRecords
<1>2. CASE ReadCache(r)
  <2>1. Moves(r, "report", req[r].outcome) \/ Moves(r, "load", req[r].outcome)
    <3>1. cache # None => cache.value \in Int
      BY DEF TypeOK, Entries
    <3>2. QED
      BY <1>0, <1>2, <3>1, GotoMoves, ValueMoves DEF ReadCache, Labels
  <2>2. /\ UNCHANGED <<setting, elsewhere, balance, live, archive, cache, writes, flight, breaker, stopped, recharge, charged, raced>>
        /\ (faults' = faults \/ faults' = faults + 1) /\ faults' \in 0 .. MaxFaults
    BY <1>0, <1>2 DEF ReadCache, database, others, process, Fault, NoFault
  <2>3. HalfOpenIsProbed'
    BY <1>0, <2>1, <2>2, QuietBreaker DEF Moves, SameChecks, Checking
  <2>4. QED
    BY <1>0, <2>1, <2>2, <2>3 DEF TypeOK, Moves, SameKeys, SameRecords, ClosedBelowThreshold
<1>3. CASE Load(r)
  <2>1. Moves(r, "dbRead", req[r].outcome) \/ Moves(r, "join", req[r].outcome)
    BY <1>0, <1>3, GotoMoves DEF Load, Labels
  <2>2. /\ UNCHANGED <<setting, elsewhere, balance, live, archive, cache, writes, breaker, stopped, recharge, charged, raced, faults>>
        /\ flight' \in Requests \cup {None}
    BY <1>0, <1>3 DEF Load, database, others
  <2>3. HalfOpenIsProbed'
    BY <1>0, <2>1, <2>2, QuietBreaker DEF Moves, SameChecks, Checking
  <2>4. QED
    BY <1>0, <2>1, <2>2, <2>3 DEF TypeOK, Moves, SameKeys, SameRecords, ClosedBelowThreshold
<1>4. CASE DbRead(r)
  <2>1. ASSUME req' = [req EXCEPT ![r].pc = "fill", ![r].value = balance]
        PROVE  SameKeys /\ SameRecords /\ SameChecks
    <3>1. Moves(r, "fill", req[r].outcome)
      BY <1>0, <2>1, ValueMoves DEF Labels
    <3>2. QED
      BY <3>1 DEF Moves, SameKeys, SameRecords, SameChecks, Checking
  <2>2. ASSUME req' = [q \in Requests |-> IF q \in Joined \cup {r} THEN [req[q] EXCEPT !.pc = "error"] ELSE req[q]]
        PROVE  SameKeys /\ SameRecords /\ SameChecks
    <3>1. Joined \cup {r} \in SUBSET Requests /\ "error" \in Labels /\ 0 \in Int
      BY DEF Joined, Labels
    <3>2. /\ req' \in [Requests -> States]
          /\ \A q \in Joined \cup {r} : req'[q].pc = "error"
          /\ \A q \in Requests : req'[q].outcome = req[q].outcome /\ (q \notin Joined \cup {r} => req'[q].pc = req[q].pc)
      BY <1>0, <2>2, <3>1, WakeMoves
    <3>3. QED
      BY <3>2 DEF SameKeys, SameRecords, SameChecks, Checking
  <2>3. SameKeys /\ SameRecords /\ SameChecks
    BY <1>4, <2>1, <2>2 DEF DbRead
  <2>4. /\ UNCHANGED <<setting, elsewhere, balance, live, archive, cache, writes, breaker, stopped, recharge, charged>>
        /\ (faults' = faults \/ faults' = faults + 1) /\ faults' \in 0 .. MaxFaults
        /\ flight' \in Requests \cup {None}
    BY <1>0, <1>4 DEF DbRead, database, others, Fault, NoFault
  <2>5. HalfOpenIsProbed'
    BY <1>0, <2>3, <2>4, QuietBreaker
  <2>6. raced' \in BOOLEAN
    <3>1. raced' = raced \/ raced' = (raced \/ Deducting)
      BY <1>4 DEF DbRead
    <3>2. QED
      BY <3>1, Zenon DEF TypeOK
  <2>7. QED
    BY <1>0, <2>3, <2>4, <2>5, <2>6 DEF TypeOK, SameKeys, ClosedBelowThreshold
<1>5. CASE Fill(r)
  <2>1. SameKeys /\ SameRecords /\ SameChecks
    <3>1. Joined \cup {r} \in SUBSET Requests /\ "report" \in Labels
      BY DEF Joined, Labels
    <3>2. req' = [q \in Requests |-> IF q \in Joined \cup {r} THEN [req[q] EXCEPT !.pc = "report", !.value = req[r].value] ELSE req[q]]
      BY <1>5 DEF Fill
    <3>3. /\ req' \in [Requests -> States]
          /\ \A q \in Joined \cup {r} : req'[q].pc = "report"
          /\ \A q \in Requests : req'[q].outcome = req[q].outcome /\ (q \notin Joined \cup {r} => req'[q].pc = req[q].pc)
      BY <1>0, <3>1, <3>2, WakeMoves
    <3>4. QED
      BY <3>3 DEF SameKeys, SameRecords, SameChecks, Checking
  <2>2. UNCHANGED <<setting, elsewhere, balance, live, archive, cache, breaker, stopped, recharge, charged, raced, faults>> /\ flight' = None
    BY <1>5 DEF Fill, database, others
  <2>3. [kind |-> "set", of |-> r, value |-> req[r].value] \in Tasks
    BY <1>0 DEF Tasks
  <2>4. writes' \subseteq Tasks /\ IsFiniteSet(writes') /\ Cardinality(writes') <= CacheQueue
    BY <1>5, <2>3, QueueType DEF Fill, TypeOK
  <2>5. HalfOpenIsProbed'
    BY <1>0, <2>1, <2>2, QuietBreaker
  <2>6. QED
    BY <1>0, <2>1, <2>2, <2>4, <2>5 DEF TypeOK, SameKeys, ClosedBelowThreshold
<1>6. CASE Report(r) \/ ReportError(r)
  <2>1. \/ Moves(r, "done", "rejected") \/ Moves(r, "done", "unavailable")
        \/ Moves(r, "serve", req[r].outcome)
    <3>1. \/ Done(r, "rejected") \/ Done(r, "unavailable")
          \/ req' = [req EXCEPT ![r].pc = "serve", ![r].value = 0]
      BY <1>6 DEF Report, ReportError
    <3>2. "rejected" \in Outcomes /\ "unavailable" \in Outcomes /\ "serve" \in Labels /\ 0 \in Int
      BY DEF Outcomes, Labels
    <3>3. QED
      BY <1>0, <3>1, <3>2, ValueMoves, DoneMoves
  <2>2. UNCHANGED <<setting, elsewhere, balance, live, archive, cache, writes, flight, stopped, recharge, charged, raced, faults>>
    BY <1>6 DEF Report, ReportError, database, others
  <2>3. breaker' = Closed \/ breaker' = OnFailure
    BY <1>6 DEF Report, ReportError
  <2>4. breaker' \in Breakers
    BY <1>0, <2>3, BreakerType
  <2>5. breaker'.state # "halfOpen" /\ ClosedBelowThreshold'
    <3>1. FailureThreshold \in Nat \ {0}
      BY BillingAssumption
    <3>2. CASE breaker' = Closed
      BY <3>1, <3>2 DEF Closed, ClosedBelowThreshold
    <3>3. CASE breaker' = OnFailure /\ breaker.state \in {"open", "halfOpen"}
      BY <1>0, <3>3 DEF OnFailure, ClosedBelowThreshold, Breakers
    <3>4. CASE breaker' = OnFailure /\ breaker.state = "closed"
      <4>1. /\ breaker'.state = (IF breaker.failures + 1 >= FailureThreshold THEN "open" ELSE "closed")
            /\ breaker'.failures = breaker.failures + 1
        BY <1>0, <3>4 DEF OnFailure, Breakers
      <4>2. breaker.failures \in Nat
        BY <1>0, <3>1 DEF Breakers
      <4>3. QED
        BY <3>1, <4>1, <4>2 DEF ClosedBelowThreshold
    <3>5. QED
      BY <1>0, <2>3, <3>2, <3>3, <3>4 DEF Breakers
  <2>6. QED
    BY <2>1, <2>2, <2>4, <2>5 DEF TypeOK, Moves, SameKeys, SameRecords, HalfOpenIsProbed
<1>7. QED
  BY <1>1, <1>2, <1>3, <1>4, <1>5, <1>6

-----------------------------------------------------------------------------
(* The pool keeps the invariant: under the policy sync nothing is dropped  *)
(* before the pool is stopped.                                             *)
LEMMA PoolStep ==
  ASSUME IndInv, NEW r \in Requests, Serve(r) \/ Submit(r) \/ StartTask(r)
  PROVE  IndInv'
<1> USE DEF IndInv
<1>0. req \in [Requests -> States] /\ breaker \in Breakers
  BY DEF TypeOK
<1>1. UNCHANGED <<setting, elsewhere, balance, live, archive, cache, writes, flight, breaker, stopped, recharge, charged, raced, faults>>
  BY DEF Serve, Submit, StartTask, database, others, process
<1>2. \/ Moves(r, "submit", req[r].outcome) \/ Moves(r, "pooled", req[r].outcome)
      \/ Moves(r, "claim", req[r].outcome) \/ Moves(r, "done", "unbilled")
      \/ Moves(r, "done", "dropped") /\ (stopped \/ setting.policy # "sync")
  <2>1. {"submit", "claim"} \subseteq Labels /\ {"unbilled", "dropped"} \subseteq Outcomes
    BY DEF Labels, Outcomes
  <2>2. \/ Goto(r, "submit") \/ Goto(r, "claim") \/ Done(r, "unbilled")
        \/ req' = [req EXCEPT ![r].pc = "pooled", ![r].inPool = TRUE]
        \/ Done(r, "dropped") /\ (stopped \/ setting.policy # "sync")
    <3>1. CASE Serve(r)
      BY <3>1 DEF Serve
    <3>2. CASE Submit(r)
      BY <3>2 DEF Submit, RunsOverflow, TypeOK
    <3>3. CASE StartTask(r)
      BY <3>3 DEF StartTask
    <3>4. QED
      BY <3>1, <3>2, <3>3
  <2>3. QED
    BY <1>0, <2>1, <2>2, GotoMoves, DoneMoves, PoolMoves
<1>3. At(r, "serve") \/ At(r, "submit") \/ At(r, "pooled")
  BY DEF Serve, Submit, StartTask
<1>4. SameKeys /\ SameChecks
  BY <1>2, <1>3 DEF Moves, SameKeys, SameChecks, Checking, At
<1>5. ServedIsCharged'
  <2>1. CASE SameRecords
    BY <1>1, <2>1, QuietRecords
  <2>2. CASE stopped \/ setting.policy # "sync"
    BY <1>1, <2>2 DEF ServedIsCharged
  <2>3. QED
    BY <1>2, <2>1, <2>2 DEF Moves, SameRecords
<1>6. KeysTellCharges' /\ HalfOpenIsProbed'
  BY <1>0, <1>1, <1>4, QuietKeys, QuietBreaker
<1>7. TypeOK' /\ ClosedBelowThreshold'
  BY <1>1, <1>4 DEF TypeOK, SameKeys, ClosedBelowThreshold
<1>8. QED
  BY <1>5, <1>6, <1>7

(* The transaction keeps the invariant.                                    *)
LEMMA ApplyStep ==
  ASSUME IndInv, NEW r \in Requests, Claim(r) \/ ReadExisting(r) \/ Apply(r) \/ QueueDeduct(r)
  PROVE  IndInv'
<1> USE DEF IndInv
<1>0. /\ req \in [Requests -> States] /\ breaker \in Breakers /\ MaxFaults \in Nat /\ faults \in 0 .. MaxFaults
      /\ Key(r) \in Keys /\ Fingerprint(r) \in Prints /\ Fingerprint(r) # None
      /\ live \in [Keys -> Prints \cup {None}] /\ charged \in [Keys -> Nat]
  BY KeyType, BillingAssumption DEF TypeOK
<1>1. /\ UNCHANGED <<setting, stopped, recharge, elsewhere, flight, breaker, archive>>
      /\ faults' \in 0 .. MaxFaults /\ (faults' = faults \/ faults' = faults + 1)
  BY <1>0 DEF Claim, ReadExisting, Apply, QueueDeduct, Charge, database, others, process, Fault, NoFault
<1>2. /\ {"claimed", "existing", "deduct"} \subseteq Labels
      /\ {"failed", "duplicate", "conflict", "recorded"} \subseteq Outcomes
  BY DEF Labels, Outcomes
<1>3. ASSUME SameChecks
      PROVE  HalfOpenIsProbed'
  BY <1>0, <1>1, <1>3, QuietBreaker
<1>4. CASE Claim(r)
  <2>1. \/ Moves(r, "claimed", req[r].outcome) /\ live[Key(r)] = None
        \/ Moves(r, "existing", req[r].outcome) /\ live[Key(r)] # None
        \/ Moves(r, "done", "failed") /\ faults' = faults + 1
    BY <1>0, <1>2, <1>4, GotoMoves, DoneMoves DEF Claim, Fault
  <2>2. UNCHANGED <<balance, live, charged, cache, writes, raced>>
    BY <1>4 DEF Claim, database, process
  <2>3. KeysTellCharges'
    <3>1. CASE Moves(r, "claimed", req[r].outcome) /\ live[Key(r)] = None
      BY <1>1, <1>4, <2>2, <3>1 DEF Claim, KeysTellCharges, Moves, At, Key
    <3>2. CASE Moves(r, "existing", req[r].outcome) /\ live[Key(r)] # None
      BY <1>0, <1>1, <2>2, <3>2 DEF KeysTellCharges, Moves, At, Key
    <3>3. CASE Moves(r, "done", "failed")
      BY <1>1, <2>2, <3>3, QuietKeys DEF SameKeys, Moves
    <3>4. QED
      BY <2>1, <3>1, <3>2, <3>3
  <2>4. ServedIsCharged'
    <3>1. CASE SameRecords
      BY <1>1, <2>2, <3>1, QuietRecords
    <3>2. CASE faults' = faults + 1
      BY <1>0, <3>2 DEF ServedIsCharged
    <3>3. QED
      BY <2>1, <3>1, <3>2 DEF Moves, SameRecords
  <2>5. SameChecks
    BY <1>4, <2>1 DEF Claim, Moves, SameChecks, Checking, At
  <2>6. QED
    BY <1>1, <1>3, <2>1, <2>2, <2>3, <2>4, <2>5 DEF TypeOK, Moves, ClosedBelowThreshold
<1>5. CASE ReadExisting(r)
  <2>1. Moves(r, "done", "duplicate") \/ Moves(r, "done", "conflict") \/ Moves(r, "done", "failed")
    BY <1>0, <1>2, <1>5, DoneMoves DEF ReadExisting, Found
  <2>2. UNCHANGED <<balance, live, charged, cache, writes, raced>>
    BY <1>5 DEF ReadExisting, database, process
  <2>3. charged[Key(r)] = 1
    BY <1>5 DEF ReadExisting, KeysTellCharges, At
  <2>4. KeysTellCharges'
    BY <1>1, <2>1, <2>2, <2>3 DEF KeysTellCharges, Moves, At, Key
  <2>5. ServedIsCharged'
    BY <1>0, <1>1, <2>1, <2>2, <2>3 DEF ServedIsCharged, Moves, Key
  <2>6. SameChecks
    BY <1>5, <2>1 DEF ReadExisting, Moves, SameChecks, Checking, At
  <2>7. QED
    BY <1>1, <1>3, <2>1, <2>2, <2>4, <2>5, <2>6 DEF TypeOK, Moves, ClosedBelowThreshold
<1>6. CASE Apply(r)
  <2>0. SameChecks /\ UNCHANGED <<cache, writes>> /\ At(r, "claimed")
    <3>1. \E l \in {"deduct", "done"} : \E o \in Outcomes \cup {req[r].outcome} : Moves(r, l, o)
      BY <1>0, <1>2, <1>6, GotoMoves, DoneMoves DEF Apply, Found
    <3>2. QED
      BY <1>6, <3>1 DEF Apply, process, Moves, SameChecks, Checking, At
  <2>1. ASSUME UNCHANGED <<balance, live, charged, raced>>,
               \/ archive[Key(r)] # None /\ (Moves(r, "done", "duplicate") \/ Moves(r, "done", "conflict"))
               \/ Moves(r, "done", "failed") /\ faults' = faults + 1
        PROVE  IndInv'
    <3>1. KeysTellCharges'
      BY <1>0, <1>1, <2>1 DEF KeysTellCharges, Moves, At, Key
    <3>2. ServedIsCharged'
      BY <1>0, <1>1, <2>1 DEF ServedIsCharged, KeysTellCharges, Moves, Key
    <3>3. QED
      BY <1>1, <1>3, <2>0, <2>1, <3>1, <3>2 DEF TypeOK, Moves, ClosedBelowThreshold
  <2>2. ASSUME Charge(r), archive[Key(r)] = None,
               \/ Moves(r, "deduct", req[r].outcome)
               \/ Moves(r, "done", "failed") /\ faults' = faults + 1
        PROVE  IndInv'
    <3>1. /\ live' = [live EXCEPT ![Key(r)] = Fingerprint(r)]
          /\ charged' = [charged EXCEPT ![Key(r)] = @ + 1]
          /\ live[Key(r)] = None /\ charged[Key(r)] = 0
      BY <1>0, <2>0, <2>2 DEF Charge, KeysTellCharges
    <3>2. /\ charged'[Key(r)] = 1 /\ live'[Key(r)] # None
          /\ \A k \in Keys \ {Key(r)} : charged'[k] = charged[k] /\ live'[k] = live[k]
      BY <1>0, <3>1
    <3>3. \A q \in Requests : Key(q) \in Keys /\ Key(q)' = Key(q)
      BY <1>1, KeyType DEF Key
    <3>4. KeysTellCharges'
      <4>1. \A k \in Keys : (charged[k] = IF live[k] = None /\ archive[k] = None THEN 0 ELSE 1)'
        BY <1>0, <1>1, <3>2 DEF KeysTellCharges
      <4>2. \A q \in Requests : (At(q, "claimed") => live[Key(q)] = None)'
        BY <2>0, <2>2, <3>2, <3>3 DEF KeysTellCharges, Moves, At
      <4>3. \A p, q \in Requests : (At(p, "claimed") /\ At(q, "claimed") /\ p # q => Key(p) # Key(q))'
        BY <2>2, <3>3 DEF KeysTellCharges, Moves, At
      <4>4. \A q \in Requests :
               ((req[q].pc \in {"existing", "deduct"} \/ req[q].outcome \in {"recorded", "duplicate", "conflict"})
                  => charged[Key(q)] = 1)'
        BY <2>2, <3>2, <3>3 DEF KeysTellCharges, Moves
      <4>5. QED
        BY <4>1, <4>2, <4>3, <4>4 DEF KeysTellCharges
    <3>5. ServedIsCharged'
      BY <1>0, <1>1, <2>2, <3>2, <3>3 DEF ServedIsCharged, Moves
    <3>6. balance' \in Int
      BY <2>2 DEF Charge, TypeOK
    <3>7. raced' \in BOOLEAN
      BY <2>2, Zenon DEF Charge, TypeOK
    <3>8. live' \in [Keys -> Prints \cup {None}] /\ charged' \in [Keys -> Nat]
      BY <1>0, <3>1
    <3>9. QED
      BY <1>1, <1>3, <2>0, <2>2, <3>4, <3>5, <3>6, <3>7, <3>8 DEF TypeOK, Moves, ClosedBelowThreshold
  <2>3. QED
    <3>1. ASSUME archive[Key(r)] # None, Found(r, archive[Key(r)])
          PROVE  Moves(r, "done", "duplicate") \/ Moves(r, "done", "conflict")
      BY <1>0, <1>2, <3>1, DoneMoves DEF Found
    <3>2. Done(r, "failed") => Moves(r, "done", "failed")
      BY <1>0, <1>2, DoneMoves
    <3>3. Goto(r, "deduct") => Moves(r, "deduct", req[r].outcome)
      BY <1>0, <1>2, GotoMoves
    <3>4. QED
      BY <1>6, <2>1, <2>2, <3>1, <3>2, <3>3 DEF Apply, Archived, Fault, database
<1>7. CASE QueueDeduct(r)
  <2>1. Moves(r, "done", "recorded")
    BY <1>0, <1>2, <1>7, DoneMoves DEF QueueDeduct
  <2>2. UNCHANGED <<balance, live, charged, raced>>
    BY <1>7 DEF QueueDeduct, database
  <2>3. charged[Key(r)] = 1
    BY <1>7 DEF QueueDeduct, KeysTellCharges, At
  <2>4. KeysTellCharges'
    BY <1>1, <2>1, <2>2, <2>3 DEF KeysTellCharges, Moves, At, Key
  <2>5. ServedIsCharged'
    BY <1>0, <1>1, <2>1, <2>2, <2>3 DEF ServedIsCharged, Moves, Key
  <2>6. SameChecks
    BY <1>7, <2>1 DEF QueueDeduct, Moves, SameChecks, Checking, At
  <2>7. writes' \subseteq Tasks /\ IsFiniteSet(writes') /\ Cardinality(writes') <= CacheQueue
    <3>1. [kind |-> "deduct", of |-> r, value |-> 1] \in Tasks
      BY DEF Tasks
    <3>2. QED
      BY <1>7, <3>1, QueueType DEF QueueDeduct, TypeOK
  <2>8. cache' \in Entries \cup {None}
    BY <1>7, DeductedType DEF QueueDeduct, Fallback, TypeOK
  <2>9. QED
    BY <1>1, <1>3, <2>1, <2>2, <2>4, <2>5, <2>6, <2>7, <2>8 DEF TypeOK, Moves, ClosedBelowThreshold
<1>8. QED
  BY <1>4, <1>5, <1>6, <1>7

-----------------------------------------------------------------------------
(* So do the workers of the cache, the archiving of keys, recharges, other *)
(* processes, the passing of time, the end of the pool and a crash.        *)
LEMMA BesideStep ==
  ASSUME IndInv,
         \/ \E t \in writes : WriteCache(t)
         \/ \E k \in Keys : Archive(k)
         \/ Recharge \/ InvalidateUserBalance \/ ChargeElsewhere \/ CacheLapses \/ ResetTimeout \/ Stop \/ Crash
  PROVE  IndInv'
<1> USE DEF IndInv
<1>0. /\ req \in [Requests -> States] /\ breaker \in Breakers /\ MaxFaults \in Nat /\ faults \in 0 .. MaxFaults
      /\ cache \in Entries \cup {None} /\ writes \subseteq Tasks
  BY BillingAssumption DEF TypeOK
<1>1. ASSUME UNCHANGED <<setting, req, live, archive, charged>>,
             faults' = faults \/ faults' = faults + 1,
             stopped' = stopped \/ stopped',
             UNCHANGED breaker \/ breaker' = [breaker EXCEPT !.elapsed = TRUE]
      PROVE  KeysTellCharges' /\ ServedIsCharged' /\ HalfOpenIsProbed' /\ breaker' \in Breakers /\ ClosedBelowThreshold'
  <2>1. SameKeys /\ SameRecords /\ SameChecks
    BY <1>0, <1>1 DEF SameKeys, SameRecords, SameChecks
  <2>2. KeysTellCharges' /\ ServedIsCharged' /\ HalfOpenIsProbed'
    BY <1>0, <1>1, <2>1, QuietKeys, QuietRecords, QuietBreaker
  <2>3. breaker' \in Breakers /\ ClosedBelowThreshold'
    BY <1>0, <1>1 DEF Breakers, ClosedBelowThreshold
  <2>4. QED
    BY <2>2, <2>3
<1>2. ASSUME NEW t \in writes, WriteCache(t)
      PROVE  IndInv'
  <2>1. /\ UNCHANGED <<setting, elsewhere, balance, req, live, archive, charged, flight, breaker, stopped, recharge, raced>>
        /\ (faults' = faults \/ faults' = faults + 1) /\ faults' \in 0 .. MaxFaults
    BY <1>0, <1>2 DEF WriteCache, database, others, Fault, NoFault
  <2>2. t \in Tasks /\ t.value \in Int
    BY <1>0 DEF Tasks
  <2>3. writes' \subseteq Tasks /\ IsFiniteSet(writes') /\ Cardinality(writes') <= CacheQueue
    BY <1>2, <2>2, QueueType DEF WriteCache
  <2>4. cache' \in Entries \cup {None}
    <3>1. [value |-> t.value, ttl |-> TRUE] \in Entries
      BY <2>2 DEF Entries
    <3>2. QED
      BY <1>0, <1>2, <3>1, DeductedType DEF WriteCache
  <2>5. QED
    BY <1>1, <2>1, <2>3, <2>4 DEF TypeOK
<1>3. ASSUME NEW k \in Keys, Archive(k)
      PROVE  IndInv'
  <2>1. /\ UNCHANGED <<setting, elsewhere, balance, req, charged, cache, writes, flight, breaker, stopped, recharge, raced, faults>>
        /\ live[k] # None
        /\ live' = [live EXCEPT ![k] = None]
        /\ archive' = [archive EXCEPT ![k] = IF archive[k] = None THEN live[k] ELSE archive[k]]
    BY <1>3 DEF Archive, process, others
  <2>2. live \in [Keys -> Prints \cup {None}] /\ archive \in [Keys -> Prints \cup {None}]
    BY DEF TypeOK
  <2>3. /\ live' \in [Keys -> Prints \cup {None}] /\ archive' \in [Keys -> Prints \cup {None}]
        /\ live'[k] = None /\ archive'[k] # None
        /\ \A j \in Keys \ {k} : live'[j] = live[j] /\ archive'[j] = archive[j]
    BY <2>1, <2>2
  <2>4. \A q \in Requests : Key(q) \in Keys /\ Key(q)' = Key(q)
    BY <2>1, KeyType DEF Key
  <2>5. KeysTellCharges'
    <3>1. \A j \in Keys : (charged[j] = IF live[j] = None /\ archive[j] = None THEN 0 ELSE 1)'
      BY <2>1, <2>3 DEF KeysTellCharges
    <3>2. \A q \in Requests : (At(q, "claimed") => live[Key(q)] = None)'
      BY <2>1, <2>3, <2>4 DEF KeysTellCharges, At
    <3>3. QED
      BY <2>1, <2>4, <3>1, <3>2 DEF KeysTellCharges, At
  <2>6. SameRecords /\ SameChecks
    BY <2>1 DEF SameRecords, SameChecks
  <2>7. QED
    BY <1>0, <2>1, <2>3, <2>5, <2>6, QuietRecords, QuietBreaker DEF TypeOK, ClosedBelowThreshold
<1>4. CASE Recharge
  <2>1. UNCHANGED <<setting, elsewhere, req, live, archive, charged, cache, writes, flight, breaker, stopped, faults>> /\ recharge' = "invalidate"
    BY <1>4 DEF Recharge, process
  <2>2. balance' \in Int
    BY <1>4 DEF Recharge, TypeOK
  <2>3. raced' \in BOOLEAN
    BY <1>4, Zenon DEF Recharge, TypeOK
  <2>4. QED
    BY <1>1, <2>1, <2>2, <2>3 DEF TypeOK
<1>5. CASE InvalidateUserBalance
  <2>1. /\ UNCHANGED <<setting, elsewhere, balance, req, live, archive, charged, writes, flight, breaker, stopped, raced>>
        /\ (faults' = faults \/ faults' = faults + 1) /\ faults' \in 0 .. MaxFaults
        /\ recharge' = "done" /\ cache' \in {cache, None}
    BY <1>0, <1>5 DEF InvalidateUserBalance, database, process, Fault, NoFault
  <2>2. QED
    BY <1>0, <1>1, <2>1 DEF TypeOK
<1>6. CASE CacheLapses
  <2>1. UNCHANGED <<setting, elsewhere, balance, req, live, archive, charged, writes, flight, breaker, stopped, recharge, raced, faults>> /\ cache' = None
    BY <1>6 DEF CacheLapses, database, process, others
  <2>2. QED
    BY <1>1, <2>1 DEF TypeOK
<1>7. CASE ResetTimeout
  <2>1. /\ UNCHANGED <<setting, elsewhere, balance, req, live, archive, charged, cache, writes, flight, stopped, recharge, raced, faults>>
        /\ breaker' = [breaker EXCEPT !.elapsed = TRUE]
    BY <1>7 DEF ResetTimeout, database, others
  <2>2. QED
    BY <1>1, <2>1 DEF TypeOK
<1>8. CASE Stop
  <2>1. UNCHANGED <<setting, elsewhere, balance, req, live, archive, charged, cache, writes, flight, breaker, recharge, raced, faults>> /\ stopped' = TRUE
    BY <1>8 DEF Stop, database, process
  <2>2. QED
    BY <1>1, <2>1 DEF TypeOK
<1>9. CASE Crash
  <2>1. /\ UNCHANGED <<setting, elsewhere, balance, live, archive, charged, cache, raced>>
        /\ faults' = faults + 1 /\ faults' \in 0 .. MaxFaults /\ faults' # 0
        /\ writes' = {} /\ flight' = None /\ breaker' = Closed /\ stopped' = FALSE
        /\ recharge' \in {recharge, "done"}
    BY <1>0, <1>9 DEF Crash, Fault, database
  <2>2. req' \in [Requests -> States] /\ SameKeys
    <3>1. [pc |-> "done", value |-> 0, inPool |-> FALSE, outcome |-> "crashed"] \in States
      BY DEF States, Labels, Outcomes
    <3>2. QED
      BY <1>0, <1>9, <3>1 DEF Crash, SameKeys
  <2>3. KeysTellCharges'
    BY <2>1, <2>2, QuietKeys
  <2>4. ServedIsCharged' /\ HalfOpenIsProbed'
    BY <2>1 DEF ServedIsCharged, HalfOpenIsProbed, Closed
  <2>5. IsFiniteSet({}) /\ Cardinality({}) = 0 /\ CacheQueue \in Nat /\ FailureThreshold \in Nat \ {0}
    BY FS_EmptySet, BillingAssumption
  <2>6. ClosedBelowThreshold' /\ breaker' \in Breakers
    BY <1>0, <2>1, <2>5, BreakerType DEF ClosedBelowThreshold, Closed
  <2>7. writes' \subseteq Tasks /\ IsFiniteSet(writes') /\ Cardinality(writes') <= CacheQueue
    BY <2>1, <2>5
  <2>8. recharge' \in {"none", "invalidate", "done"} /\ flight' \in Requests \cup {None} /\ stopped' \in BOOLEAN
    BY <2>1 DEF TypeOK
  <2>9. TypeOK'
    BY <2>1, <2>2, <2>6, <2>7, <2>8 DEF TypeOK
  <2>10. QED
    BY <2>3, <2>4, <2>6, <2>9
<1>10. CASE ChargeElsewhere
  <2>1. UNCHANGED <<setting, req, live, archive, charged, writes, flight, breaker, stopped, recharge, faults>>
    BY <1>10 DEF ChargeElsewhere, process
  <2>2. balance' \in Int /\ elsewhere' \in Nat
    BY <1>10 DEF ChargeElsewhere, TypeOK
  <2>3. raced' \in BOOLEAN
    BY <1>10, Zenon DEF ChargeElsewhere, TypeOK
  <2>4. cache' \in Entries \cup {None}
    BY <1>0, <1>10, DeductedType DEF ChargeElsewhere
  <2>5. QED
    BY <1>1, <2>1, <2>2, <2>3, <2>4 DEF TypeOK
<1>11. QED
  BY <1>2, <1>3, <1>4, <1>5, <1>6, <1>7, <1>8, <1>9, <1>10

-----------------------------------------------------------------------------
(* The inductive invariant of billing: what the tables, the requests and   *)
(* the breaker say of each other.                                          *)
THEOREM BillingInvariance == Spec => []IndInv
<1>1. Init => IndInv
  <2> SUFFICES ASSUME Init
               PROVE  IndInv
    OBVIOUS
  <2>1. /\ {PoolQueue, PoolWorkers, CacheQueue, FailureThreshold, HalfOpenRequests} \subseteq Nat \ {0}
        /\ MaxFaults \in Nat /\ setting \in Settings /\ setting.balance \in Int
        /\ IsFiniteSet({}) /\ Cardinality({}) = 0
    BY BillingAssumption, FS_EmptySet DEF Init
  <2>2. [pc |-> "idle", value |-> 0, inPool |-> FALSE, outcome |-> "none"] \in States
    BY DEF States, Labels, Outcomes
  <2>3. Closed \in Breakers /\ ClosedBelowThreshold
    BY <2>1 DEF Init, Closed, Breakers, ClosedBelowThreshold
  <2>4. TypeOK
    <3>1. writes \subseteq Tasks /\ IsFiniteSet(writes) /\ Cardinality(writes) <= CacheQueue
      BY <2>1 DEF Init
    <3>2. /\ live \in [Keys -> Prints \cup {None}] /\ archive \in [Keys -> Prints \cup {None}]
          /\ charged \in [Keys -> Nat] /\ req \in [Requests -> States]
      BY <2>2 DEF Init
    <3>3. /\ setting \in Settings /\ balance \in Int /\ elsewhere \in Nat /\ cache \in Entries \cup {None}
          /\ flight \in Requests \cup {None} /\ breaker \in Breakers /\ faults \in 0 .. MaxFaults
      BY <2>1, <2>3 DEF Init
    <3>4. stopped \in BOOLEAN /\ raced \in BOOLEAN /\ recharge \in {"none", "invalidate", "done"}
      BY DEF Init
    <3>5. QED
      BY <3>1, <3>2, <3>3, <3>4 DEF TypeOK
  <2>5. \A r \in Requests : Key(r) \in Keys
    BY <2>4, KeyType
  <2>6. KeysTellCharges /\ ServedIsCharged /\ HalfOpenIsProbed
    BY <2>5 DEF Init, KeysTellCharges, ServedIsCharged, HalfOpenIsProbed, At, Closed
  <2>7. QED
    BY <2>3, <2>4, <2>6 DEF IndInv
<1>2. IndInv /\ [Next]_vars => IndInv'
  <2> SUFFICES ASSUME IndInv, [Next]_vars
               PROVE  IndInv'
    OBVIOUS
  <2>1. CASE UNCHANGED vars
    BY <2>1 DEF vars, IndInv, TypeOK, ClosedBelowThreshold, KeysTellCharges, ServedIsCharged, HalfOpenIsProbed, At, Key
  <2>2. ASSUME NEW r \in Requests, Allow(r) \/ Step(r)
        PROVE  IndInv'
    BY <2>2, CheckStep, PoolStep, ApplyStep DEF Step
  <2>3. QED
    BY <2>1, <2>2, BesideStep DEF Next
<1>3. QED
  BY <1>1, <1>2, PTL DEF Spec

(* Every reachable state is well typed: in particular the queue of cache   *)
(* writes stays within its buffer and the breaker within its counters.     *)
THEOREM BillingTypeCorrect == Spec => []TypeOK
<1>1. IndInv => TypeOK
  BY DEF IndInv
<1>2. QED
  BY <1>1, BillingInvariance, PTL

(* usageBillingRepository.Apply charges a key at most once, and what it    *)
(* reports of a key is right, for any number of records, failures and      *)
(* crashes and with keys archived at any time.                             *)
THEOREM KeysAreChargedOnce == Spec => []ChargedOnce
<1>1. IndInv => ChargedOnce
  <2> SUFFICES ASSUME IndInv, NEW r \in Requests
               PROVE  /\ charged[Key(r)] <= 1
                      /\ req[r].outcome \in {"recorded", "duplicate"} => charged[Key(r)] = 1
    BY DEF ChargedOnce
  <2>1. Key(r) \in Keys
    BY KeyType DEF IndInv
  <2>2. QED
    BY <2>1 DEF IndInv, KeysTellCharges
<1>2. QED
  BY <1>1, BillingInvariance, PTL

(* Under the overflow policy sync, a request that was served is charged    *)
(* as long as no call fails and the pool is not stopped.                   *)
THEOREM WhatIsServedIsCharged == Spec => []ServedIsCharged
<1>1. IndInv => ServedIsCharged
  BY DEF IndInv
<1>2. QED
  BY <1>1, BillingInvariance, PTL

(* The circuit breaker never waits for a report that nobody will make.     *)
THEOREM ProbesReport == Spec => []HalfOpenIsProbed
<1>1. IndInv => HalfOpenIsProbed
  BY DEF IndInv
<1>2. QED
  BY <1>1, BillingInvariance, PTL

-----------------------------------------------------------------------------
(* The cached balance                                                      *)

(* Requests that were charged and whose deduction has not reached the      *)
(* cache.                                                                  *)
Pending ==
    {r \in Requests : At(r, "deduct") \/ \E t \in writes : t.kind = "deduct" /\ t.of = r}

(* What is read or queued is of the day: a balance to be cached is the     *)
(* balance, and a deduction to be made is of a request that ended.         *)
WorkIsFresh ==
    /\ ~(Filling /\ Deducting)
    /\ \A r \in Requests : At(r, "fill") => req[r].value = balance
    /\ \A t \in writes : t.kind = "set" => t.value = balance
    /\ \A t \in writes : t.kind = "deduct" => t.value = 1 /\ At(t.of, "done")

(* The cached balance is ahead by the deductions that are pending.         *)
CacheFollows ==
    /\ IsFiniteSet(Pending)
    /\ cache # None /\ recharge # "invalidate" => cache.value = balance + Cardinality(Pending)

DriftInv == ~raced /\ faults = 0 => WorkIsFresh /\ CacheFollows

(* Without a deduction under way no deduction is pending.                  *)
LEMMA NothingPending ==
  ASSUME TypeOK
  PROVE  /\ ~Deducting <=> Pending = {}
         /\ Pending = {} => IsFiniteSet(Pending) /\ Cardinality(Pending) = 0
<1>1. \A t \in writes : t.of \in Requests
  BY DEF TypeOK, Tasks
<1>2. QED
  BY <1>1, FS_EmptySet DEF Deducting, Pending

(* Nobody comes to a load or a deduction, or leaves one.                   *)
Undisturbed ==
    \A q \in Requests :
        /\ req'[q].pc = "fill" <=> req[q].pc = "fill"
        /\ req[q].pc = "fill" => req'[q].value = req[q].value
        /\ req'[q].pc = "deduct" <=> req[q].pc = "deduct"
        /\ req[q].pc = "done" => req'[q].pc = "done"

(* A step of one request that is neither filling nor deducting, before or  *)
(* after, does not disturb the cache.                                      *)
LEMMA OneUndisturbed ==
  ASSUME NEW r \in Requests, \A q \in Requests \ {r} : req'[q] = req[q],
         req[r].pc \notin {"fill", "deduct", "done"}, req'[r].pc \notin {"fill", "deduct"}
  PROVE  Undisturbed
BY DEF Undisturbed

(* Such a step keeps both parts of the invariant, and so does one that     *)
(* removes the cached balance.                                             *)
LEMMA DriftFrame ==
  ASSUME TypeOK, WorkIsFresh, CacheFollows, Undisturbed, UNCHANGED <<balance, writes>>,
         cache' = None \/ UNCHANGED <<cache, recharge>>
  PROVE  WorkIsFresh' /\ CacheFollows'
<1>1. \A t \in writes : t.of \in Requests
  BY DEF TypeOK, Tasks
<1>2. /\ Filling' <=> Filling
      /\ Deducting' <=> Deducting
  BY DEF Filling, Deducting, At, Undisturbed
<1>3. Pending' = Pending
  BY DEF Pending, At, Undisturbed
<1>4. WorkIsFresh'
  BY <1>1, <1>2 DEF WorkIsFresh, At, Undisturbed
<1>5. CacheFollows'
  BY <1>3 DEF CacheFollows
<1>6. QED
  BY <1>4, <1>5

(* Most of the life of a request is no business of the cache.              *)
LEMMA QuietDrift ==
  ASSUME TypeOK, WorkIsFresh, CacheFollows, ~Fault, NEW r \in Requests,
         \/ Allow(r) \/ ReadCache(r) \/ Load(r) \/ Report(r) \/ ReportError(r)
         \/ Serve(r) \/ Submit(r) \/ StartTask(r) \/ Claim(r) \/ ReadExisting(r)
  PROVE  WorkIsFresh' /\ CacheFollows'
<1>1. req \in [Requests -> States]
  BY DEF TypeOK
<1>2. UNCHANGED <<balance, writes, cache, recharge>>
  BY DEF Allow, ReadCache, Load, Report, ReportError, Serve, Submit, StartTask, Claim, ReadExisting,
         database, others, process
<1>3. /\ \A q \in Requests \ {r} : req'[q] = req[q]
      /\ req[r].pc \notin {"fill", "deduct", "done"} /\ req'[r].pc \notin {"fill", "deduct"}
  <2>1. CASE Allow(r)
    BY <1>1, <2>1 DEF Allow, At, Goto, Done, States
  <2>2. CASE ReadCache(r)
    BY <1>1, <2>2 DEF ReadCache, At, Goto, States
  <2>3. CASE Load(r)
    BY <1>1, <2>3 DEF Load, At, Goto, States
  <2>4. CASE Report(r)
    BY <1>1, <2>4 DEF Report, At, Done, States
  <2>5. CASE ReportError(r)
    BY <1>1, <2>5 DEF ReportError, At, Done, States
  <2>6. CASE Serve(r)
    BY <1>1, <2>6 DEF Serve, At, Goto, Done, States
  <2>7. CASE Submit(r)
    BY <1>1, <2>7 DEF Submit, At, Goto, Done, States
  <2>8. CASE StartTask(r)
    BY <1>1, <2>8 DEF StartTask, At, Goto, States
  <2>9. CASE Claim(r)
    BY <1>1, <2>9 DEF Claim, At, Goto, Done, States
  <2>10. CASE ReadExisting(r)
    BY <1>1, <2>10 DEF ReadExisting, At, Found, Done, States
  <2>11. QED
    BY <2>1, <2>2, <2>3, <2>4, <2>5, <2>6, <2>7, <2>8, <2>9, <2>10
<1>4. QED
  BY <1>2, <1>3, OneUndisturbed, DriftFrame

(* A load begins where no deduction is pending, ...                        *)
LEMMA DbReadDrift ==
  ASSUME TypeOK, WorkIsFresh, CacheFollows, ~Fault, ~raced', NEW r \in Requests, DbRead(r)
  PROVE  WorkIsFresh' /\ CacheFollows'
<1>1. /\ req \in [Requests -> States] /\ balance \in Int /\ req[r].pc = "dbRead" /\ ~Deducting
      /\ req' = [req EXCEPT ![r].pc = "fill", ![r].value = balance]
      /\ UNCHANGED <<balance, writes, cache, recharge>>
  BY DEF TypeOK, DbRead, At, database, others
<1>2. /\ \A q \in Requests \ {r} : req'[q] = req[q]
      /\ req'[r].pc = "fill" /\ req'[r].value = balance
  BY <1>1 DEF States
<1>3. Pending' = Pending
  BY <1>1, <1>2 DEF Pending, At
<1>4. ~Deducting'
  BY <1>1, <1>2 DEF Deducting, At
<1>5. \A t \in writes : t.kind = "deduct" => FALSE
  BY <1>1 DEF Deducting
<1>6. WorkIsFresh'
  BY <1>1, <1>2, <1>4, <1>5 DEF WorkIsFresh, At
<1>7. QED
  BY <1>1, <1>3, <1>6 DEF CacheFollows

(* ... and is queued while none is.                                        *)
LEMMA FillDrift ==
  ASSUME TypeOK, WorkIsFresh, CacheFollows, NEW r \in Requests, Fill(r)
  PROVE  WorkIsFresh' /\ CacheFollows'
<1> DEFINE J == Joined \cup {r}
           v == req[r].value
           s == [kind |-> "set", of |-> r, value |-> v]
<1>1. /\ req \in [Requests -> States] /\ req[r].pc = "fill" /\ v = balance
      /\ req' = [q \in Requests |-> IF q \in J THEN [req[q] EXCEPT !.pc = "report", !.value = v] ELSE req[q]]
      /\ writes' \in {writes, writes \cup {s}}
      /\ UNCHANGED <<balance, cache, recharge>>
  BY DEF TypeOK, WorkIsFresh, Fill, At, database, others
<1>2. \A q \in J : req[q].pc \in {"join", "fill"}
  BY <1>1 DEF Joined, At
<1>3. ~Deducting
  BY <1>1 DEF WorkIsFresh, Filling, At
<1>4. s.kind = "set" /\ s.value = balance
  BY <1>1
<1> HIDE DEF J, v, s
<1>5. \A q \in Requests : /\ q \in J => req'[q].pc = "report"
                          /\ q \notin J => req'[q] = req[q]
  BY <1>1 DEF States
<1>6. \A t \in writes' : t.kind # "deduct"
  BY <1>1, <1>3, <1>4 DEF Deducting
<1>7. ~Deducting'
  BY <1>2, <1>3, <1>5, <1>6 DEF Deducting, At
<1>8. Pending' = {} /\ Pending = {}
  BY <1>3, <1>5, <1>6, NothingPending DEF Pending, Deducting, At
<1>9. WorkIsFresh'
  <2>1. \A q \in Requests : req'[q].pc = "fill" => req'[q].value = balance
    BY <1>5 DEF WorkIsFresh, At
  <2>2. \A t \in writes' : t.kind = "set" => t.value = balance
    BY <1>1, <1>4 DEF WorkIsFresh
  <2>3. QED
    BY <1>1, <1>6, <1>7, <2>1, <2>2 DEF WorkIsFresh, At
<1>10. QED
  BY <1>1, <1>8, <1>9 DEF CacheFollows

(* A charge puts the cache ahead by one deduction more.                    *)
LEMMA ApplyDrift ==
  ASSUME TypeOK, WorkIsFresh, CacheFollows, ~Fault, ~raced', NEW r \in Requests, Apply(r)
  PROVE  WorkIsFresh' /\ CacheFollows'
<1>1. /\ req \in [Requests -> States] /\ req[r].pc = "claimed" /\ balance \in Int
      /\ UNCHANGED <<writes, cache, recharge>>
  BY DEF TypeOK, Apply, At, process, others
<1>2. CASE Found(r, Archived(r)) /\ UNCHANGED database
  <2>1. /\ \A q \in Requests \ {r} : req'[q] = req[q]
        /\ req'[r].pc = "done"
    BY <1>1, <1>2 DEF Found, Done, States
  <2>2. UNCHANGED balance
    BY <1>2 DEF database
  <2>3. QED
    BY <1>1, <2>1, <2>2, OneUndisturbed, DriftFrame
<1>3. CASE Charge(r) /\ Goto(r, "deduct")
  <2>1. /\ \A q \in Requests \ {r} : req'[q] = req[q]
        /\ req'[r].pc = "deduct"
    BY <1>1, <1>3 DEF Goto, States
  <2>2. ~Filling /\ balance' = balance - 1
    BY <1>3 DEF Charge
  <2>3. r \notin Pending
    BY <1>1 DEF Pending, WorkIsFresh, At
  <2>4. Pending' = Pending \cup {r}
    BY <1>1, <2>1 DEF Pending, At
  <2>5. /\ IsFiniteSet(Pending') /\ Cardinality(Pending) \in Nat
        /\ Cardinality(Pending') = Cardinality(Pending) + 1
    BY <2>3, <2>4, FS_AddElement, FS_CardinalityType DEF CacheFollows
  <2>6. \A t \in writes : t.of \in Requests
    BY DEF TypeOK, Tasks
  <2>7. ~Filling'
    BY <1>1, <2>1, <2>2 DEF Filling, At
  <2>8. WorkIsFresh'
    <3>1. \A q \in Requests : req'[q].pc # "fill"
      BY <2>1, <2>2 DEF Filling, At
    <3>2. \A t \in writes : /\ t.kind # "set"
                            /\ t.kind = "deduct" => t.value = 1 /\ req'[t.of].pc = "done"
      BY <1>1, <2>1, <2>2, <2>6 DEF WorkIsFresh, Filling, At
    <3>3. QED
      BY <1>1, <2>7, <3>1, <3>2 DEF WorkIsFresh, At
  <2>9. CacheFollows'
    <3>1. ASSUME cache # None, recharge # "invalidate"
          PROVE  cache.value = balance' + Cardinality(Pending')
      <4>1. cache.value = balance + Cardinality(Pending)
        BY <3>1 DEF CacheFollows
      <4>2. QED
        BY <1>1, <2>2, <2>5, <4>1
    <3>2. QED
      BY <1>1, <2>5, <3>1 DEF CacheFollows
  <2>10. QED
    BY <2>8, <2>9
<1>4. QED
  BY <1>2, <1>3 DEF Apply

(* A deduction that reaches the cache is not pending any more.             *)
LEMMA Caught ==
  ASSUME TypeOK, CacheFollows, NEW r \in Pending, Pending' = Pending \ {r},
         UNCHANGED <<balance, recharge>>, cache' = Deducted
  PROVE  CacheFollows'
<1>1. /\ IsFiniteSet(Pending') /\ Cardinality(Pending) \in Nat
      /\ Cardinality(Pending') = Cardinality(Pending) - 1
  BY FS_RemoveElement, FS_CardinalityType DEF CacheFollows
<1>2. ASSUME cache' # None, recharge # "invalidate"
      PROVE  cache'.value = balance + Cardinality(Pending')
  <2>1. cache # None /\ cache'.value = cache.value - 1
    BY <1>2 DEF Deducted
  <2>2. cache.value = balance + Cardinality(Pending) /\ balance \in Int
    BY <1>2, <2>1 DEF CacheFollows, TypeOK
  <2>3. QED
    BY <1>1, <2>1, <2>2
<1>3. QED
  BY <1>1, <1>2 DEF CacheFollows

(* A deduction that is queued stays pending, one that is made at once      *)
(* moves the cache to the balance by one.                                  *)
LEMMA QueueDeductDrift ==
  ASSUME TypeOK, WorkIsFresh, CacheFollows, ~Fault, NEW r \in Requests, QueueDeduct(r)
  PROVE  WorkIsFresh' /\ CacheFollows'
<1> DEFINE d == [kind |-> "deduct", of |-> r, value |-> 1]
<1>1. /\ req \in [Requests -> States] /\ req[r].pc = "deduct" /\ UNCHANGED <<balance, recharge>>
      /\ \A q \in Requests \ {r} : req'[q] = req[q]
      /\ req'[r].pc = "done"
  BY DEF TypeOK, QueueDeduct, At, Done, States, database, others
<1>2. ~Filling /\ \A t \in writes : t.kind # "set" /\ t.of # r /\ t.of \in Requests
  <2>1. ~Filling
    BY <1>1 DEF WorkIsFresh, Deducting, At
  <2>2. \A t \in writes : t.of \in Requests /\ t.kind \in {"set", "deduct"}
    BY DEF TypeOK, Tasks
  <2>3. \A t \in writes : t.kind # "set"
    BY <2>1 DEF Filling
  <2>4. \A t \in writes : req[t.of].pc = "done"
    BY <2>2, <2>3 DEF WorkIsFresh, At
  <2>5. QED
    BY <1>1, <2>1, <2>2, <2>3, <2>4
<1>3. \A q \in Requests : req'[q].pc # "fill"
  BY <1>1, <1>2 DEF Filling, At
<1>4. \A t \in writes : t.kind = "deduct" => t.value = 1 /\ req'[t.of].pc = "done"
  BY <1>1, <1>2 DEF WorkIsFresh, At
<1>5. CASE writes' = writes \cup {d} /\ UNCHANGED cache
  <2>1. d.kind = "deduct" /\ d.of = r /\ d.value = 1
    OBVIOUS
  <2> HIDE DEF d
  <2>2. Pending' = Pending
    BY <1>1, <1>5, <2>1 DEF Pending, At
  <2>3. ~Filling'
    BY <1>2, <1>3, <1>5, <2>1 DEF Filling, At
  <2>4. WorkIsFresh'
    BY <1>1, <1>2, <1>3, <1>4, <1>5, <2>1, <2>3 DEF WorkIsFresh, At
  <2>5. QED
    BY <1>1, <1>5, <2>2, <2>4 DEF CacheFollows
<1>6. CASE cache' = Deducted /\ UNCHANGED writes
  <2>1. r \in Pending /\ Pending' = Pending \ {r}
    BY <1>1, <1>2, <1>6 DEF Pending, At
  <2>2. CacheFollows'
    BY <1>1, <1>6, <2>1, Caught
  <2>3. ~Filling'
    BY <1>2, <1>3, <1>6 DEF Filling, At
  <2>4. QED
    BY <1>1, <1>2, <1>3, <1>4, <1>6, <2>2, <2>3 DEF WorkIsFresh, At
<1>7. QED
  BY <1>5, <1>6 DEF QueueDeduct, Fallback

(* A cache worker writes a balance that is of the day, or takes one        *)
(* pending deduction from the cache.                                       *)
LEMMA WriteDrift ==
  ASSUME TypeOK, WorkIsFresh, CacheFollows, ~Fault, NEW t \in writes, WriteCache(t)
  PROVE  WorkIsFresh' /\ CacheFollows'
<1>1. /\ writes' = writes \ {t} /\ UNCHANGED <<balance, recharge, req>>
      /\ cache' = IF t.kind = "set" THEN [value |-> t.value, ttl |-> TRUE] ELSE Deducted
  BY DEF WriteCache, database, others
<1>2. \A x \in writes : /\ x.kind \in {"set", "deduct"} /\ x.of \in Requests
                        /\ x = [kind |-> x.kind, of |-> x.of, value |-> x.value]
  BY DEF TypeOK, Tasks
<1>3. WorkIsFresh'
  <2>1. (Filling' => Filling) /\ (Deducting' => Deducting)
    BY <1>1 DEF Filling, Deducting, At
  <2>2. QED
    BY <1>1, <2>1 DEF WorkIsFresh, At
<1>4. CASE t.kind = "set"
  <2>1. ~Deducting /\ t.value = balance
    BY <1>4 DEF WorkIsFresh, Filling
  <2>2. Pending = {} /\ Cardinality(Pending) = 0 /\ IsFiniteSet(Pending)
    BY <2>1, NothingPending
  <2>3. Pending' = {}
    BY <1>1, <2>1 DEF Pending, Deducting, At
  <2>4. cache'.value = balance /\ balance \in Int
    BY <1>1, <1>4, <2>1 DEF TypeOK
  <2>5. CacheFollows'
    BY <1>1, <2>2, <2>3, <2>4 DEF CacheFollows
  <2>6. QED
    BY <1>3, <2>5
<1>5. CASE t.kind = "deduct"
  <2>1. t.of \in Pending /\ cache' = Deducted
    BY <1>1, <1>2, <1>5 DEF Pending
  <2>2. \A x \in writes : x.kind = "deduct" /\ x.of = t.of => x = t
    BY <1>2, <1>5 DEF WorkIsFresh
  <2>3. req[t.of].pc # "deduct"
    BY <1>5 DEF WorkIsFresh, At
  <2>4. Pending' = Pending \ {t.of}
    BY <1>1, <1>5, <2>2, <2>3 DEF Pending, At
  <2>5. CacheFollows'
    BY <1>1, <2>1, <2>4, Caught
  <2>6. QED
    BY <1>3, <2>5
<1>6. QED
  BY <1>2, <1>4, <1>5

(* A recharge meets no fill, or it is recorded as raced; until its         *)
(* invalidation nothing is said of the cached value.                       *)
LEMMA RechargeDrift ==
  ASSUME WorkIsFresh, CacheFollows, ~raced', Recharge
  PROVE  WorkIsFresh' /\ CacheFollows'
<1>1. ~Filling /\ recharge' = "invalidate" /\ UNCHANGED <<req, writes>>
  BY DEF Recharge, process
<1>2. Pending' = Pending /\ ~Filling'
  BY <1>1 DEF Pending, Filling, At
<1>3. /\ \A q \in Requests : req[q].pc # "fill"
      /\ \A t \in writes : t.kind # "set"
  BY <1>1 DEF Filling, At
<1>4. WorkIsFresh'
  BY <1>1, <1>2, <1>3 DEF WorkIsFresh, At
<1>5. QED
  BY <1>1, <1>2, <1>4 DEF CacheFollows

(* A charge of another process lowers the balance and its cached value     *)
(* together, and meets no fill, or it is recorded as raced.                *)
LEMMA ElsewhereDrift ==
  ASSUME TypeOK, WorkIsFresh, CacheFollows, ~raced', ChargeElsewhere
  PROVE  WorkIsFresh' /\ CacheFollows'
<1>1. /\ ~Filling /\ UNCHANGED <<req, writes, recharge>>
      /\ cache # None /\ cache \in Entries /\ balance \in Int
      /\ balance' = balance - 1 /\ cache' = Deducted
  BY DEF ChargeElsewhere, process, TypeOK
<1>2. Pending' = Pending /\ ~Filling'
  BY <1>1 DEF Pending, Filling, At
<1>3. /\ \A q \in Requests : req[q].pc # "fill"
      /\ \A t \in writes : t.kind # "set"
  BY <1>1 DEF Filling, At
<1>4. WorkIsFresh'
  BY <1>1, <1>2, <1>3 DEF WorkIsFresh, At
<1>5. cache.value \in Int /\ cache'.value = cache.value - 1
  BY <1>1 DEF Deducted, Entries
<1>6. Cardinality(Pending) \in Nat
  BY FS_CardinalityType DEF CacheFollows
<1>7. QED
  BY <1>1, <1>2, <1>4, <1>5, <1>6 DEF CacheFollows

(* When nothing is under way the cached balance is the balance, unless a   *)
(* call failed or a fill of the cache overlapped a change of the balance   *)
(* or a deduction.  The deductions that are pending, each of them once,    *)
(* are what the cache is ahead by until then.                              *)
THEOREM DriftHasItsCause == Spec => []DriftIsExplained
<1>1. Init => DriftInv
  <2>1. SUFFICES ASSUME Init
                 PROVE  WorkIsFresh /\ CacheFollows
    BY DEF DriftInv
  <2>2. Pending = {} /\ ~Filling
    BY <2>1 DEF Init, Pending, Filling, At
  <2>3. WorkIsFresh
    BY <2>1, <2>2 DEF Init, WorkIsFresh, At
  <2>4. CacheFollows
    BY <2>1, <2>2, FS_EmptySet DEF Init, CacheFollows
  <2>5. QED
    BY <2>3, <2>4
<1>2. TypeOK /\ DriftInv /\ [Next]_vars => DriftInv'
  <2>1. SUFFICES ASSUME TypeOK, DriftInv, [Next]_vars, ~raced', faults' = 0
                 PROVE  WorkIsFresh' /\ CacheFollows'
    BY DEF DriftInv
  <2>2. faults \in Nat /\ ~Fault
    BY <2>1, BillingAssumption DEF TypeOK, Fault
  <2>3. UNCHANGED faults /\ (raced => raced')
    <3>1. ASSUME NEW r \in Requests, Allow(r) \/ Step(r)
          PROVE  UNCHANGED faults /\ (raced => raced')
      <4>1. CASE DbRead(r)
        BY <2>2, <4>1 DEF DbRead, NoFault
      <4>2. CASE Apply(r)
        <5>1. NoFault /\ (UNCHANGED raced \/ Charge(r))
          BY <2>2, <4>2 DEF Apply
        <5>2. Charge(r) => raced' = (raced \/ Filling)
          BY Zenon DEF Charge
        <5>3. CASE UNCHANGED raced
          BY <5>1, <5>3 DEF NoFault
        <5>4. CASE raced' = (raced \/ Filling)
          <6>1. ASSUME raced
                PROVE  raced'
            BY <5>4, <6>1
          <6>2. QED
            BY <5>1, <6>1 DEF NoFault
        <5>5. QED
          BY <5>1, <5>2, <5>3, <5>4
      <4>3. CASE ReadCache(r) \/ Claim(r) \/ ReadExisting(r) \/ QueueDeduct(r)
        BY <2>2, <4>3 DEF ReadCache, Claim, ReadExisting, QueueDeduct, NoFault
      <4>4. CASE Allow(r) \/ Load(r) \/ Report(r) \/ ReportError(r)
        BY <4>4 DEF Allow, Load, Report, ReportError
      <4>5. CASE Serve(r) \/ Submit(r) \/ StartTask(r)
        BY <4>5 DEF Serve, Submit, StartTask
      <4>6. CASE Fill(r)
        <5>1. UNCHANGED <<database, others, breaker, cache, raced, faults>>
          BY <4>6, Zenon DEF Fill
        <5>2. QED
          BY <5>1
      <4>7. QED
        BY <3>1, <4>1, <4>2, <4>3, <4>4, <4>5, <4>6 DEF Step
    <3>2. ASSUME NEW t \in writes, WriteCache(t)
          PROVE  UNCHANGED faults /\ (raced => raced')
      BY <2>2, <3>2 DEF WriteCache, NoFault
    <3>3. CASE \/ \E k \in Keys : Archive(k)
               \/ Recharge \/ InvalidateUserBalance \/ ChargeElsewhere \/ CacheLapses \/ ResetTimeout \/ Stop \/ Crash
      <4>1. CASE Recharge
        BY <4>1 DEF Recharge
      <4>2. CASE InvalidateUserBalance \/ Crash
        BY <2>2, <4>2 DEF InvalidateUserBalance, Crash, NoFault
      <4>3. CASE (\E k \in Keys : Archive(k)) \/ CacheLapses \/ ResetTimeout \/ Stop
        BY <4>3 DEF Archive, CacheLapses, ResetTimeout, Stop
      <4>4. CASE ChargeElsewhere
        BY <4>4 DEF ChargeElsewhere
      <4>5. QED
        BY <3>3, <4>1, <4>2, <4>3, <4>4
    <3>4. QED
      BY <2>1, <3>1, <3>2, <3>3 DEF Next, vars
  <2>4. WorkIsFresh /\ CacheFollows
    BY <2>1, <2>3 DEF DriftInv
  <2>5. ASSUME NEW r \in Requests, Allow(r) \/ Step(r)
        PROVE  WorkIsFresh' /\ CacheFollows'
    BY <2>1, <2>2, <2>4, <2>5, QuietDrift, DbReadDrift, FillDrift, ApplyDrift, QueueDeductDrift DEF Step
  <2>6. ASSUME NEW t \in writes, WriteCache(t)
        PROVE  WorkIsFresh' /\ CacheFollows'
    BY <2>1, <2>2, <2>4, <2>6, WriteDrift
  <2>7. CASE Recharge
    BY <2>1, <2>4, <2>7, RechargeDrift
  <2>8. CASE \/ \E k \in Keys : Archive(k)
             \/ InvalidateUserBalance \/ CacheLapses \/ ResetTimeout \/ Stop \/ UNCHANGED vars
    <3>1. /\ UNCHANGED <<req, balance, writes>>
          /\ cache' = None \/ UNCHANGED <<cache, recharge>>
      BY <2>2, <2>8 DEF Archive, InvalidateUserBalance, CacheLapses, ResetTimeout, Stop,
                        vars, database, others, process
    <3>2. Undisturbed
      BY <3>1 DEF Undisturbed
    <3>3. QED
      BY <2>1, <2>4, <3>1, <3>2, DriftFrame
  <2>9. ~Crash
    BY <2>2 DEF Crash
  <2>10. CASE ChargeElsewhere
    BY <2>1, <2>4, <2>10, ElsewhereDrift
  <2>11. QED
    BY <2>1, <2>5, <2>6, <2>7, <2>8, <2>9, <2>10 DEF Next
<1>3. TypeOK /\ DriftInv => DriftIsExplained
  <2>1. SUFFICES ASSUME TypeOK, DriftInv, cache # None, ~Deducting, recharge # "invalidate",
                        ~raced, ~(faults > 0)
                 PROVE  cache.value = balance
    BY DEF DriftIsExplained
  <2>2. faults = 0
    BY <2>1, BillingAssumption DEF TypeOK
  <2>3. Cardinality(Pending) = 0 /\ balance \in Int
    BY <2>1, NothingPending DEF TypeOK
  <2>4. cache.value = balance + Cardinality(Pending)
    BY <2>1, <2>2 DEF DriftInv, CacheFollows
  <2>5. QED
    BY <2>3, <2>4
<1>4. QED
  BY <1>1, <1>2, <1>3, BillingTypeCorrect, PTL DEF Spec

-----------------------------------------------------------------------------
(* Refinement of UsageLedger                                               *)

(* Nothing of the ledger is to be seen of what request q does: it stands   *)
(* still, goes on without an outcome, or ends without an answer.           *)
Silent(q) ==
    \/ req'[q] = req[q]
    \/ /\ req[q].pc # "done" /\ req'[q].pc # "deduct"
       /\ req'[q].pc = "done" \/ req'[q].outcome = req[q].outcome
       /\ req'[q].outcome \notin {"recorded", "duplicate", "conflict"}

(* A request that moves on unanswered is silent, and so are the others.    *)
LEMMA SilentMove ==
  ASSUME LedgerInv, NEW r \in Requests, NEW l, NEW o, Moves(r, l, o),
         req[r].pc # "done", l # "deduct",
         \/ o = req[r].outcome
         \/ l = "done" /\ o \notin {"recorded", "duplicate", "conflict"}
  PROVE  req' \in [Requests -> States] /\ \A q \in Requests : Silent(q)
BY DEF LedgerInv, Moves, Silent

(* The answers stay when all requests are silent.                          *)
LEMMA SilentAnswers ==
  ASSUME LedgerInv, NEW q \in Requests, Silent(q)
  PROVE  Answered(q)' = Answered(q)
<1>1. CASE req'[q] = req[q]
  BY <1>1 DEF Answered
<1>2. CASE req'[q] # req[q]
  <2>1. req[q].outcome = "none" /\ req'[q].outcome \notin {"recorded", "duplicate", "conflict"}
    BY <1>2 DEF Silent, LedgerInv
  <2>2. QED
    BY <2>1 DEF Answered
<1>3. QED
  BY <1>1, <1>2

(* Steps that leave balance and keys alone and answer nobody are stutters  *)
(* of the ledger.                                                          *)
LEMMA SilentStutters ==
  ASSUME LedgerInv, UNCHANGED <<setting, elsewhere, balance, live, archive>>,
         \A q \in Requests : Silent(q)
  PROVE  LedgerInv' /\ UNCHANGED Usage!ledger
<1>1. \A q \in Requests : Answered(q)' = Answered(q) /\ Key(q)' = Key(q) /\ Fingerprint(q)' = Fingerprint(q)
  BY SilentAnswers DEF Key, Fingerprint
<1>2. \A k : Billed(k)' = Billed(k)
  BY DEF Billed
<1>3. LedgerInv'
  BY <1>1, <1>2 DEF LedgerInv, Silent, At
<1>4. QED
  BY <1>1, <1>2, <1>3 DEF Usage!ledger

(* The eligibility check and the pool are not seen.                        *)
LEMMA CheckIsSilent ==
  ASSUME TypeOK, LedgerInv, NEW r \in Requests,
         \/ Allow(r) \/ ReadCache(r) \/ Load(r) \/ DbRead(r) \/ Fill(r) \/ Report(r) \/ ReportError(r)
         \/ Serve(r) \/ Submit(r) \/ StartTask(r) \/ Claim(r)
  PROVE  LedgerInv' /\ UNCHANGED Usage!ledger
<1>0. req \in [Requests -> States] /\ balance \in Int /\ req[r].value \in Int /\ (cache # None => cache.value \in Int)
  BY DEF TypeOK, States, Entries
<1>1. UNCHANGED <<setting, elsewhere, balance, live, archive>>
  BY DEF Allow, ReadCache, Load, DbRead, Fill, Report, ReportError, Serve, Submit, StartTask, Claim,
         database, others
<1>2. req[r].pc # "done"
  BY DEF Allow, ReadCache, Load, DbRead, Fill, Report, ReportError, Serve, Submit, StartTask, Claim, At
<1>3. /\ {"cache", "load", "join", "dbRead", "fill", "report", "error", "serve", "submit", "pooled",
          "claim", "existing", "claimed"} \subseteq Labels
      /\ {"rejected", "unavailable", "unbilled", "dropped", "failed"} \subseteq Outcomes
  BY DEF Labels, Outcomes
<1>4. ASSUME NEW l \in Labels \ {"deduct"}, Goto(r, l) \/ \E v \in Int : req' = [req EXCEPT ![r].pc = l, ![r].value = v]
      PROVE  \A q \in Requests : Silent(q)
  BY <1>0, <1>2, <1>4, GotoMoves, ValueMoves, SilentMove
<1>5. ASSUME NEW o \in Outcomes \ {"recorded", "duplicate", "conflict"}, Done(r, o)
      PROVE  \A q \in Requests : Silent(q)
  BY <1>0, <1>2, <1>5, DoneMoves, SilentMove
<1>6. \A q \in Requests : Silent(q)
  <2>1. CASE Allow(r)
    BY <1>3, <1>4, <1>5, <2>1 DEF Allow
  <2>2. CASE ReadCache(r)
    BY <1>0, <1>3, <1>4, <2>2 DEF ReadCache
  <2>3. CASE Load(r)
    BY <1>3, <1>4, <2>3 DEF Load
  <2>4. CASE DbRead(r) \/ Fill(r)
    <3>1. ASSUME NEW l \in {"error", "report"}, NEW J \in SUBSET Requests, NEW v \in Int,
                 \A q \in J : req[q].pc # "done",
                 \/ req' = [q \in Requests |-> IF q \in J THEN [req[q] EXCEPT !.pc = l] ELSE req[q]]
                 \/ req' = [q \in Requests |-> IF q \in J THEN [req[q] EXCEPT !.pc = l, !.value = v] ELSE req[q]]
          PROVE  \A q \in Requests : Silent(q)
      <4>1. \A q \in J : /\ req'[q].pc = l /\ req'[q].outcome = req[q].outcome
                          /\ req[q].outcome = "none"
        <5>1. l \in Labels
          BY <1>3
        <5>2. \A q \in J : req'[q].pc = l /\ req'[q].outcome = req[q].outcome
          <6>1. CASE req' = [q \in Requests |-> IF q \in J THEN [req[q] EXCEPT !.pc = l] ELSE req[q]]
            BY <1>0, <5>1, <6>1, WakeMoves
          <6>2. CASE req' = [q \in Requests |-> IF q \in J THEN [req[q] EXCEPT !.pc = l, !.value = v] ELSE req[q]]
            BY <1>0, <6>2 DEF States
          <6>3. QED
            BY <3>1, <6>1, <6>2
        <5>3. QED
          BY <3>1, <5>2 DEF LedgerInv
      <4>2. \A q \in Requests \ J : req'[q] = req[q]
        BY <3>1
      <4>3. QED
        BY <3>1, <4>1, <4>2 DEF Silent
    <3>2. Joined \cup {r} \in SUBSET Requests /\ \A q \in Joined \cup {r} : req[q].pc # "done"
      BY <1>2 DEF Joined, At
    <3>3. CASE DbRead(r)
      BY <1>0, <1>3, <1>4, <3>1, <3>2, <3>3 DEF DbRead
    <3>4. CASE Fill(r)
      BY <1>0, <3>1, <3>2, <3>4 DEF Fill
    <3>5. QED
      BY <2>4, <3>3, <3>4
  <2>5. CASE Report(r) \/ ReportError(r)
    BY <1>3, <1>4, <1>5, <2>5 DEF Report, ReportError
  <2>6. CASE Serve(r) \/ StartTask(r)
    BY <1>3, <1>4, <1>5, <2>6 DEF Serve, StartTask
  <2>7. CASE Submit(r)
    <3>1. ASSUME req' = [req EXCEPT ![r].pc = "pooled", ![r].inPool = TRUE]
          PROVE  \A q \in Requests : Silent(q)
      BY <1>0, <1>2, <3>1, PoolMoves, SilentMove
    <3>2. QED
      BY <1>3, <1>4, <1>5, <2>7, <3>1 DEF Submit
  <2>8. CASE Claim(r)
    BY <1>3, <1>4, <1>5, <2>8 DEF Claim
  <2>9. QED
    BY <2>1, <2>2, <2>3, <2>4, <2>5, <2>6, <2>7, <2>8
<1>7. QED
  BY <1>1, <1>6, SilentStutters

(* An answer of the transaction is an answer of the ledger.                *)
LEMMA AnswerStep ==
  ASSUME TypeOK, LedgerInv, NEW r \in Requests, req[r].pc # "done",
         NEW o \in {"recorded", "duplicate", "conflict"}, Done(r, o),
         UNCHANGED <<setting, elsewhere, balance, live, archive>>,
         Billed(Key(r)) # None, Billed(Key(r)) = Fingerprint(r) <=> o # "conflict"
  PROVE  LedgerInv' /\ Usage!Answer(r)
<1>1. req \in [Requests -> States] /\ o \in Outcomes
  BY DEF TypeOK, Outcomes
<1>2. Moves(r, "done", o)
  BY <1>1, DoneMoves
<1>3. \A q \in Requests : Key(q) \in Keys /\ Key(q)' = Key(q) /\ Fingerprint(q)' = Fingerprint(q)
  BY KeyType DEF Key, Fingerprint
<1>4. \A k : Billed(k)' = Billed(k)
  BY DEF Billed
<1>5. LedgerInv'
  BY <1>2, <1>3, <1>4 DEF LedgerInv, Moves, At
<1>6. /\ Answered(r) = "none"
      /\ Answered(r)' = IF Billed(Key(r)) = Fingerprint(r) THEN "charged" ELSE "conflict"
      /\ \A q \in Requests \ {r} : Answered(q)' = Answered(q)
  <2>1. req[r].outcome = "none" /\ req'[r].outcome = o
    BY <1>2 DEF LedgerInv, Moves
  <2>2. Answered(r) = "none"
    BY <2>1 DEF Answered
  <2>3. Answered(r)' = IF o = "conflict" THEN "conflict" ELSE "charged"
    BY <2>1 DEF Answered
  <2>4. \A q \in Requests \ {r} : Answered(q)' = Answered(q)
    BY <1>2 DEF Moves, Answered
  <2>5. QED
    BY <2>2, <2>3, <2>4
<1>7. Usage!Answer(r)
  BY <1>3, <1>4, <1>6 DEF Usage!Answer
<1>8. QED
  BY <1>5, <1>7

(* A charge of the transaction, answered or not, is a charge of the ledger:*)
(* the key was in neither table.                                           *)
LEMMA ChargeStep ==
  ASSUME IndInv, LedgerInv, NEW r \in Requests, At(r, "claimed"), archive[Key(r)] = None, Charge(r),
         UNCHANGED <<setting, elsewhere>>, Goto(r, "deduct") \/ Done(r, "failed")
  PROVE  LedgerInv' /\ Usage!Charge(r)
<1>1. /\ req \in [Requests -> States] /\ live \in [Keys -> Prints \cup {None}]
      /\ Key(r) \in Keys /\ Fingerprint(r) # None /\ live[Key(r)] = None
  BY KeyType DEF IndInv, TypeOK, KeysTellCharges
<1>2. Moves(r, "deduct", req[r].outcome) \/ Moves(r, "done", "failed")
  BY <1>1, GotoMoves, DoneMoves DEF Labels, Outcomes
<1>3. \A q \in Requests : Key(q) \in Keys /\ Key(q)' = Key(q) /\ Fingerprint(q)' = Fingerprint(q)
  BY KeyType DEF IndInv, Key, Fingerprint
<1>4. /\ live' = [live EXCEPT ![Key(r)] = Fingerprint(r)] /\ archive' = archive
      /\ balance' = balance - 1
  BY DEF Charge
<1>5. /\ Billed(Key(r)) = None /\ Billed(Key(r))' = Fingerprint(r)
      /\ \A k \in Keys \ {Key(r)} : Billed(k)' = Billed(k)
  BY <1>1, <1>3, <1>4 DEF Billed
<1>6. \A q \in Requests : Answered(q)' = Answered(q)
  <2>1. req[r].outcome = "none" /\ req'[r].outcome \in {"none", "failed"}
    BY <1>2 DEF LedgerInv, Moves, At
  <2>2. Answered(r)' = Answered(r)
    BY <2>1 DEF Answered
  <2>3. QED
    BY <1>2, <2>2 DEF Moves, Answered
<1>7. LedgerInv'
  <2>1. \A k \in Keys : (live[k] = None \/ archive[k] = None)'
    BY <1>1, <1>4 DEF LedgerInv
  <2>2. \A q \in Requests : (req[q].pc # "done" => req[q].outcome = "none")'
    BY <1>2 DEF LedgerInv, Moves, At
  <2>3. \A q \in Requests : (At(q, "deduct") => Billed(Key(q)) = Fingerprint(q))'
    <3>1. SUFFICES ASSUME NEW q \in Requests, q # r, req[q].pc = "deduct"
                   PROVE  Billed(Key(q))' = Fingerprint(q)
      BY <1>2, <1>3, <1>5 DEF Moves, At
    <3>2. Billed(Key(q)) = Fingerprint(q) /\ Fingerprint(q) # None
      BY <3>1, KeyType DEF LedgerInv, At, IndInv
    <3>3. Key(q) # Key(r)
      BY <1>5, <3>2
    <3>4. QED
      BY <1>3, <1>5, <3>2, <3>3
  <2>4. QED
    BY <2>1, <2>2, <2>3 DEF LedgerInv
<1>8. Usage!Charge(r)
  BY <1>1, <1>3, <1>4, <1>5, <1>6 DEF Usage!Charge
<1>9. QED
  BY <1>7, <1>8

(* The transaction and what follows it.                                    *)
LEMMA ApplyLedger ==
  ASSUME IndInv, LedgerInv, NEW r \in Requests, ReadExisting(r) \/ Apply(r) \/ QueueDeduct(r)
  PROVE  LedgerInv' /\ [Usage!Next]_(Usage!ledger)
<1>0. /\ TypeOK /\ req \in [Requests -> States]
      /\ Key(r) \in Keys /\ Fingerprint(r) # None
      /\ live[Key(r)] = None \/ archive[Key(r)] = None
  BY KeyType DEF IndInv, TypeOK, LedgerInv
<1>1. req[r].pc # "done" /\ UNCHANGED <<setting, elsewhere>>
  BY DEF ReadExisting, Apply, QueueDeduct, At, others
<1>2. ASSUME Done(r, "failed"), UNCHANGED database
      PROVE  LedgerInv' /\ UNCHANGED Usage!ledger
  <2>1. Moves(r, "done", "failed")
    BY <1>0, <1>2, DoneMoves DEF Outcomes
  <2>2. UNCHANGED <<setting, elsewhere, balance, live, archive>>
    BY <1>1, <1>2 DEF database
  <2>3. QED
    BY <1>1, <2>1, <2>2, SilentMove, SilentStutters
<1>3. ASSUME NEW print, print # None, print = Billed(Key(r)), Found(r, print), UNCHANGED database
      PROVE  LedgerInv' /\ Usage!Answer(r)
  <2> DEFINE o == IF print = Fingerprint(r) THEN "duplicate" ELSE "conflict"
  <2>1. Done(r, o) /\ o \in {"recorded", "duplicate", "conflict"}
    BY <1>3 DEF Found
  <2>2. Billed(Key(r)) # None /\ (Billed(Key(r)) = Fingerprint(r) <=> o # "conflict")
    BY <1>3
  <2>3. UNCHANGED <<setting, elsewhere, balance, live, archive>>
    BY <1>1, <1>3 DEF database
  <2> HIDE DEF o
  <2>4. QED
    BY <1>0, <1>1, <2>1, <2>2, <2>3, AnswerStep
<1>4. CASE ReadExisting(r)
  <2>1. live[Key(r)] # None => live[Key(r)] = Billed(Key(r))
    BY <1>0 DEF Billed
  <2>2. QED
    BY <1>2, <1>3, <1>4, <2>1 DEF ReadExisting, Usage!Next
<1>5. CASE Apply(r)
  <2>1. archive[Key(r)] # None => archive[Key(r)] = Billed(Key(r))
    BY DEF Billed
  <2>2. CASE Archived(r) = None /\ Charge(r) /\ (Goto(r, "deduct") \/ Done(r, "failed"))
    BY <1>1, <1>5, <2>2, ChargeStep DEF Apply, Archived, Usage!Next
  <2>3. CASE Archived(r) # None /\ Found(r, Archived(r)) /\ UNCHANGED <<database, raced>>
    BY <1>3, <2>1, <2>3 DEF Archived, Usage!Next
  <2>4. CASE Done(r, "failed") /\ UNCHANGED <<database, raced>>
    BY <1>2, <2>4
  <2>5. QED
    BY <1>5, <2>2, <2>3, <2>4 DEF Apply
<1>6. CASE QueueDeduct(r)
  <2>1. Billed(Key(r)) = Fingerprint(r) /\ Done(r, "recorded") /\ UNCHANGED <<setting, elsewhere, balance, live, archive>>
    BY <1>1, <1>6 DEF QueueDeduct, LedgerInv, database
  <2>2. QED
    BY <1>0, <1>1, <2>1, AnswerStep DEF Usage!Next
<1>7. QED
  BY <1>4, <1>5, <1>6

(* The archive moves a key from one table to the other, and the ledger     *)
(* does not notice.                                                        *)
LEMMA ArchiveLedger ==
  ASSUME TypeOK, LedgerInv, NEW j \in Keys, Archive(j)
  PROVE  LedgerInv' /\ UNCHANGED Usage!ledger
<1>1. /\ live \in [Keys -> Prints \cup {None}] /\ archive \in [Keys -> Prints \cup {None}]
      /\ live[j] # None /\ archive[j] = None
      /\ live' = [live EXCEPT ![j] = None] /\ archive' = [archive EXCEPT ![j] = live[j]]
      /\ UNCHANGED <<setting, elsewhere, balance, req>>
  BY DEF TypeOK, LedgerInv, Archive, others
<1>2. \A k \in Keys : Billed(k)' = Billed(k) /\ (live[k] = None \/ archive[k] = None)'
  BY <1>1 DEF Billed, LedgerInv
<1>3. \A q \in Requests : /\ Key(q) \in Keys /\ Key(q)' = Key(q) /\ Fingerprint(q)' = Fingerprint(q)
                           /\ Answered(q)' = Answered(q)
  BY <1>1, KeyType DEF Key, Fingerprint, Answered
<1>4. LedgerInv'
  BY <1>1, <1>2, <1>3 DEF LedgerInv, At
<1>5. QED
  BY <1>1, <1>2, <1>3, <1>4 DEF Usage!ledger

(* A recharge is a credit and a charge of another process is one; the      *)
(* cache, the breaker, the pool's end and a crash are not seen.            *)
LEMMA BesideLedger ==
  ASSUME TypeOK, LedgerInv,
         \/ \E t \in writes : WriteCache(t)
         \/ Recharge \/ InvalidateUserBalance \/ ChargeElsewhere \/ CacheLapses \/ ResetTimeout \/ Stop \/ Crash
         \/ UNCHANGED vars
  PROVE  LedgerInv' /\ [Usage!Next]_(Usage!ledger)
<1>1. CASE Recharge
  <2>1. UNCHANGED <<setting, elsewhere, live, archive, req>> /\ balance' = balance + 1
    BY <1>1 DEF Recharge
  <2>2. \A q : Key(q)' = Key(q) /\ Fingerprint(q)' = Fingerprint(q) /\ Answered(q)' = Answered(q)
    BY <2>1 DEF Key, Fingerprint, Answered
  <2>3. \A k : Billed(k)' = Billed(k)
    BY <2>1 DEF Billed
  <2>4. LedgerInv'
    BY <2>1, <2>2, <2>3 DEF LedgerInv, At
  <2>5. Usage!Credit
    BY <2>1, <2>2, <2>3 DEF Usage!Credit
  <2>6. QED
    BY <2>4, <2>5 DEF Usage!Next
<1>2. CASE Crash
  <2>1. UNCHANGED <<setting, elsewhere, balance, live, archive>>
    BY <1>2 DEF Crash, database
  <2>2. \A q \in Requests : Silent(q)
    BY <1>2 DEF Crash, Silent
  <2>3. QED
    BY <2>1, <2>2, SilentStutters
<1>3. CASE ~Recharge /\ ~Crash /\ ~ChargeElsewhere
  <2>1. UNCHANGED <<setting, elsewhere, balance, live, archive, req>>
    BY <1>3 DEF WriteCache, InvalidateUserBalance, CacheLapses, ResetTimeout, Stop, vars, database, others
  <2>2. \A q \in Requests : Silent(q)
    BY <2>1 DEF Silent
  <2>3. QED
    BY <2>1, <2>2, SilentStutters
<1>4. CASE ChargeElsewhere
  <2>1. /\ UNCHANGED <<setting, live, archive, req>>
        /\ balance' = balance - 1 /\ elsewhere' = elsewhere + 1
    BY <1>4 DEF ChargeElsewhere
  <2>2. \A q : Key(q)' = Key(q) /\ Fingerprint(q)' = Fingerprint(q) /\ Answered(q)' = Answered(q)
    BY <2>1 DEF Key, Fingerprint, Answered
  <2>3. \A k : Billed(k)' = Billed(k)
    BY <2>1 DEF Billed
  <2>4. LedgerInv'
    BY <2>1, <2>2, <2>3 DEF LedgerInv, At
  <2>5. Usage!ChargeElsewhere
    BY <2>1, <2>2, <2>3 DEF Usage!ChargeElsewhere
  <2>6. QED
    BY <2>4, <2>5 DEF Usage!Next
<1>5. QED
  BY <1>1, <1>2, <1>3, <1>4

(* Billing implements the ledger: a key is charged once and for good, the  *)
(* balance moves by charges and credits only, and what Apply reports is    *)
(* true, for every set of requests and any number of failures and crashes. *)
THEOREM UsageRefinement == Spec => ImplementsUsageLedger
<1>1. Init => LedgerInv /\ Usage!Init
  <2>1. SUFFICES ASSUME Init
                 PROVE  LedgerInv /\ Usage!Init
    OBVIOUS
  <2>2. balance \in Int /\ elsewhere = 0
    BY <2>1, BillingAssumption DEF Init
  <2>3. \A k \in Keys : Billed(k) = None
    BY <2>1 DEF Init, Billed
  <2>4. \A r \in Requests : req[r].pc = "idle" /\ req[r].outcome = "none"
    BY <2>1 DEF Init
  <2>5. \A r \in Requests : Answered(r) = "none"
    BY <2>4 DEF Answered
  <2>6. LedgerInv
    BY <2>1, <2>4 DEF LedgerInv, Init, At
  <2>7. QED
    BY <2>2, <2>3, <2>5, <2>6 DEF Usage!Init
<1>2. IndInv /\ LedgerInv /\ [Next]_vars => LedgerInv' /\ [Usage!Next]_(Usage!ledger)
  <2>1. SUFFICES ASSUME IndInv, TypeOK, LedgerInv, [Next]_vars
                 PROVE  LedgerInv' /\ [Usage!Next]_(Usage!ledger)
    BY DEF IndInv
  <2>2. ASSUME NEW r \in Requests, Allow(r) \/ Step(r)
        PROVE  LedgerInv' /\ [Usage!Next]_(Usage!ledger)
    BY <2>1, <2>2, CheckIsSilent, ApplyLedger DEF Step
  <2>3. ASSUME NEW k \in Keys, Archive(k)
        PROVE  LedgerInv' /\ [Usage!Next]_(Usage!ledger)
    BY <2>1, <2>3, ArchiveLedger
  <2>4. QED
    BY <2>1, <2>2, <2>3, BesideLedger DEF Next
<1>3. QED
  BY <1>1, <1>2, BillingInvariance, PTL DEF Spec, ImplementsUsageLedger, Usage!Spec

=============================================================================
