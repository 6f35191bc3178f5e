-------------------------- MODULE TokenRefreshProofs -------------------------
(***************************************************************************)
(* Proofs about TokenRefresh, for any number of jobs, requests, processes, *)
(* refreshes and failures: refreshes exclude each other while no call      *)
(* fails, the newest refresh token is stored or accounted for, the job     *)
(* disables an account only when that token is lost, and an expired access *)
(* token does not stay cached.                                             *)
(***************************************************************************)
EXTENDS TokenRefresh, TLAPS

(* Has got credentials from the provider that are in no row yet.           *)
Carries(w) == worker[w].pc \in {"answer", "persist"}

(* Only requests lose their client.                                        *)
JobsStayConnected == \A w \in Jobs : worker[w].connected

(* Tokens are cached for a minute or until they expire.                    *)
CacheLivesAreShort == cache # None => cache.life \in {"minute", "untilExpiry"}

(* Unless credentials were lost, nobody has newer ones than the row, but   *)
(* for the one who carries the newest ...                                  *)
RowIsAhead ==
    dropped = {} =>
        /\ row.no <= issued
        /\ \A w \in Workers : worker[w].object.no <= row.no /\ worker[w].account.no <= row.no

(* ... and nobody else carries any.                                        *)
OneCarries ==
    dropped = {} =>
        /\ \A w \in Workers : Carries(w) => worker[w].new = issued /\ row.no # issued
        /\ \A v, w \in Workers : Carries(v) /\ Carries(w) => v = w

(* Between lock and release, with a client, or with an answer of the       *)
(* provider that is still to be stored.                                    *)
Inside(w) == Carries(w) \/ (worker[w].pc \in Critical /\ worker[w].connected)

(* Without a failure the lock is that of the worker inside.                *)
LockProtects == faults = 0 => \A w \in Workers : Inside(w) => lock = w

(* Without a failure what is sent is what the row has.                     *)
SendsWhatIsStored ==
    faults = 0 /\ dropped = {} =>
        \A w \in Workers : At(w, "send") /\ worker[w].connected => worker[w].account.no = row.no

(* The provider refuses a refresh token after a failure only; and then,    *)
(* unless refreshes overlapped, the row has another.                       *)
RefusedForAReason ==
    dropped = {} =>
        \A w \in Workers : At(w, "recover") =>
            faults # 0 /\ (overlapped \/ worker[w].account.no # row.no)

(* A job that found the account dead has seen what DisabledOnlyWhenLost    *)
(* says.                                                                   *)
DeadForAReason ==
    \A w \in Jobs : worker[w].outcome = "dead" => dropped # {} \/ overlapped \/ faults > 1

TokenInv ==
    /\ TypeOK
    /\ JobsStayConnected /\ CacheLivesAreShort /\ ExpiredIsNotKept
    /\ RowIsAhead /\ OneCarries /\ NewestIsStored
    /\ LockProtects /\ RefreshesExclude
    /\ SendsWhatIsStored /\ RefusedForAReason /\ DeadForAReason /\ DisabledOnlyWhenLost

-----------------------------------------------------------------------------
(* The worker records                                                      *)

(* A step changes the record of its worker only.                           *)
Only(w) ==
    /\ worker' \in [Workers -> Worker]
    /\ \A v \in Workers \ {w} : worker'[v] = worker[v]

(* The label, the outcome and the credentials it leaves there ...          *)
Moves(w, label, outcome, new) ==
    /\ Only(w)
    /\ worker'[w].pc = label /\ worker'[w].outcome = outcome /\ worker'[w].new = new

(* ... and the account objects and the client, which it may leave alone.   *)
Keeps(w) ==
    /\ worker'[w].connected = worker[w].connected
    /\ worker'[w].object = worker[w].object
    /\ worker'[w].account = worker[w].account
    /\ worker'[w].attempt = worker[w].attempt

Outcomes == {"none", "refreshed", "already", "lockHeld", "dead", "failed"}

(* The fields of the record of a worker.                                   *)
LEMMA RecordType ==
  ASSUME worker \in [Workers -> Worker], NEW w \in Workers
  PROVE  /\ worker[w] \in Worker
         /\ worker[w].pc \in Labels /\ worker[w].connected \in BOOLEAN
         /\ worker[w].object \in Credentials /\ worker[w].account \in Credentials
         /\ worker[w].unsched \in BOOLEAN /\ worker[w].held \in BOOLEAN
         /\ worker[w].new \in Issue /\ worker[w].used \in Issue
         /\ worker[w].outcome \in Outcomes /\ worker[w].attempt \in Nat
BY DEF Worker, Outcomes

(* Goto changes the label only.                                            *)
LEMMA GotoMoves ==
  ASSUME worker \in [Workers -> Worker], NEW w \in Workers, NEW l \in Labels, Goto(w, l)
  PROVE  Moves(w, l, worker[w].outcome, worker[w].new) /\ Keeps(w)
BY DEF Goto, Only, Moves, Keeps, Worker

(* A refresh that is decided carries no credentials.                       *)
LEMMA OutcomeMoves ==
  ASSUME worker \in [Workers -> Worker], NEW w \in Workers, NEW o \in Outcomes, Outcome(w, o)
  PROVE  Moves(w, "unlock", o, 0) /\ Keeps(w)
<1> DEFINE r == [worker[w] EXCEPT !.pc = "unlock", !.outcome = o, !.new = 0]
<1>1. "unlock" \in Labels /\ 0 \in Issue
  BY TokenRefreshAssumption DEF Labels, Critical, Issue
<1>2. r \in Worker /\ r.pc = "unlock" /\ r.outcome = o /\ r.new = 0
  BY <1>1 DEF Worker, Outcomes
<1>3. /\ r.connected = worker[w].connected /\ r.object = worker[w].object
      /\ r.account = worker[w].account /\ r.attempt = worker[w].attempt
  BY DEF Worker
<1>4. worker' = [worker EXCEPT ![w] = r]
  BY DEF Outcome
<1> HIDE DEF r
<1>5. QED
  BY <1>2, <1>3, <1>4 DEF Only, Moves, Keeps

(* A request that uses a token goes upstream.                              *)
LEMMA UseMoves ==
  ASSUME worker \in [Workers -> Worker], NEW w \in Workers, NEW i \in Issue, Use(w, i)
  PROVE  Moves(w, "upstream", worker[w].outcome, worker[w].new) /\ Keeps(w)
<1>1. "upstream" \in Labels
  BY DEF Labels
<1>2. QED
  BY <1>1 DEF Use, Only, Moves, Keeps, Worker

(* The record of a worker that has not begun.                              *)
LEMMA BlankType ==
  ASSUME NEW l \in Labels
  PROVE  /\ Blank(l) \in Worker
         /\ Blank(l).pc = l /\ Blank(l).outcome = "none" /\ Blank(l).connected /\ Blank(l).new = 0
         /\ Blank(l).object.no = 0 /\ Blank(l).account.no = 0 /\ Blank(l).attempt = 0
<1>1. 0 \in Issue
  BY TokenRefreshAssumption DEF Issue
<1>2. QED
  BY <1>1 DEF Blank, Worker, Credentials

(* Set replaces the record.                                                *)
LEMMA SetMoves ==
  ASSUME worker \in [Workers -> Worker], NEW w \in Workers, NEW r \in Worker, Set(w, r)
  PROVE  Moves(w, r.pc, r.outcome, r.new) /\ worker'[w] = r
BY DEF Set, Only, Moves

(* A worker with the lock, or without Redis, reads the account again.      *)
LEMMA AcquireMoves ==
  ASSUME worker \in [Workers -> Worker], NEW w \in Workers, NEW b \in BOOLEAN,
         worker' = [worker EXCEPT ![w].pc = "reread", ![w].held = b]
  PROVE  Moves(w, "reread", worker[w].outcome, worker[w].new) /\ Keeps(w)
<1>1. "reread" \in Labels
  BY DEF Labels, Critical
<1>2. QED
  BY <1>1 DEF Only, Moves, Keeps, Worker

(* A worker that did not get the lock.                                     *)
LEMMA LockHeldMoves ==
  ASSUME worker \in [Workers -> Worker], NEW w \in Workers,
         worker' = [worker EXCEPT ![w].pc = "outcome", ![w].outcome = "lockHeld"]
  PROVE  Moves(w, "outcome", "lockHeld", worker[w].new) /\ Keeps(w)
<1>1. "outcome" \in Labels
  BY DEF Labels, Critical
<1>2. QED
  BY <1>1 DEF Only, Moves, Keeps, Worker

(* A worker that is to refresh the account it read.                        *)
LEMMA RereadMoves ==
  ASSUME worker \in [Workers -> Worker], NEW w \in Workers, NEW c \in Credentials,
         NEW u \in BOOLEAN, NEW l \in Labels, NEW o \in Outcomes,
         Set(w, [worker[w] EXCEPT !.account = c, !.unsched = u, !.pc = l, !.outcome = o])
  PROVE  /\ Moves(w, l, o, worker[w].new)
         /\ worker'[w].connected = worker[w].connected /\ worker'[w].object = worker[w].object
         /\ worker'[w].account = c /\ worker'[w].attempt = worker[w].attempt
<1> DEFINE r == [worker[w] EXCEPT !.account = c, !.unsched = u, !.pc = l, !.outcome = o]
<1>1. r \in Worker
  BY DEF Worker, Outcomes
<1>2. /\ r.pc = l /\ r.outcome = o /\ r.new = worker[w].new
      /\ r.connected = worker[w].connected /\ r.object = worker[w].object
      /\ r.account = c /\ r.attempt = worker[w].attempt
  BY DEF Worker
<1>3. Set(w, r)
  OBVIOUS
<1> HIDE DEF r
<1>4. QED
  BY <1>1, <1>2, <1>3, SetMoves

(* A worker with an answer of the provider.                                *)
LEMMA AnswerMoves ==
  ASSUME worker \in [Workers -> Worker], NEW w \in Workers, NEW i \in Issue,
         worker' = [worker EXCEPT ![w].pc = "answer", ![w].new = i]
  PROVE  Moves(w, "answer", worker[w].outcome, i) /\ Keeps(w)
<1>1. "answer" \in Labels
  BY DEF Labels, Critical
<1>2. QED
  BY <1>1 DEF Only, Moves, Keeps, Worker

(* A worker that recovers from a refused refresh.                          *)
LEMMA RecoverMoves ==
  ASSUME worker \in [Workers -> Worker], NEW w \in Workers, NEW c \in Credentials,
         Set(w, [worker[w] EXCEPT !.account = c, !.pc = "unlock", !.outcome = "already"])
  PROVE  /\ Moves(w, "unlock", "already", worker[w].new)
         /\ worker'[w].connected = worker[w].connected /\ worker'[w].object = worker[w].object
         /\ worker'[w].account = c /\ worker'[w].attempt = worker[w].attempt
<1> DEFINE r == [worker[w] EXCEPT !.account = c, !.pc = "unlock", !.outcome = "already"]
<1>1. "unlock" \in Labels
  BY DEF Labels, Critical
<1>2. r \in Worker
  BY <1>1 DEF Worker
<1>3. /\ r.pc = "unlock" /\ r.outcome = "already" /\ r.new = worker[w].new
      /\ r.connected = worker[w].connected /\ r.object = worker[w].object
      /\ r.account = c /\ r.attempt = worker[w].attempt
  BY DEF Worker
<1>4. Set(w, r)
  OBVIOUS
<1> HIDE DEF r
<1>5. QED
  BY <1>2, <1>3, <1>4, SetMoves

(* A worker that has stored what it carried.                               *)
LEMMA PersistMoves ==
  ASSUME worker \in [Workers -> Worker], NEW w \in Workers, NEW c \in Credentials,
         Set(w, [worker[w] EXCEPT !.account = c, !.new = 0, !.pc = "unlock", !.outcome = "refreshed"])
  PROVE  /\ Moves(w, "unlock", "refreshed", 0)
         /\ worker'[w].connected = worker[w].connected /\ worker'[w].object = worker[w].object
         /\ worker'[w].account = c /\ worker'[w].attempt = worker[w].attempt
<1> DEFINE r == [worker[w] EXCEPT !.account = c, !.new = 0, !.pc = "unlock", !.outcome = "refreshed"]
<1>1. "unlock" \in Labels /\ 0 \in Issue
  BY TokenRefreshAssumption DEF Labels, Critical, Issue
<1>2. r \in Worker
  BY <1>1 DEF Worker
<1>3. /\ r.pc = "unlock" /\ r.outcome = "refreshed" /\ r.new = 0
      /\ r.connected = worker[w].connected /\ r.object = worker[w].object
      /\ r.account = c /\ r.attempt = worker[w].attempt
  BY DEF Worker
<1>4. Set(w, r)
  OBVIOUS
<1> HIDE DEF r
<1>5. QED
  BY <1>2, <1>3, <1>4, SetMoves

(* A worker that let go of the lock.                                       *)
LEMMA ReleaseMoves ==
  ASSUME worker \in [Workers -> Worker], NEW w \in Workers,
         worker' = [worker EXCEPT ![w].pc = "outcome", ![w].held = FALSE]
  PROVE  Moves(w, "outcome", worker[w].outcome, worker[w].new) /\ Keeps(w)
<1>1. "outcome" \in Labels
  BY DEF Labels
<1>2. QED
  BY <1>1 DEF Only, Moves, Keeps, Worker

(* A job takes the row as its account object, a request too.               *)
LEMMA ProcessMoves ==
  ASSUME worker \in [Workers -> Worker], NEW w \in Workers, NEW c \in Credentials, NEW u \in BOOLEAN,
         Set(w, [worker[w] EXCEPT !.pc = "lock", !.object = c, !.account = c, !.unsched = u, !.attempt = 1])
  PROVE  /\ Moves(w, "lock", worker[w].outcome, worker[w].new)
         /\ worker'[w].connected = worker[w].connected
         /\ worker'[w].object = c /\ worker'[w].account = c /\ worker'[w].attempt = 1
<1> DEFINE r == [worker[w] EXCEPT !.pc = "lock", !.object = c, !.account = c, !.unsched = u, !.attempt = 1]
<1>1. "lock" \in Labels
  BY DEF Labels, Critical
<1>2. r \in Worker
  BY <1>1 DEF Worker
<1>3. /\ r.pc = "lock" /\ r.outcome = worker[w].outcome /\ r.new = worker[w].new
      /\ r.connected = worker[w].connected /\ r.object = c /\ r.account = c /\ r.attempt = 1
  BY DEF Worker
<1>4. Set(w, r)
  OBVIOUS
<1> HIDE DEF r
<1>5. QED
  BY <1>2, <1>3, <1>4, SetMoves

(* A request with a copy of the row.                                       *)
LEMMA SelectMoves ==
  ASSUME worker \in [Workers -> Worker], NEW w \in Workers, NEW c \in Credentials,
         Set(w, [worker[w] EXCEPT !.pc = "token", !.object = c, !.account = c])
  PROVE  /\ Moves(w, "token", worker[w].outcome, worker[w].new)
         /\ worker'[w].connected = worker[w].connected
         /\ worker'[w].object = c /\ worker'[w].account = c /\ worker'[w].attempt = worker[w].attempt
<1> DEFINE r == [worker[w] EXCEPT !.pc = "token", !.object = c, !.account = c]
<1>1. "token" \in Labels
  BY DEF Labels, Critical
<1>2. r \in Worker
  BY <1>1 DEF Worker
<1>3. /\ r.pc = "token" /\ r.outcome = worker[w].outcome /\ r.new = worker[w].new
      /\ r.connected = worker[w].connected /\ r.object = c /\ r.account = c
      /\ r.attempt = worker[w].attempt
  BY DEF Worker
<1>4. Set(w, r)
  OBVIOUS
<1> HIDE DEF r
<1>5. QED
  BY <1>2, <1>3, <1>4, SetMoves

(* A job that tries again.                                                 *)
LEMMA RetryMoves ==
  ASSUME worker \in [Workers -> Worker], NEW w \in Workers,
         worker' = [worker EXCEPT ![w].pc = "lock", ![w].attempt = @ + 1, ![w].outcome = "none"]
  PROVE  /\ Moves(w, "lock", "none", worker[w].new)
         /\ worker'[w].connected = worker[w].connected /\ worker'[w].object = worker[w].object
         /\ worker'[w].account = worker[w].account /\ worker'[w].attempt = worker[w].attempt + 1
<1> DEFINE n == worker[w].attempt + 1
           r == [worker[w] EXCEPT !.pc = "lock", !.attempt = n, !.outcome = "none"]
<1>1. "lock" \in Labels /\ n \in Nat
  BY RecordType DEF Labels, Critical
<1>2. worker' = [worker EXCEPT ![w] = r]
  BY DEF Worker
<1> HIDE DEF n
<1>3. r \in Worker
  BY <1>1 DEF Worker
<1>4. /\ r.pc = "lock" /\ r.outcome = "none" /\ r.new = worker[w].new
      /\ r.connected = worker[w].connected /\ r.object = worker[w].object
      /\ r.account = worker[w].account /\ r.attempt = n
  BY DEF Worker
<1> HIDE DEF r
<1>5. QED
  BY <1>2, <1>3, <1>4 DEF Only, Moves, n

(* A request whose account is to be compared with the row.                 *)
LEMMA VersionMoves ==
  ASSUME worker \in [Workers -> Worker], NEW w \in Workers, NEW c \in Credentials,
         Set(w, [worker[w] EXCEPT !.pc = "version", !.account = c])
  PROVE  /\ Moves(w, "version", worker[w].outcome, worker[w].new)
         /\ worker'[w].connected = worker[w].connected /\ worker'[w].object = worker[w].object
         /\ worker'[w].account = c /\ worker'[w].attempt = worker[w].attempt
<1> DEFINE r == [worker[w] EXCEPT !.pc = "version", !.account = c]
<1>1. "version" \in Labels
  BY DEF Labels, Critical
<1>2. r \in Worker
  BY <1>1 DEF Worker
<1>3. /\ r.pc = "version" /\ r.outcome = worker[w].outcome /\ r.new = worker[w].new
      /\ r.connected = worker[w].connected /\ r.object = worker[w].object
      /\ r.account = c /\ r.attempt = worker[w].attempt
  BY DEF Worker
<1>4. Set(w, r)
  OBVIOUS
<1> HIDE DEF r
<1>5. QED
  BY <1>2, <1>3, <1>4, SetMoves

(* A worker that is done has a blank record.                               *)
LEMMA FinishMoves ==
  ASSUME worker \in [Workers -> Worker], NEW w \in Workers, Finish(w)
  PROVE  /\ \E l \in {"idle", "done"} : Moves(w, l, "none", 0)
         /\ worker'[w].connected
         /\ worker'[w].object.no = 0 /\ worker'[w].account.no = 0 /\ worker'[w].attempt = 0
<1>1. PICK l \in {"idle", "done"} : Set(w, Blank(l))
  BY DEF Finish
<1>2. l \in Labels
  BY DEF Labels
<1>3. QED
  BY <1>1, <1>2, BlankType, SetMoves

(* A client that left.                                                     *)
LEMMA DisconnectMoves ==
  ASSUME worker \in [Workers -> Worker], NEW w \in Workers,
         worker' = [worker EXCEPT ![w].connected = FALSE]
  PROVE  /\ Moves(w, worker[w].pc, worker[w].outcome, worker[w].new)
         /\ worker'[w].connected = FALSE /\ worker'[w].object = worker[w].object
         /\ worker'[w].account = worker[w].account /\ worker'[w].attempt = worker[w].attempt
BY DEF Only, Moves, Worker

(* A crash makes blank records, or leaves them.                            *)
LEMMA CrashMoves ==
  ASSUME worker \in [Workers -> Worker], NEW O \in SUBSET Workers,
         worker' = [w \in Workers |->
                      IF w \in O THEN Blank(IF w \in Jobs THEN "idle" ELSE "done") ELSE worker[w]]
  PROVE  /\ worker' \in [Workers -> Worker]
         /\ \A w \in Workers \ O : worker'[w] = worker[w]
         /\ \A w \in O : /\ worker'[w].pc \in {"idle", "done"} /\ worker'[w].outcome = "none"
                         /\ worker'[w].connected /\ worker'[w].new = 0
                         /\ worker'[w].object.no = 0 /\ worker'[w].account.no = 0
                         /\ worker'[w].attempt = 0
<1>1. "idle" \in Labels /\ "done" \in Labels
  BY DEF Labels
<1>2. Blank("idle") \in Worker /\ Blank("done") \in Worker
  BY <1>1, BlankType
<1>3. worker' \in [Workers -> Worker]
  BY <1>2
<1>4. QED
  BY <1>1, <1>3, BlankType

-----------------------------------------------------------------------------
(* Frames                                                                  *)

(* A call of a worker with a client costs a failure when it fails.         *)
LEMMA FaultsStep ==
  ASSUME TypeOK, NEW w \in Workers, CallFails(w) \/ Fault \/ NoFault \/ faults' = faults
  PROVE  /\ faults \in Nat /\ faults' \in {faults, faults + 1} /\ faults' \in 0 .. MaxFaults
         /\ CallFails(w) /\ worker[w].connected => faults' = faults + 1
BY TokenRefreshAssumption DEF TypeOK, CallFails, Fault, NoFault

Losses == {"failed", "cancelled", "crashed", "overwritten"}

(* A typed record of one worker and typed shared state are all of TypeOK.  *)
LEMMA TypeFrame ==
  ASSUME TypeOK, NEW w \in Workers, Only(w), worker'[w].attempt <= deployment.retries,
         UNCHANGED <<deployment, age>>, issued' \in Issue, row' \in Credentials,
         status' \in {"active", "error", "unauthorized"}, unsched' \in BOOLEAN,
         lock' \in Workers \cup {None, Orphan}, cache' \in CacheEntry \cup {None},
         dropped' \subseteq Losses, overlapped' \in BOOLEAN, faults' \in 0 .. MaxFaults
  PROVE  TypeOK'
<1>1. \A v \in Workers : worker'[v].attempt <= deployment'.retries
  BY DEF TypeOK, Only
<1>2. QED
  BY <1>1 DEF TypeOK, Only, Losses

(* What a step of w leaves may not disturb the invariant: of the workers'  *)
(* records only that of w changed, credentials that were carried still     *)
(* are, those w has are not newer than the row's, and the lock changes     *)
(* only when nobody else is inside.                                        *)
Harmless(w) ==
    /\ Only(w)
    /\ faults' \in {faults, faults + 1}
    /\ overlapped => overlapped'
    /\ faults' = 0 => /\ overlapped' => overlapped
                      /\ \A v \in Workers \ {w} : Inside(v) => lock' = lock
                      /\ Inside(w)' => lock' = w
    /\ w \in Jobs => /\ worker'[w].connected
                     /\ worker'[w].outcome = "dead" => dropped' # {} \/ overlapped' \/ faults' > 1
    /\ dropped' = {} =>
          /\ dropped = {} /\ row'.no = row.no /\ issued' = issued
          /\ worker'[w].object.no <= row.no /\ worker'[w].account.no <= row.no
          /\ Carries(w)' <=> Carries(w)
          /\ Carries(w) => worker'[w].new = worker[w].new
          /\ faults' = 0 /\ At(w, "send")' /\ worker'[w].connected => worker'[w].account.no = row.no
          /\ At(w, "recover")' => faults' # 0 /\ (overlapped' \/ worker'[w].account.no # row.no)

(* The parts of the invariant about workers.                               *)
WorkersInv ==
    /\ JobsStayConnected /\ RowIsAhead /\ OneCarries /\ NewestIsStored
    /\ LockProtects /\ RefreshesExclude
    /\ SendsWhatIsStored /\ RefusedForAReason /\ DeadForAReason

(* Such a step keeps what the invariant says of the workers.               *)
LEMMA HarmlessStep ==
  ASSUME TokenInv, NEW w \in Workers, Harmless(w)
  PROVE  WorkersInv'
<1>1. /\ faults \in Nat /\ faults' \in {faults, faults + 1}
  BY TokenRefreshAssumption DEF TokenInv, TypeOK, Harmless
<1>2. \A v \in Workers \ {w} : worker'[v] = worker[v]
  BY DEF Harmless, Only
<1>3. JobsStayConnected'
  BY <1>2 DEF TokenInv, JobsStayConnected, Harmless, Workers
<1>4. RowIsAhead'
  BY <1>2 DEF TokenInv, RowIsAhead, Harmless
<1>5. OneCarries'
  BY <1>2 DEF TokenInv, OneCarries, Carries, Harmless
<1>6. NewestIsStored'
  BY <1>2 DEF TokenInv, NewestIsStored, Carries, Harmless
<1>7. LockProtects'
  BY <1>1, <1>2 DEF TokenInv, LockProtects, Inside, Carries, Harmless
<1>8. RefreshesExclude'
  BY <1>1 DEF TokenInv, RefreshesExclude, Harmless
<1>9. SendsWhatIsStored'
  BY <1>1, <1>2 DEF TokenInv, SendsWhatIsStored, At, Harmless
<1>10. RefusedForAReason'
  BY <1>1, <1>2 DEF TokenInv, RefusedForAReason, At, Harmless
<1>11. DeadForAReason'
  <2>1. ASSUME NEW v \in Jobs, worker'[v].outcome = "dead"
        PROVE  dropped' # {} \/ overlapped' \/ faults' > 1
    <3>1. CASE v = w
      BY <2>1, <3>1 DEF Harmless
    <3>2. CASE v # w
      <4>1. v \in Workers \ {w} /\ worker[v].outcome = "dead"
        BY <1>2, <2>1, <3>2 DEF Workers
      <4>2. dropped # {} \/ overlapped \/ faults > 1
        BY <4>1 DEF TokenInv, DeadForAReason
      <4>3. QED
        BY <1>1, <4>2 DEF Harmless
    <3>3. QED
      BY <3>1, <3>2
  <2>2. QED
    BY <2>1 DEF DeadForAReason
<1>12. QED
  BY <1>3, <1>4, <1>5, <1>6, <1>7, <1>8, <1>9, <1>10, <1>11 DEF WorkersInv

(* Most steps neither fill the cache nor disable the account.              *)
LEMMA StepKeeps ==
  ASSUME TokenInv, NEW w \in Workers, TypeOK', Harmless(w),
         cache' \in {cache, None}, age' = age, status' = status
  PROVE  TokenInv'
<1>1. WorkersInv'
  BY HarmlessStep
<1>2. CacheLivesAreShort' /\ ExpiredIsNotKept'
  BY DEF TokenInv, CacheLivesAreShort, ExpiredIsNotKept
<1>3. DisabledOnlyWhenLost'
  <2>1. faults \in Nat
    BY TokenRefreshAssumption DEF TokenInv, TypeOK
  <2>2. QED
    BY <2>1 DEF TokenInv, DisabledOnlyWhenLost, Harmless
<1>4. QED
  BY <1>1, <1>2, <1>3 DEF TokenInv, WorkersInv

(* What the invariant says of one worker.                                  *)
LEMMA WorkerFacts ==
  ASSUME TokenInv, NEW w \in Workers
  PROVE  /\ worker \in [Workers -> Worker]
         /\ row.no \in Nat /\ issued \in Nat /\ row \in Credentials /\ faults \in Nat
         /\ worker[w].object.no \in Nat /\ worker[w].account.no \in Nat
         /\ worker[w].attempt \in Nat /\ worker[w].attempt <= deployment.retries
         /\ deployment.retries \in Nat \ {0}
         /\ dropped = {} => worker[w].object.no <= row.no /\ worker[w].account.no <= row.no
         /\ w \in Jobs => worker[w].connected
         /\ w \in Jobs /\ worker[w].outcome = "dead" => dropped # {} \/ overlapped \/ faults > 1
         /\ faults = 0 /\ Inside(w) => lock = w
<1>1. worker \in [Workers -> Worker] /\ row \in Credentials /\ issued \in Issue
  BY DEF TokenInv, TypeOK
<1>2. worker[w].object \in Credentials /\ worker[w].account \in Credentials /\ worker[w].attempt \in Nat
  BY <1>1, RecordType
<1>3. \A c \in Credentials : c.no \in Nat
  BY TokenRefreshAssumption DEF Credentials, Issue
<1>4. issued \in Nat
  BY <1>1, TokenRefreshAssumption DEF Issue
<1>5. /\ faults \in Nat /\ deployment.retries \in Nat \ {0}
      /\ worker[w].attempt <= deployment.retries
  BY TokenRefreshAssumption DEF TokenInv, TypeOK
<1>6. dropped = {} => worker[w].object.no <= row.no /\ worker[w].account.no <= row.no
  BY DEF TokenInv, RowIsAhead
<1>7. /\ w \in Jobs => worker[w].connected
      /\ w \in Jobs /\ worker[w].outcome = "dead" => dropped # {} \/ overlapped \/ faults > 1
  BY DEF TokenInv, JobsStayConnected, DeadForAReason
<1>8. faults = 0 /\ Inside(w) => lock = w
  BY DEF TokenInv, LockProtects
<1>9. QED
  BY <1>1, <1>2, <1>3, <1>4, <1>5, <1>6, <1>7, <1>8

(* A step that sends, carries and stores nothing.                          *)
LEMMA QuietMove ==
  ASSUME TokenInv, NEW w \in Workers, Only(w),
         faults' \in {faults, faults + 1},
         UNCHANGED <<issued, row, lock, dropped, overlapped>>,
         ~Carries(w), worker'[w].pc \notin {"answer", "persist", "send", "recover"},
         worker'[w].pc \in Critical =>
            worker[w].pc \in Critical /\ worker'[w].connected = worker[w].connected,
         w \in Jobs => worker'[w].connected,
         worker'[w].outcome = "dead" => worker[w].outcome = "dead",
         worker'[w].object.no \in {worker[w].object.no, row.no, 0},
         worker'[w].account.no \in {worker[w].account.no, worker[w].object.no, row.no, 0}
  PROVE  Harmless(w)
<1>1. ~Carries(w)' /\ (Inside(w)' => Inside(w))
  BY DEF Inside, Carries
<1>2. ~At(w, "send")' /\ ~At(w, "recover")'
  BY DEF At
<1>3. dropped' = {} => worker'[w].object.no <= row.no /\ worker'[w].account.no <= row.no
  BY WorkerFacts
<1>4. faults' = 0 => faults = 0
  BY WorkerFacts
<1>5. w \in Jobs /\ worker'[w].outcome = "dead" => dropped' # {} \/ overlapped' \/ faults' > 1
  BY WorkerFacts
<1>6. faults' = 0 => (Inside(w)' => lock' = w)
  BY <1>1, <1>4, WorkerFacts
<1>7. QED
  BY <1>1, <1>2, <1>3, <1>5, <1>6 DEF Harmless

-----------------------------------------------------------------------------
(* RefreshIfNeeded                                                         *)

(* The lock is taken when it is free; a worker goes on without it only     *)
(* after a call that failed or a client that left.                         *)
LEMMA AcquireStep ==
  ASSUME TokenInv, NEW w \in Workers, AcquireRefreshLock(w)
  PROVE  TokenInv'
<1>1. /\ worker \in [Workers -> Worker] /\ worker[w].pc = "lock"
      /\ UNCHANGED <<deployment, issued, age, row, status, unsched, cache, dropped, overlapped>>
  BY WorkerFacts DEF AcquireRefreshLock, At, provider, account, history
<1>2. ~Carries(w) /\ ~Inside(w)
  BY <1>1 DEF Carries, Inside, Critical
<1>3. CASE worker[w].connected /\ LockFree /\ lock' = w /\ NoFault
           /\ worker' = [worker EXCEPT ![w].pc = "reread", ![w].held = TRUE]
  <2>1. Moves(w, "reread", worker[w].outcome, worker[w].new) /\ Keeps(w)
    BY <1>1, <1>3, AcquireMoves
  <2>2. TypeOK'
    BY <1>1, <1>3, <2>1, WorkerFacts, FaultsStep, TypeFrame DEF TokenInv, TypeOK, Moves, Keeps, Losses
  <2>3. faults = 0 => \A v \in Workers : ~Inside(v)
    BY <1>3, TokenRefreshAssumption DEF TokenInv, LockProtects, LockFree
  <2>4. ~Carries(w)' /\ ~At(w, "send")' /\ ~At(w, "recover")'
    BY <2>1 DEF Moves, Carries, At
  <2>5. Harmless(w)
    BY <1>1, <1>2, <1>3, <2>1, <2>3, <2>4, WorkerFacts DEF Harmless, Moves, Keeps, NoFault
  <2>6. QED
    BY <1>1, <2>2, <2>5, StepKeeps
<1>4. CASE worker[w].connected /\ UNCHANGED lock /\ NoFault
           /\ worker' = [worker EXCEPT ![w].pc = "outcome", ![w].outcome = "lockHeld"]
  <2>1. Moves(w, "outcome", "lockHeld", worker[w].new) /\ Keeps(w)
    BY <1>1, <1>4, LockHeldMoves
  <2>2. TypeOK'
    BY <1>1, <1>4, <2>1, WorkerFacts, FaultsStep, TypeFrame DEF TokenInv, TypeOK, Moves, Keeps, Losses
  <2>3. Harmless(w)
    BY <1>1, <1>2, <1>4, <2>1, WorkerFacts, QuietMove DEF Moves, Keeps, Critical, NoFault
  <2>4. QED
    BY <1>1, <2>2, <2>3, StepKeeps
<1>5. CASE /\ lock' \in IF worker[w].connected /\ lock = None THEN {None, Orphan} ELSE {lock}
           /\ worker' = [worker EXCEPT ![w].pc = "reread", ![w].held = FALSE]
           /\ CallFails(w)
  <2>1. Moves(w, "reread", worker[w].outcome, worker[w].new) /\ Keeps(w)
    BY <1>1, <1>5, AcquireMoves
  <2>2. faults' \in {faults, faults + 1} /\ (worker[w].connected => faults' = faults + 1)
    BY <1>5, FaultsStep DEF TokenInv
  <2>3. TypeOK'
    BY <1>1, <1>5, <2>1, WorkerFacts, FaultsStep, TypeFrame DEF TokenInv, TypeOK, Moves, Keeps, Losses
  <2>4. ~Carries(w)' /\ ~At(w, "send")' /\ ~At(w, "recover")'
    BY <2>1 DEF Moves, Carries, At
  <2>5. Inside(w)' => worker[w].connected
    BY <2>1, <2>4 DEF Inside, Keeps
  <2>6. faults' = 0 => lock' = lock /\ ~Inside(w)'
    BY <1>5, <2>2, <2>5, WorkerFacts
  <2>7. Harmless(w)
    BY <1>1, <1>2, <2>1, <2>2, <2>4, <2>6, WorkerFacts DEF Harmless, Moves, Keeps
  <2>8. QED
    BY <1>1, <2>3, <2>7, StepKeeps
<1>6. QED
  BY <1>3, <1>4, <1>5 DEF AcquireRefreshLock

(* Under the lock the row is read as it is.                                *)
LEMMA RereadStep ==
  ASSUME TokenInv, NEW w \in Workers, RereadAccount(w)
  PROVE  TokenInv'
<1>1. /\ worker \in [Workers -> Worker] /\ worker[w].pc = "reread"
      /\ UNCHANGED <<deployment, issued, age, row, status, unsched, lock, cache, dropped, overlapped>>
  BY WorkerFacts DEF RereadAccount, At, provider, account, redis, history
<1>2. PICK read \in BOOLEAN, due \in BOOLEAN :
         LET fresh == IF read THEN Reread(w) ELSE worker[w].object
         IN  /\ IF read THEN worker[w].connected /\ NoFault ELSE CallFails(w)
             /\ Set(w, [worker[w] EXCEPT
                        !.account = fresh,
                        !.unsched = IF read THEN unsched ELSE worker[w].unsched,
                        !.pc = IF due THEN "send" ELSE "unlock",
                        !.outcome = IF due THEN worker[w].outcome ELSE "already"])
  BY DEF RereadAccount, NeedsRefresh
<1> DEFINE c == IF read THEN row ELSE worker[w].object
           u == IF read THEN unsched ELSE worker[w].unsched
           l == IF due THEN "send" ELSE "unlock"
           o == IF due THEN worker[w].outcome ELSE "already"
<1>3. /\ c \in Credentials /\ u \in BOOLEAN /\ l \in Labels /\ o \in Outcomes
      /\ c.no \in {row.no, worker[w].object.no} /\ l \in {"send", "unlock"}
      /\ o \in {"already", worker[w].outcome} /\ (read => c.no = row.no)
      /\ l = "unlock" => o = "already"
  BY <1>1, RecordType DEF TokenInv, TypeOK, Labels, Critical, Outcomes
<1>4. Set(w, [worker[w] EXCEPT !.account = c, !.unsched = u, !.pc = l, !.outcome = o])
  BY <1>2 DEF Reread
<1>5. /\ faults' \in {faults, faults + 1} /\ faults' \in 0 .. MaxFaults /\ faults \in Nat
      /\ worker[w].connected /\ ~read => faults' = faults + 1
  BY <1>2, FaultsStep DEF TokenInv
<1> HIDE DEF c, u, l, o
<1>6. /\ Moves(w, l, o, worker[w].new)
      /\ worker'[w].connected = worker[w].connected /\ worker'[w].object = worker[w].object
      /\ worker'[w].account = c /\ worker'[w].attempt = worker[w].attempt
  BY <1>1, <1>3, <1>4, RereadMoves
<1>7. TypeOK'
  BY <1>1, <1>5, <1>6, WorkerFacts, TypeFrame DEF TokenInv, TypeOK, Moves, Losses
<1>8. /\ ~Carries(w) /\ ~Carries(w)' /\ ~At(w, "recover")'
      /\ Inside(w)' => Inside(w)
  BY <1>1, <1>3, <1>6 DEF Moves, Carries, Inside, Critical, At
<1>9. faults' = 0 => (Inside(w)' => lock' = w)
  BY <1>1, <1>5, <1>8, WorkerFacts
<1>10. dropped' = {} => worker'[w].object.no <= row.no /\ worker'[w].account.no <= row.no
  BY <1>1, <1>3, <1>6, WorkerFacts
<1>11. faults' = 0 /\ worker'[w].connected => worker'[w].account.no = row.no
  BY <1>3, <1>5, <1>6
<1>12. /\ w \in Jobs => worker'[w].connected
       /\ w \in Jobs /\ worker'[w].outcome = "dead" => dropped' # {} \/ overlapped' \/ faults' > 1
  BY <1>1, <1>3, <1>5, <1>6, WorkerFacts DEF Moves
<1>13. Harmless(w)
  BY <1>1, <1>5, <1>6, <1>8, <1>9, <1>10, <1>11, <1>12 DEF Harmless, Moves
<1>14. QED
  BY <1>1, <1>7, <1>13, StepKeeps

(* A worker that has answers or sends, and its overlap with others.        *)
LEMMA NobodyElseInside ==
  ASSUME TokenInv, NEW w \in Workers, Inside(w), faults = 0
  PROVE  \A v \in Workers \ {w} : ~Inside(v) /\ ~Refreshing(v) /\ ~Carries(v)
<1>1. \A v \in Workers \ {w} : ~Inside(v)
  BY DEF TokenInv, LockProtects
<1>2. QED
  BY <1>1 DEF Inside, Refreshing, Carries, At, Critical

(* Overlaps are remembered, and there is none without a failure.           *)
LEMMA ReachedKeeps ==
  ASSUME TokenInv, NEW w \in Workers, Inside(w), Reached(w)
  PROVE  /\ overlapped' \in BOOLEAN /\ (overlapped => overlapped')
         /\ faults = 0 => (overlapped' => overlapped)
         /\ \A v \in Workers \ {w} : Carries(v) => overlapped'
<1>1. overlapped \in BOOLEAN
  BY DEF TokenInv, TypeOK
<1>2. \A v \in Workers : Carries(v) => Refreshing(v)
  BY DEF Carries, Refreshing
<1>3. QED
  BY <1>1, <1>2, NobodyElseInside DEF Reached

(* The provider issues new credentials for the newest token and refuses    *)
(* the others.                                                             *)
LEMMA SendStep ==
  ASSUME TokenInv, NEW w \in Workers, Send(w)
  PROVE  TokenInv'
<1>1. /\ worker \in [Workers -> Worker] /\ worker[w].pc = "send"
      /\ UNCHANGED <<deployment, age, row, status, unsched, lock, cache, dropped>>
  BY WorkerFacts DEF Send, At, account, redis
<1>2. ~Carries(w) /\ (worker[w].connected => Inside(w))
  BY <1>1 DEF Carries, Inside, Critical
<1>3. CASE /\ worker[w].connected /\ worker[w].account.no = issued /\ issued < MaxIssued
           /\ issued' = issued + 1 /\ Reached(w) /\ NoFault
           /\ worker' = [worker EXCEPT ![w].pc = "answer", ![w].new = issued + 1]
  <2>1. issued + 1 \in Issue
    BY <1>3, WorkerFacts, TokenRefreshAssumption DEF Issue
  <2>2. Moves(w, "answer", worker[w].outcome, issued + 1) /\ Keeps(w)
    BY <1>1, <1>3, <2>1, AnswerMoves
  <2>3. /\ overlapped' \in BOOLEAN /\ (overlapped => overlapped')
        /\ faults = 0 => (overlapped' => overlapped)
    BY <1>2, <1>3, ReachedKeeps
  <2>4. TypeOK'
    BY <1>1, <1>3, <2>1, <2>2, <2>3, WorkerFacts, FaultsStep, TypeFrame DEF TokenInv, TypeOK, Moves, Keeps, Losses
  <2>5. /\ faults' = faults /\ faults \in Nat /\ \A v \in Workers \ {w} : worker'[v] = worker[v]
        /\ worker'[w].pc = "answer" /\ worker'[w].new = issued'
    BY <1>3, <2>2, WorkerFacts DEF NoFault, Moves, Only
  <2>6. dropped = {} => row.no = issued /\ \A v \in Workers : ~Carries(v)
    <3>1. dropped = {} => row.no <= issued
      BY DEF TokenInv, RowIsAhead
    <3>2. dropped = {} => issued <= row.no
      BY <1>3, WorkerFacts
    <3>3. dropped = {} => row.no = issued
      BY <3>1, <3>2, WorkerFacts
    <3>4. QED
      BY <3>3 DEF TokenInv, OneCarries
  <2>7. \A v \in Workers \ {w} : (Carries(v)' <=> Carries(v)) /\ (Inside(v)' <=> Inside(v))
    BY <2>5 DEF Carries, Inside
  <2>8. JobsStayConnected' /\ DeadForAReason'
    <3>1. \A v \in Jobs : /\ worker'[v].connected = worker[v].connected
                          /\ worker'[v].outcome = worker[v].outcome
      BY <2>2, <2>5 DEF Moves, Keeps, Workers
    <3>2. QED
      BY <1>1, <2>3, <2>5, <3>1 DEF TokenInv, JobsStayConnected, DeadForAReason
  <2>9. RowIsAhead' /\ NewestIsStored'
    BY <1>1, <1>3, <2>2, <2>5, WorkerFacts DEF TokenInv, RowIsAhead, NewestIsStored, Keeps
  <2>10. OneCarries'
    BY <1>1, <1>3, <2>5, <2>6, <2>7, WorkerFacts DEF OneCarries
  <2>11. LockProtects'
    BY <1>1, <1>2, <1>3, <2>5, <2>7 DEF TokenInv, LockProtects
  <2>12. RefreshesExclude' /\ DisabledOnlyWhenLost'
    BY <1>1, <2>3, <2>5 DEF TokenInv, RefreshesExclude, DisabledOnlyWhenLost
  <2>13. SendsWhatIsStored' /\ RefusedForAReason'
    BY <1>1, <2>3, <2>5 DEF TokenInv, SendsWhatIsStored, RefusedForAReason, At
  <2>14. CacheLivesAreShort' /\ ExpiredIsNotKept'
    BY <1>1 DEF TokenInv, CacheLivesAreShort, ExpiredIsNotKept
  <2>15. QED
    BY <2>4, <2>8, <2>9, <2>10, <2>11, <2>12, <2>13, <2>14 DEF TokenInv
<1>4. CASE /\ worker[w].connected /\ worker[w].account.no # issued
           /\ Goto(w, "recover") /\ Reached(w) /\ UNCHANGED issued /\ NoFault
  <2>1. Moves(w, "recover", worker[w].outcome, worker[w].new) /\ Keeps(w)
    BY <1>1, <1>4, GotoMoves DEF Labels, Critical
  <2>2. /\ overlapped' \in BOOLEAN /\ (overlapped => overlapped')
        /\ faults = 0 => (overlapped' => overlapped)
        /\ \A v \in Workers \ {w} : Carries(v) => overlapped'
    BY <1>2, <1>4, ReachedKeeps
  <2>3. TypeOK'
    BY <1>1, <1>4, <2>1, <2>2, WorkerFacts, FaultsStep, TypeFrame DEF TokenInv, TypeOK, Moves, Keeps, Losses
  <2>4. ~Carries(w)' /\ ~At(w, "send")' /\ (Inside(w)' => Inside(w))
    BY <1>2, <1>4, <2>1 DEF Moves, Keeps, Carries, Inside, At
  <2>5. dropped = {} /\ row.no # issued => \E v \in Workers \ {w} : Carries(v)
    BY <1>2 DEF TokenInv, NewestIsStored, Carries
  <2>6. dropped = {} => faults # 0
    <3>1. SUFFICES ASSUME dropped = {}, faults = 0
                   PROVE  FALSE
      OBVIOUS
    <3>2. worker[w].account.no = row.no
      BY <1>1, <1>4, <3>1 DEF TokenInv, SendsWhatIsStored, At
    <3>3. \E v \in Workers \ {w} : Carries(v)
      BY <1>4, <2>5, <3>1, <3>2
    <3>4. QED
      BY <1>2, <1>4, <3>1, <3>3, NobodyElseInside
  <2>7. dropped = {} => overlapped' \/ worker[w].account.no # row.no
    BY <1>4, <2>2, <2>5
  <2>8. Harmless(w)
    BY <1>1, <1>2, <1>4, <2>1, <2>2, <2>4, <2>6, <2>7, WorkerFacts DEF Harmless, Moves, Keeps, NoFault
  <2>9. QED
    BY <1>1, <2>3, <2>8, StepKeeps
<1>5. CASE Outcome(w, "failed") /\ UNCHANGED <<issued, overlapped>> /\ CallFails(w)
  <2>1. Moves(w, "unlock", "failed", 0) /\ Keeps(w)
    BY <1>1, <1>5, OutcomeMoves DEF Outcomes
  <2>2. TypeOK'
    BY <1>1, <1>5, <2>1, WorkerFacts, FaultsStep, TypeFrame DEF TokenInv, TypeOK, Moves, Keeps, Losses
  <2>3. faults' \in {faults, faults + 1}
    BY <1>5, FaultsStep DEF TokenInv
  <2>4. Harmless(w)
    BY <1>1, <1>2, <1>5, <2>1, <2>3, WorkerFacts, QuietMove DEF Moves, Keeps, Critical
  <2>5. QED
    BY <1>1, <2>2, <2>4, StepKeeps
<1>6. QED
  BY <1>3, <1>4, <1>5 DEF Send

(* The answer of the provider is carried on, or lost and recorded as such. *)
LEMMA AnswerStep ==
  ASSUME TokenInv, NEW w \in Workers, Answer(w)
  PROVE  TokenInv'
<1>1. /\ worker \in [Workers -> Worker] /\ worker[w].pc = "answer"
      /\ UNCHANGED <<deployment, issued, age, row, status, unsched, lock, cache, overlapped>>
  BY WorkerFacts DEF Answer, At, provider, account, redis
<1>2. Carries(w) /\ Inside(w)
  BY <1>1 DEF Carries, Inside
<1>3. CASE worker[w].connected /\ Goto(w, "persist") /\ UNCHANGED dropped /\ NoFault
  <2>1. Moves(w, "persist", worker[w].outcome, worker[w].new) /\ Keeps(w)
    BY <1>1, <1>3, GotoMoves DEF Labels, Critical
  <2>2. TypeOK'
    BY <1>1, <1>3, <2>1, WorkerFacts, FaultsStep, TypeFrame DEF TokenInv, TypeOK, Moves, Keeps, Losses
  <2>3. Carries(w)' /\ ~At(w, "send")' /\ ~At(w, "recover")'
    BY <2>1 DEF Moves, Carries, At
  <2>4. Harmless(w)
    BY <1>1, <1>2, <1>3, <2>1, <2>3, WorkerFacts DEF Harmless, Moves, Keeps, NoFault
  <2>5. QED
    BY <1>1, <2>2, <2>4, StepKeeps
<1>4. CASE /\ Outcome(w, "failed") /\ CallFails(w)
           /\ dropped' = dropped \cup {IF worker[w].connected THEN "failed" ELSE "cancelled"}
  <2>1. Moves(w, "unlock", "failed", 0) /\ Keeps(w)
    BY <1>1, <1>4, OutcomeMoves DEF Outcomes
  <2>2. dropped' \subseteq Losses /\ dropped' # {}
    BY <1>4 DEF TokenInv, TypeOK, Losses
  <2>3. faults' \in {faults, faults + 1} /\ faults' \in 0 .. MaxFaults
    BY <1>4, FaultsStep DEF TokenInv
  <2>4. TypeOK'
    BY <1>1, <2>1, <2>2, <2>3, WorkerFacts, TypeFrame DEF TokenInv, TypeOK, Moves, Keeps
  <2>5. Harmless(w)
    BY <1>1, <1>2, <2>1, <2>2, <2>3, WorkerFacts DEF Harmless, Moves, Keeps
  <2>6. QED
    BY <1>1, <2>4, <2>5, StepKeeps
<1>5. QED
  BY <1>3, <1>4 DEF Answer

(* After a refusal the row is read again: another token there means that   *)
(* somebody else refreshed.                                                *)
LEMMA RecoverStep ==
  ASSUME TokenInv, NEW w \in Workers, TryRecover(w)
  PROVE  TokenInv'
<1>1. /\ worker \in [Workers -> Worker] /\ worker[w].pc = "recover"
      /\ UNCHANGED <<deployment, issued, age, row, status, unsched, lock, cache, dropped, overlapped>>
  BY WorkerFacts DEF TryRecover, At, provider, account, redis, history
<1>2. ~Carries(w)
  BY <1>1 DEF Carries
<1>3. CASE /\ worker[w].connected /\ NoFault
           /\ Set(w, [worker[w] EXCEPT !.account = row, !.pc = "unlock", !.outcome = "already"])
  <2>1. /\ Moves(w, "unlock", "already", worker[w].new)
        /\ worker'[w].connected = worker[w].connected /\ worker'[w].object = worker[w].object
        /\ worker'[w].account = row /\ worker'[w].attempt = worker[w].attempt
    BY <1>1, <1>3, WorkerFacts, RecoverMoves
  <2>2. TypeOK'
    BY <1>1, <1>3, <2>1, WorkerFacts, FaultsStep, TypeFrame DEF TokenInv, TypeOK, Moves, Losses
  <2>3. Harmless(w)
    BY <1>1, <1>2, <1>3, <2>1, WorkerFacts, QuietMove DEF Moves, Critical, NoFault
  <2>4. QED
    BY <1>1, <2>2, <2>3, StepKeeps
<1>4. CASE /\ Outcome(w, "dead")
           /\ (worker[w].connected /\ ~Recovered(w) /\ NoFault) \/ CallFails(w)
  <2>1. Moves(w, "unlock", "dead", 0) /\ Keeps(w)
    BY <1>1, <1>4, OutcomeMoves DEF Outcomes
  <2>2. /\ faults' \in {faults, faults + 1} /\ faults' \in 0 .. MaxFaults
        /\ faults' = faults + 1 \/ ~worker[w].connected \/ ~Recovered(w)
    BY <1>4, FaultsStep DEF TokenInv
  <2>3. TypeOK'
    BY <1>1, <2>1, <2>2, WorkerFacts, TypeFrame DEF TokenInv, TypeOK, Moves, Keeps, Losses
  <2>4. ~Carries(w)' /\ ~At(w, "send")' /\ ~At(w, "recover")' /\ (Inside(w)' => Inside(w))
    BY <1>1, <2>1 DEF Moves, Keeps, Carries, Inside, At, Critical
  <2>5. w \in Jobs => dropped # {} \/ overlapped \/ faults' > 1
    <3>1. dropped = {} => faults # 0 /\ (overlapped \/ worker[w].account.no # row.no)
      BY <1>1 DEF TokenInv, RefusedForAReason, At
    <3>2. QED
      BY <2>2, <3>1, WorkerFacts DEF Recovered
  <2>6. faults' = 0 => (Inside(w)' => lock' = w)
    BY <1>1, <2>2, <2>4, WorkerFacts
  <2>7. Harmless(w)
    BY <1>1, <1>2, <2>1, <2>2, <2>4, <2>5, <2>6, WorkerFacts DEF Harmless, Moves, Keeps
  <2>8. QED
    BY <1>1, <2>3, <2>7, StepKeeps
<1>5. QED
  BY <1>3, <1>4 DEF TryRecover

(* What is carried is stored, or lost and recorded as such; the row never  *)
(* goes back.                                                              *)
LEMMA PersistStep ==
  ASSUME TokenInv, NEW w \in Workers, Persist(w)
  PROVE  TokenInv'
<1>1. /\ worker \in [Workers -> Worker] /\ worker[w].pc = "persist"
      /\ UNCHANGED <<deployment, issued, age, status, unsched, lock, cache, overlapped>>
  BY WorkerFacts DEF Persist, At, provider, redis
<1>2. Carries(w) /\ Inside(w)
  BY <1>1 DEF Carries, Inside
<1>3. Merged(w) \in Credentials /\ Merged(w).no = worker[w].new
  BY <1>1, RecordType DEF Merged, Credentials
<1>4. faults' \in {faults, faults + 1} /\ faults' \in 0 .. MaxFaults /\ faults \in Nat
  BY FaultsStep DEF TokenInv, Persist
<1>5. CASE /\ row' = Merged(w) /\ UNCHANGED dropped
           /\ \/ Set(w, [worker[w] EXCEPT !.account = Merged(w), !.new = 0,
                                         !.pc = "unlock", !.outcome = "refreshed"])
              \/ Outcome(w, "failed")
  <2>1. /\ Only(w) /\ worker'[w].pc = "unlock" /\ worker'[w].outcome # "dead"
        /\ worker'[w].connected = worker[w].connected /\ worker'[w].object = worker[w].object
        /\ worker'[w].attempt = worker[w].attempt
        /\ worker'[w].account.no \in {worker[w].account.no, worker[w].new}
    <3>1. CASE Outcome(w, "failed")
      BY <1>1, <3>1, OutcomeMoves DEF Outcomes, Moves, Keeps
    <3>2. CASE Set(w, [worker[w] EXCEPT !.account = Merged(w), !.new = 0,
                                        !.pc = "unlock", !.outcome = "refreshed"])
      BY <1>1, <1>3, <3>2, PersistMoves DEF Moves
    <3>3. QED
      BY <1>5, <3>1, <3>2
  <2>2. TypeOK'
    BY <1>1, <1>3, <1>4, <1>5, <2>1, WorkerFacts, TypeFrame DEF TokenInv, TypeOK, Losses
  <2>3. \A v \in Workers \ {w} : worker'[v] = worker[v]
    BY <2>1 DEF Only
  <2>4. ~Carries(w)' /\ ~At(w, "send")' /\ ~At(w, "recover")'
    BY <2>1 DEF Carries, At
  <2>5. \A v \in Workers \ {w} : (Carries(v)' <=> Carries(v)) /\ (Inside(v)' <=> Inside(v))
    BY <2>3 DEF Carries, Inside
  <2>6. dropped = {} => /\ row'.no = issued /\ row.no < issued /\ worker[w].new = issued
                        /\ \A v \in Workers \ {w} : ~Carries(v)
    BY <1>2, <1>3, <1>5, WorkerFacts DEF TokenInv, RowIsAhead, OneCarries
  <2>7. \A v \in Workers : worker[v].object.no \in Nat /\ worker[v].account.no \in Nat
    BY WorkerFacts
  <2>8. JobsStayConnected' /\ DeadForAReason'
    BY <1>1, <1>4, <1>5, <2>1, <2>3 DEF TokenInv, JobsStayConnected, DeadForAReason, Workers
  <2>9. RowIsAhead'
    BY <1>1, <1>5, <2>1, <2>3, <2>6, <2>7, WorkerFacts DEF TokenInv, RowIsAhead
  <2>10. NewestIsStored' /\ OneCarries'
    BY <1>1, <1>5, <2>4, <2>5, <2>6 DEF NewestIsStored, OneCarries
  <2>11. LockProtects'
    <3>1. faults = 0 => \A v \in Workers \ {w} : ~Inside(v)
      BY <1>2, NobodyElseInside
    <3>2. Inside(w) => lock = w \/ faults # 0
      BY WorkerFacts
    <3>3. QED
      BY <1>1, <1>2, <1>4, <2>5, <3>1, <3>2 DEF LockProtects
  <2>12. RefreshesExclude' /\ DisabledOnlyWhenLost'
    BY <1>1, <1>4, <1>5 DEF TokenInv, RefreshesExclude, DisabledOnlyWhenLost
  <2>13. SendsWhatIsStored'
    <3>1. faults = 0 => \A v \in Workers \ {w} : ~Inside(v)
      BY <1>2, NobodyElseInside
    <3>2. \A v \in Workers : At(v, "send")' /\ worker'[v].connected => Inside(v)'
      BY DEF At, Inside, Critical
    <3>3. QED
      BY <1>4, <2>4, <2>5, <3>1, <3>2 DEF SendsWhatIsStored
  <2>14. RefusedForAReason'
    <3>1. ASSUME dropped' = {}, NEW v \in Workers, At(v, "recover")'
          PROVE  faults' # 0 /\ worker'[v].account.no # row'.no
      <4>1. v # w /\ worker'[v] = worker[v] /\ At(v, "recover")
        BY <2>3, <2>4, <3>1 DEF At
      <4>2. faults # 0 /\ worker[v].account.no <= row.no
        BY <1>5, <3>1, <4>1, WorkerFacts DEF TokenInv, RefusedForAReason
      <4>3. QED
        BY <1>4, <1>5, <2>6, <2>7, <3>1, <4>1, <4>2, WorkerFacts
    <3>2. QED
      BY <3>1 DEF RefusedForAReason
  <2>15. CacheLivesAreShort' /\ ExpiredIsNotKept'
    BY <1>1 DEF TokenInv, CacheLivesAreShort, ExpiredIsNotKept
  <2>16. QED
    BY <2>2, <2>8, <2>9, <2>10, <2>11, <2>12, <2>13, <2>14, <2>15 DEF TokenInv
<1>6. CASE /\ CallFails(w) /\ UNCHANGED row /\ Outcome(w, "failed")
           /\ dropped' = dropped \cup {IF worker[w].connected THEN "failed" ELSE "cancelled"}
  <2>1. Moves(w, "unlock", "failed", 0) /\ Keeps(w)
    BY <1>1, <1>6, OutcomeMoves DEF Outcomes
  <2>2. dropped' \subseteq Losses /\ dropped' # {}
    BY <1>6 DEF TokenInv, TypeOK, Losses
  <2>3. TypeOK'
    BY <1>1, <1>4, <1>6, <2>1, <2>2, WorkerFacts, TypeFrame DEF TokenInv, TypeOK, Moves, Keeps
  <2>4. Harmless(w)
    BY <1>1, <1>2, <1>4, <2>1, <2>2, WorkerFacts DEF Harmless, Moves, Keeps
  <2>5. QED
    BY <1>1, <2>3, <2>4, StepKeeps
<1>7. QED
  BY <1>5, <1>6 DEF Persist

(* The lock is released by a worker that carries nothing any more.         *)
LEMMA ReleaseStep ==
  ASSUME TokenInv, NEW w \in Workers, ReleaseRefreshLock(w)
  PROVE  TokenInv'
<1>1. /\ worker \in [Workers -> Worker] /\ worker[w].pc = "unlock"
      /\ UNCHANGED <<deployment, issued, age, row, status, unsched, cache, dropped, overlapped>>
  BY WorkerFacts DEF ReleaseRefreshLock, At, provider, account, history
<1>2. Moves(w, "outcome", worker[w].outcome, worker[w].new) /\ Keeps(w)
  BY <1>1, ReleaseMoves DEF ReleaseRefreshLock
<1>3. /\ faults' \in {faults, faults + 1} /\ faults' \in 0 .. MaxFaults /\ faults \in Nat
      /\ lock' \in {lock, None, Orphan}
  BY FaultsStep DEF TokenInv, ReleaseRefreshLock
<1>4. TypeOK'
  BY <1>1, <1>2, <1>3, WorkerFacts, TypeFrame DEF TokenInv, TypeOK, Moves, Keeps, Losses
<1>5. /\ ~Carries(w) /\ ~Carries(w)' /\ ~At(w, "send")' /\ ~At(w, "recover")' /\ ~Inside(w)'
      /\ worker[w].connected => Inside(w)
  BY <1>1, <1>2 DEF Moves, Carries, At, Inside, Critical
<1>6. ASSUME faults' = 0, NEW v \in Workers \ {w}, Inside(v)
      PROVE  lock' = lock
  <2>1. faults = 0
    BY <1>3, <1>6
  <2>2. lock = v
    BY <1>6, <2>1, WorkerFacts
  <2>3. ~worker[w].connected
    BY <1>5, <1>6, <2>1, NobodyElseInside
  <2>4. QED
    BY <2>2, <2>3 DEF ReleaseRefreshLock
<1>7. Harmless(w)
  BY <1>1, <1>2, <1>3, <1>5, <1>6, WorkerFacts DEF Harmless, Moves, Keeps
<1>8. QED
  BY <1>1, <1>4, <1>7, StepKeeps

-----------------------------------------------------------------------------
(* Jobs and requests around the refresh                                    *)

(* A step after which its worker carries, sends and recovers nothing, and  *)
(* that has no effect on the credentials, the lock or the history.         *)
LEMMA QuietStep ==
  ASSUME TokenInv, NEW w \in Workers, Only(w),
         UNCHANGED <<deployment, issued, age, row, status, lock, dropped, overlapped>>,
         unsched' \in BOOLEAN, cache' \in {cache, None},
         CallFails(w) \/ Fault \/ NoFault \/ faults' = faults,
         worker[w].pc \notin Critical, worker'[w].pc \notin Critical,
         w \in Jobs => worker'[w].connected,
         worker'[w].outcome = "dead" => worker[w].outcome = "dead",
         worker'[w].object.no \in {worker[w].object.no, row.no, 0},
         worker'[w].account.no \in {worker[w].account.no, worker[w].object.no, row.no, 0},
         worker'[w].attempt <= deployment.retries
  PROVE  TokenInv'
<1>1. faults' \in {faults, faults + 1} /\ faults' \in 0 .. MaxFaults
  BY FaultsStep DEF TokenInv
<1>2. TypeOK'
  BY <1>1, TypeFrame DEF TokenInv, TypeOK, Losses
<1>3. ~Carries(w) /\ worker'[w].pc \notin {"answer", "persist", "send", "recover"}
  BY DEF Carries, Critical
<1>4. Harmless(w)
  BY <1>1, <1>3, QuietMove
<1>5. QED
  BY <1>2, <1>4, StepKeeps

(* The job starts with a copy of the row.                                  *)
LEMMA ProcessStep ==
  ASSUME TokenInv, NEW w \in Workers, ProcessRefresh(w)
  PROVE  TokenInv'
<1>1. /\ worker[w].pc = "idle"
      /\ UNCHANGED <<deployment, issued, age, row, status, unsched, lock, cache, dropped, overlapped, faults>>
  BY DEF ProcessRefresh, At, provider, account, redis, history
<1>2. row \in Credentials /\ unsched \in BOOLEAN
  BY DEF TokenInv, TypeOK
<1>3. /\ Moves(w, "lock", worker[w].outcome, worker[w].new)
      /\ worker'[w].connected = worker[w].connected
      /\ worker'[w].object = row /\ worker'[w].account = row /\ worker'[w].attempt = 1
  BY <1>2, WorkerFacts, ProcessMoves DEF ProcessRefresh
<1>4. QED
  BY <1>1, <1>2, <1>3, WorkerFacts, QuietStep DEF Moves, Critical

(* Finishing is quiet.                                                     *)
LEMMA FinishQuiet ==
  ASSUME TokenInv, NEW w \in Workers, Finish(w)
  PROVE  /\ Only(w) /\ worker'[w].pc \notin Critical /\ worker'[w].connected
         /\ worker'[w].outcome = "none" /\ worker'[w].object.no = 0 /\ worker'[w].account.no = 0
         /\ worker'[w].attempt <= deployment.retries
<1>1. PICK l \in {"idle", "done"} : Moves(w, l, "none", 0)
  BY WorkerFacts, FinishMoves
<1>2. worker'[w].connected /\ worker'[w].object.no = 0 /\ worker'[w].account.no = 0 /\ worker'[w].attempt = 0
  BY WorkerFacts, FinishMoves
<1>3. QED
  BY <1>1, <1>2, WorkerFacts DEF Moves, Critical

(* So are going to a label and sending a token upstream.                   *)
LEMMA GotoQuiet ==
  ASSUME TokenInv, NEW w \in Workers, NEW l \in Labels \ Critical, NEW i \in Issue,
         Goto(w, l) \/ Use(w, i)
  PROVE  /\ Only(w) /\ worker'[w].pc \notin Critical /\ worker'[w].outcome = worker[w].outcome
         /\ Keeps(w) /\ worker'[w].attempt <= deployment.retries
<1>1. \E k \in {l, "upstream"} : Moves(w, k, worker[w].outcome, worker[w].new)
  BY WorkerFacts, GotoMoves, UseMoves
<1>2. Keeps(w)
  BY WorkerFacts, GotoMoves, UseMoves
<1>3. QED
  BY <1>1, <1>2, WorkerFacts DEF Moves, Keeps, Critical

(* The job disables the account when the refresh was found dead, and tries *)
(* again or gives up otherwise.                                            *)
LEMMA OutcomeStep ==
  ASSUME TokenInv, NEW w \in Workers, JobOutcome(w)
  PROVE  TokenInv'
<1>1. /\ worker[w].pc = "outcome" /\ w \in Jobs
      /\ UNCHANGED <<deployment, issued, age, row, lock, cache, dropped, overlapped>>
      /\ worker[w].pc \notin Critical
  BY DEF JobOutcome, At, provider, redis, history, Critical
<1>2. unsched \in BOOLEAN
  BY DEF TokenInv, TypeOK
<1>3. CASE Goto(w, "post") /\ UNCHANGED <<status, unsched>> /\ NoFault
  <2>1. "post" \in Labels \ Critical /\ 0 \in Issue
    BY TokenRefreshAssumption DEF Labels, Critical, Issue
  <2>2. QED
    BY <1>1, <1>2, <1>3, <2>1, WorkerFacts, GotoQuiet, QuietStep DEF Keeps
<1>4. CASE Finish(w) /\ status' = status /\ unsched' \in {unsched, TRUE} /\ (NoFault \/ Fault)
  BY <1>1, <1>2, <1>4, FinishQuiet, QuietStep
<1>5. CASE /\ worker[w].outcome = "dead" /\ Finish(w) /\ UNCHANGED unsched
           /\ status' = "error" /\ NoFault
  <2>1. TypeOK'
    BY <1>1, <1>5, FinishQuiet, FaultsStep, TypeFrame DEF TokenInv, TypeOK, Losses
  <2>2. Harmless(w)
    <3>1. ~Carries(w) /\ worker'[w].pc \notin {"answer", "persist", "send", "recover"}
      BY <1>1, <1>5, FinishQuiet DEF Carries, Critical
    <3>2. QED
      BY <1>1, <1>5, <3>1, FinishQuiet, QuietMove DEF NoFault
  <2>3. WorkersInv'
    BY <2>2, HarmlessStep
  <2>4. DisabledOnlyWhenLost'
    BY <1>1, <1>5, WorkerFacts DEF DisabledOnlyWhenLost, NoFault
  <2>5. CacheLivesAreShort' /\ ExpiredIsNotKept'
    BY <1>1 DEF TokenInv, CacheLivesAreShort, ExpiredIsNotKept
  <2>6. QED
    BY <2>1, <2>3, <2>4, <2>5 DEF TokenInv, WorkersInv
<1>6. CASE /\ RetryLeft(w) /\ UNCHANGED <<status, unsched>> /\ NoFault
           /\ worker' = [worker EXCEPT ![w].pc = "lock", ![w].attempt = @ + 1, ![w].outcome = "none"]
  <2>1. /\ Moves(w, "lock", "none", worker[w].new)
        /\ worker'[w].connected = worker[w].connected /\ worker'[w].object = worker[w].object
        /\ worker'[w].account = worker[w].account /\ worker'[w].attempt = worker[w].attempt + 1
    BY <1>6, WorkerFacts, RetryMoves
  <2>2. worker'[w].attempt <= deployment.retries
    BY <1>6, <2>1, WorkerFacts DEF RetryLeft
  <2>3. QED
    BY <1>1, <1>2, <1>6, <2>1, <2>2, WorkerFacts, QuietStep DEF Moves, Critical
<1>7. QED
  BY <1>3, <1>4, <1>5, <1>6 DEF JobOutcome

(* After a refresh the job removes the cached token.                       *)
LEMMA PostStep ==
  ASSUME TokenInv, NEW w \in Workers, PostRefresh(w)
  PROVE  TokenInv'
<1>1. /\ worker[w].pc = "post" /\ Finish(w)
      /\ UNCHANGED <<deployment, issued, age, row, status, lock, dropped, overlapped>>
      /\ worker[w].pc \notin Critical
  BY DEF PostRefresh, At, provider, history, Critical
<1>2. unsched' \in BOOLEAN /\ cache' \in {cache, None} /\ (NoFault \/ Fault)
  BY DEF TokenInv, TypeOK, PostRefresh
<1>3. QED
  BY <1>1, <1>2, FinishQuiet, QuietStep

(* A request is selected with a copy of the row.                           *)
LEMMA SelectStep ==
  ASSUME TokenInv, NEW w \in Workers, SelectAccount(w)
  PROVE  TokenInv'
<1>1. /\ worker[w].pc = "idle"
      /\ UNCHANGED <<deployment, issued, age, row, status, unsched, lock, cache, dropped, overlapped, faults>>
  BY DEF SelectAccount, At, provider, account, redis, history
<1>2. row \in Credentials /\ unsched \in BOOLEAN
  BY DEF TokenInv, TypeOK
<1>3. /\ Moves(w, "token", worker[w].outcome, worker[w].new)
      /\ worker'[w].connected = worker[w].connected
      /\ worker'[w].object = row /\ worker'[w].account = row /\ worker'[w].attempt = worker[w].attempt
  BY <1>2, WorkerFacts, SelectMoves DEF SelectAccount
<1>4. QED
  BY <1>1, <1>2, <1>3, WorkerFacts, QuietStep DEF Moves, Critical

(* A cached token is used as it is, otherwise the request refreshes or     *)
(* takes the token of its account.                                         *)
LEMMA GetStep ==
  ASSUME TokenInv, NEW w \in Workers, GetAccessToken(w)
  PROVE  TokenInv'
<1>1. /\ worker[w].pc = "token" /\ worker[w].pc \notin Critical /\ unsched \in BOOLEAN
      /\ UNCHANGED <<deployment, issued, age, row, status, unsched, lock, cache, dropped, overlapped>>
  BY DEF TokenInv, TypeOK, GetAccessToken, At, provider, account, redis, history, Critical
<1>2. CallFails(w) \/ NoFault
  BY DEF GetAccessToken
<1>3. \E l \in Labels \ Critical, i \in Issue : Goto(w, l) \/ Use(w, i)
  <2>1. "lock" \in Labels \ Critical /\ "version" \in Labels \ Critical /\ 0 \in Issue
    BY TokenRefreshAssumption DEF Labels, Critical, Issue
  <2>2. cache # None => cache.no \in Issue
    BY DEF TokenInv, TypeOK, CacheEntry
  <2>3. QED
    BY <2>1, <2>2 DEF GetAccessToken
<1>4. QED
  BY <1>1, <1>2, <1>3, WorkerFacts, GotoQuiet, QuietStep DEF Keeps

(* A request goes on with what its refresh came to.                        *)
LEMMA RequestStep ==
  ASSUME TokenInv, NEW w \in Workers, RequestOutcome(w)
  PROVE  TokenInv'
<1>1. /\ worker[w].pc = "outcome" /\ worker[w].pc \notin Critical /\ unsched \in BOOLEAN
      /\ UNCHANGED <<deployment, issued, age, row, status, unsched, lock, cache, dropped, overlapped, faults>>
  BY DEF TokenInv, TypeOK, RequestOutcome, At, provider, account, redis, history, Critical
<1>2. CASE Set(w, [worker[w] EXCEPT
                !.pc = "version",
                !.account = IF worker[w].outcome \in {"refreshed", "already"} THEN worker[w].account
                            ELSE worker[w].object])
  <2> DEFINE c == IF worker[w].outcome \in {"refreshed", "already"} THEN worker[w].account
                  ELSE worker[w].object
  <2>1. c \in Credentials /\ c.no \in {worker[w].account.no, worker[w].object.no}
    BY WorkerFacts, RecordType
  <2>2. Set(w, [worker[w] EXCEPT !.pc = "version", !.account = c])
    BY <1>2
  <2> HIDE DEF c
  <2>3. /\ Moves(w, "version", worker[w].outcome, worker[w].new)
        /\ worker'[w].connected = worker[w].connected /\ worker'[w].object = worker[w].object
        /\ worker'[w].account = c /\ worker'[w].attempt = worker[w].attempt
    BY <2>1, <2>2, WorkerFacts, VersionMoves
  <2>4. QED
    BY <1>1, <2>1, <2>3, WorkerFacts, QuietStep DEF Moves, Critical
<1>3. CASE Finish(w)
  BY <1>1, <1>3, FinishQuiet, QuietStep
<1>4. CASE cache # None /\ Use(w, cache.no)
  <2>1. cache.no \in Issue /\ "post" \in Labels \ Critical
    BY <1>4 DEF TokenInv, TypeOK, CacheEntry, Labels, Critical
  <2>2. QED
    BY <1>1, <1>4, <2>1, WorkerFacts, GotoQuiet, QuietStep DEF Keeps
<1>5. QED
  BY <1>2, <1>3, <1>4 DEF RequestOutcome

(* Before it caches a token the request compares its account with the row. *)
LEMMA VersionStep ==
  ASSUME TokenInv, NEW w \in Workers, CheckTokenVersion(w)
  PROVE  TokenInv'
<1>1. /\ worker[w].pc = "version" /\ worker[w].pc \notin Critical /\ unsched \in BOOLEAN
      /\ UNCHANGED <<deployment, issued, age, row, status, unsched, lock, cache, dropped, overlapped>>
  BY DEF TokenInv, TypeOK, CheckTokenVersion, At, provider, account, redis, history, Critical
<1>2. CallFails(w) \/ NoFault
  BY DEF CheckTokenVersion
<1>3. \E l \in Labels \ Critical, i \in Issue : Goto(w, l) \/ Use(w, i)
  <2>1. "setCache" \in Labels \ Critical /\ row.no \in Issue
    BY DEF TokenInv, TypeOK, Credentials, Labels, Critical
  <2>2. QED
    BY <2>1 DEF CheckTokenVersion
<1>4. QED
  BY <1>1, <1>2, <1>3, WorkerFacts, GotoQuiet, QuietStep DEF Keeps

(* The entry that a request makes lives for a minute, or until a token     *)
(* that is not expired yet expires.                                        *)
LEMMA SetCacheStep ==
  ASSUME TokenInv, NEW w \in Workers, SetAccessToken(w)
  PROVE  TokenInv'
<1>1. /\ worker[w].pc = "setCache" /\ worker[w].pc \notin Critical /\ unsched \in BOOLEAN
      /\ UNCHANGED <<deployment, issued, age, row, status, unsched, lock, dropped, overlapped>>
  BY DEF TokenInv, TypeOK, SetAccessToken, At, provider, account, history, Critical
<1>2. worker[w].account.no \in Issue /\ "post" \in Labels \ Critical
  <2>1. worker[w].account \in Credentials
    BY WorkerFacts, RecordType
  <2>2. QED
    BY <2>1 DEF Credentials, Labels, Critical
<1>3. /\ Only(w) /\ worker'[w].pc \notin Critical /\ worker'[w].outcome = worker[w].outcome
      /\ Keeps(w) /\ worker'[w].attempt <= deployment.retries
  BY <1>2, GotoQuiet DEF SetAccessToken
<1>4. CASE UNCHANGED cache /\ CallFails(w)
  BY <1>1, <1>3, <1>4, WorkerFacts, QuietStep DEF Keeps
<1>5. CASE cache' = [no |-> worker[w].account.no, life |-> CacheLife(w)] /\ NoFault
  <2>1. CacheLife(w) \in {"minute", "untilExpiry"}
    BY DEF CacheLife
  <2>2. age[worker[w].account.no] = "expired" => CacheLife(w) = "minute"
    BY DEF CacheLife
  <2>3. /\ cache' \in CacheEntry /\ cache'.no = worker[w].account.no /\ cache'.life = CacheLife(w)
    BY <1>2, <1>5, <2>1 DEF CacheEntry
  <2>4. TypeOK'
    BY <1>1, <1>3, <1>5, <2>3, FaultsStep, TypeFrame DEF TokenInv, TypeOK, Losses
  <2>5. Harmless(w)
    <3>1. ~Carries(w) /\ worker'[w].pc \notin {"answer", "persist", "send", "recover"}
      BY <1>1, <1>3 DEF Carries, Critical
    <3>2. QED
      BY <1>1, <1>3, <1>5, <3>1, WorkerFacts, QuietMove DEF NoFault, Keeps
  <2>6. WorkersInv'
    BY <2>5, HarmlessStep
  <2>7. CacheLivesAreShort' /\ ExpiredIsNotKept'
    BY <1>1, <2>1, <2>2, <2>3 DEF CacheLivesAreShort, ExpiredIsNotKept
  <2>8. DisabledOnlyWhenLost'
    BY <1>1, <1>5 DEF TokenInv, DisabledOnlyWhenLost, NoFault
  <2>9. QED
    BY <2>4, <2>6, <2>7, <2>8 DEF TokenInv, WorkersInv
<1>6. QED
  BY <1>4, <1>5 DEF SetAccessToken

(* Upstream accepts the token or answers with 401.                         *)
LEMMA UpstreamStep ==
  ASSUME TokenInv, NEW w \in Workers, Upstream(w)
  PROVE  TokenInv'
<1>1. /\ worker[w].pc = "upstream" /\ worker[w].pc \notin Critical /\ unsched \in BOOLEAN
      /\ UNCHANGED <<deployment, issued, age, row, unsched, lock, cache, dropped, overlapped, faults>>
  BY DEF TokenInv, TypeOK, Upstream, At, provider, redis, history, Critical
<1>2. CASE Finish(w) /\ UNCHANGED status
  BY <1>1, <1>2, FinishQuiet, QuietStep
<1>3. CASE Goto(w, "uncache401") /\ UNCHANGED status
  <2>1. "uncache401" \in Labels \ Critical /\ 0 \in Issue
    BY TokenRefreshAssumption DEF Labels, Critical, Issue
  <2>2. QED
    BY <1>1, <1>3, <2>1, WorkerFacts, GotoQuiet, QuietStep DEF Keeps
<1>4. CASE Finish(w) /\ status' = "unauthorized"
  <2>1. TypeOK'
    BY <1>1, <1>4, FinishQuiet, FaultsStep, TypeFrame DEF TokenInv, TypeOK, Losses
  <2>2. Harmless(w)
    <3>1. ~Carries(w) /\ worker'[w].pc \notin {"answer", "persist", "send", "recover"}
      BY <1>1, <1>4, FinishQuiet DEF Carries, Critical
    <3>2. QED
      BY <1>1, <1>4, <3>1, FinishQuiet, QuietMove
  <2>3. WorkersInv'
    BY <2>2, HarmlessStep
  <2>4. DisabledOnlyWhenLost'
    BY <1>4 DEF DisabledOnlyWhenLost
  <2>5. CacheLivesAreShort' /\ ExpiredIsNotKept'
    BY <1>1 DEF TokenInv, CacheLivesAreShort, ExpiredIsNotKept
  <2>6. QED
    BY <2>1, <2>3, <2>4, <2>5 DEF TokenInv, WorkersInv
<1>5. QED
  BY <1>2, <1>3, <1>4 DEF Upstream

(* On a 401 the cached token is removed.                                   *)
LEMMA UncacheStep ==
  ASSUME TokenInv, NEW w \in Workers, Uncache401(w)
  PROVE  TokenInv'
<1>1. /\ worker[w].pc = "uncache401" /\ worker[w].pc \notin Critical /\ unsched \in BOOLEAN
      /\ UNCHANGED <<deployment, issued, age, row, status, unsched, lock, dropped, overlapped>>
      /\ cache' \in {cache, None} /\ (CallFails(w) \/ NoFault) /\ Goto(w, "persist401")
  BY DEF TokenInv, TypeOK, Uncache401, At, provider, account, history, Critical
<1>2. "persist401" \in Labels \ Critical /\ 0 \in Issue
  BY TokenRefreshAssumption DEF Labels, Critical, Issue
<1>3. QED
  BY <1>1, <1>2, WorkerFacts, GotoQuiet, QuietStep DEF Keeps

(* Writing back the account object of a request loses nothing unless the   *)
(* row has newer credentials by now.                                       *)
LEMMA Persist401Step ==
  ASSUME TokenInv, NEW w \in Workers, Persist401(w)
  PROVE  TokenInv'
<1>1. /\ worker[w].pc = "persist401" /\ worker[w].pc \notin Critical /\ unsched \in BOOLEAN
      /\ UNCHANGED <<deployment, issued, age, status, unsched, lock, cache, overlapped>>
      /\ Goto(w, "unsched401")
  BY DEF TokenInv, TypeOK, Persist401, At, provider, redis, Critical
<1>2. "unsched401" \in Labels \ Critical /\ 0 \in Issue
  BY TokenRefreshAssumption DEF Labels, Critical, Issue
<1>3. /\ Only(w) /\ worker'[w].pc \notin Critical /\ worker'[w].outcome = worker[w].outcome
      /\ Keeps(w) /\ worker'[w].attempt <= deployment.retries
  BY <1>1, <1>2, GotoQuiet
<1>4. CASE UNCHANGED <<row, dropped>> /\ CallFails(w)
  BY <1>1, <1>3, <1>4, WorkerFacts, QuietStep DEF Keeps
<1>5. CASE /\ row' = [worker[w].object EXCEPT !.forced = TRUE] /\ NoFault
           /\ dropped' = IF row'.no < row.no THEN dropped \cup {"overwritten"} ELSE dropped
  <2>1. row' \in Credentials /\ row'.no = worker[w].object.no
    <3>1. worker[w].object \in Credentials
      BY WorkerFacts, RecordType
    <3>2. QED
      BY <1>5, <3>1 DEF Credentials
  <2>2. dropped' \subseteq Losses /\ (dropped' = {} => dropped = {} /\ ~(row'.no < row.no))
    BY <1>5 DEF TokenInv, TypeOK, Losses
  <2>3. TypeOK'
    BY <1>1, <1>3, <1>5, <2>1, <2>2, FaultsStep, TypeFrame DEF TokenInv, TypeOK
  <2>4. dropped' = {} => row'.no = row.no
    BY <2>1, <2>2, WorkerFacts
  <2>5. /\ ~Carries(w) /\ ~Carries(w)' /\ ~At(w, "send")' /\ ~At(w, "recover")'
        /\ ~Inside(w)'
    BY <1>1, <1>3 DEF Carries, At, Inside, Critical
  <2>6. Harmless(w)
    BY <1>1, <1>3, <1>5, <2>2, <2>4, <2>5, WorkerFacts DEF Harmless, Keeps, NoFault
  <2>7. QED
    BY <1>1, <2>3, <2>6, StepKeeps
<1>6. QED
  BY <1>4, <1>5 DEF Persist401

(* On a 401 the account is set aside for a while.                          *)
LEMMA UnschedStep ==
  ASSUME TokenInv, NEW w \in Workers, Unsched401(w)
  PROVE  TokenInv'
<1>1. /\ worker[w].pc = "unsched401" /\ worker[w].pc \notin Critical /\ unsched' \in BOOLEAN
      /\ UNCHANGED <<deployment, issued, age, row, status, lock, cache, dropped, overlapped>>
      /\ (CallFails(w) \/ NoFault) /\ Finish(w)
  BY DEF TokenInv, TypeOK, Unsched401, At, provider, redis, history, Critical
<1>2. QED
  BY <1>1, FinishQuiet, QuietStep

-----------------------------------------------------------------------------
(* The environment                                                         *)

(* A client that leaves is no longer inside, unless it carries             *)
(* credentials.                                                            *)
LEMMA DisconnectStep ==
  ASSUME TokenInv, NEW w \in Workers, Disconnect(w)
  PROVE  TokenInv'
<1>1. /\ worker[w].connected /\ w \in Requests
      /\ UNCHANGED <<deployment, issued, age, row, status, unsched, lock, cache, dropped, overlapped, faults>>
  BY DEF Disconnect, provider, account, redis, history
<1>2. /\ Moves(w, worker[w].pc, worker[w].outcome, worker[w].new)
      /\ worker'[w].connected = FALSE /\ worker'[w].object = worker[w].object
      /\ worker'[w].account = worker[w].account /\ worker'[w].attempt = worker[w].attempt
  BY WorkerFacts, DisconnectMoves DEF Disconnect
<1>3. TypeOK'
  BY <1>1, <1>2, WorkerFacts, TypeFrame DEF TokenInv, TypeOK, Moves, Losses
<1>4. /\ Carries(w)' <=> Carries(w)
      /\ Inside(w)' => Inside(w)
      /\ At(w, "recover")' => At(w, "recover")
  BY <1>2 DEF Moves, Carries, Inside, At
<1>5. w \notin Jobs
  BY <1>1, TokenRefreshAssumption
<1>6. dropped = {} /\ At(w, "recover") => faults # 0 /\ (overlapped \/ worker[w].account.no # row.no)
  BY DEF TokenInv, RefusedForAReason
<1>7. Harmless(w)
  BY <1>1, <1>2, <1>4, <1>5, <1>6, WorkerFacts DEF Harmless, Moves
<1>8. QED
  BY <1>1, <1>3, <1>7, StepKeeps

(* The parts of the invariant that speak of workers depend on these        *)
(* variables only.                                                         *)
LEMMA WorkersUnchanged ==
  ASSUME TokenInv, UNCHANGED <<issued, row, lock, worker, dropped, overlapped, faults>>
  PROVE  WorkersInv'
BY DEF TokenInv, WorkersInv, JobsStayConnected, RowIsAhead, OneCarries, NewestIsStored, LockProtects,
       RefreshesExclude, SendsWhatIsStored, RefusedForAReason, DeadForAReason, Carries, Inside, At

(* A token that expires takes an entry that lives until then with it.      *)
LEMMA TickStep ==
  ASSUME TokenInv, NEW i \in Issue, Tick(i)
  PROVE  TokenInv'
<1>1. UNCHANGED <<deployment, issued, row, status, unsched, lock, worker, dropped, overlapped, faults>>
  BY DEF Tick, account, history
<1>2. age' \in [Issue -> {"fresh", "due", "expired"}] /\ \A j \in Issue \ {i} : age'[j] = age[j]
  BY DEF TokenInv, TypeOK, Tick
<1>3. cache' \in {cache, None}
  BY DEF Tick
<1>4. TypeOK'
  BY <1>1, <1>2, <1>3 DEF TokenInv, TypeOK
<1>5. ASSUME cache' # None, age'[cache'.no] = "expired"
      PROVE  cache'.life = "minute"
  <2>1. cache' = cache /\ cache # None /\ cache.no \in Issue
    BY <1>3, <1>5 DEF TokenInv, TypeOK, CacheEntry
  <2>2. CASE cache.no = i
    <3>1. cache.life # "untilExpiry"
      BY <1>5, <2>1, <2>2 DEF Tick
    <3>2. QED
      BY <2>1, <3>1 DEF TokenInv, CacheLivesAreShort
  <2>3. CASE cache.no # i
    BY <1>2, <1>5, <2>1, <2>3 DEF TokenInv, ExpiredIsNotKept
  <2>4. QED
    BY <2>2, <2>3
<1>6. CacheLivesAreShort' /\ ExpiredIsNotKept'
  BY <1>3, <1>5 DEF TokenInv, CacheLivesAreShort, ExpiredIsNotKept
<1>7. DisabledOnlyWhenLost'
  BY <1>1 DEF TokenInv, DisabledOnlyWhenLost
<1>8. QED
  BY <1>1, <1>4, <1>6, <1>7, WorkersUnchanged DEF TokenInv, WorkersInv

(* A lock that lapses under a worker inside is a failure.                  *)
LEMMA LapseStep ==
  ASSUME TokenInv, LockLapses
  PROVE  TokenInv'
<1>1. UNCHANGED <<deployment, issued, age, row, status, unsched, cache, worker, dropped, overlapped>>
  BY DEF LockLapses, provider, account, history
<1>2. /\ faults \in Nat /\ faults' \in {faults, faults + 1} /\ faults' \in 0 .. MaxFaults
      /\ faults' = 0 => lock = Orphan
  BY TokenRefreshAssumption DEF TokenInv, TypeOK, LockLapses, Fault, NoFault
<1>3. TypeOK'
  BY <1>1, <1>2 DEF TokenInv, TypeOK, LockLapses
<1>4. LockProtects'
  <2>1. faults' = 0 => \A w \in Workers : ~Inside(w)
    BY <1>2, TokenRefreshAssumption DEF TokenInv, LockProtects
  <2>2. QED
    BY <1>1, <2>1 DEF LockProtects, Inside, Carries
<1>5. JobsStayConnected' /\ CacheLivesAreShort' /\ ExpiredIsNotKept'
  BY <1>1 DEF TokenInv, JobsStayConnected, CacheLivesAreShort, ExpiredIsNotKept
<1>6. RowIsAhead' /\ OneCarries' /\ NewestIsStored'
  BY <1>1 DEF TokenInv, RowIsAhead, OneCarries, NewestIsStored, Carries
<1>7. RefreshesExclude' /\ SendsWhatIsStored' /\ RefusedForAReason'
  BY <1>1, <1>2 DEF TokenInv, RefreshesExclude, SendsWhatIsStored, RefusedForAReason, At
<1>8. DeadForAReason' /\ DisabledOnlyWhenLost'
  BY <1>1, <1>2 DEF TokenInv, DeadForAReason, DisabledOnlyWhenLost
<1>9. QED
  BY <1>3, <1>4, <1>5, <1>6, <1>7, <1>8 DEF TokenInv

(* Expiry of the cached token and the end of the pause disturb nobody.     *)
LEMMA OtherLapses ==
  ASSUME TokenInv, CacheLapses \/ UnschedEnds \/ UNCHANGED vars
  PROVE  TokenInv'
<1>1. /\ UNCHANGED <<deployment, issued, age, row, status, lock, worker, dropped, overlapped, faults>>
      /\ unsched' \in {unsched, FALSE} /\ cache' \in {cache, None}
  BY DEF CacheLapses, UnschedEnds, vars, provider, account, redis, history
<1>2. TypeOK'
  BY <1>1 DEF TokenInv, TypeOK
<1>3. CacheLivesAreShort' /\ ExpiredIsNotKept'
  BY <1>1 DEF TokenInv, CacheLivesAreShort, ExpiredIsNotKept
<1>4. DisabledOnlyWhenLost'
  BY <1>1 DEF TokenInv, DisabledOnlyWhenLost
<1>5. QED
  BY <1>1, <1>2, <1>3, <1>4, WorkersUnchanged DEF TokenInv, WorkersInv

(* A crash is a failure, and it loses what the workers of its process      *)
(* carry.                                                                  *)
LEMMA CrashStep ==
  ASSUME TokenInv, NEW p, Crash(p)
  PROVE  TokenInv'
<1> DEFINE O == {w \in Workers : deployment.process[w] = p /\ worker[w].pc \notin {"idle", "done"}}
<1>1. /\ UNCHANGED <<deployment, issued, age, row, status, unsched, cache, overlapped>>
      /\ lock' \in {lock, Orphan}
      /\ worker' = [w \in Workers |->
                      IF w \in O THEN Blank(IF w \in Jobs THEN "idle" ELSE "done") ELSE worker[w]]
      /\ dropped' = IF \E w \in O : worker[w].pc \in {"answer", "persist"}
                    THEN dropped \cup {"crashed"} ELSE dropped
  BY DEF Crash, provider, account
<1>2. faults \in Nat /\ faults' = faults + 1 /\ faults' \in 0 .. MaxFaults
  BY TokenRefreshAssumption DEF TokenInv, TypeOK, Crash, Fault
<1>3. worker \in [Workers -> Worker] /\ O \in SUBSET Workers
  BY DEF TokenInv, TypeOK
<1> HIDE DEF O
<1>4. /\ worker' \in [Workers -> Worker]
      /\ \A w \in Workers \ O : worker'[w] = worker[w]
      /\ \A w \in O : /\ worker'[w].pc \in {"idle", "done"} /\ worker'[w].outcome = "none"
                      /\ worker'[w].connected /\ worker'[w].new = 0
                      /\ worker'[w].object.no = 0 /\ worker'[w].account.no = 0
                      /\ worker'[w].attempt = 0
  BY <1>1, <1>3, CrashMoves
<1>5. /\ dropped' \subseteq Losses
      /\ dropped' = {} => dropped = {} /\ \A w \in O : ~Carries(w)
  BY <1>1 DEF TokenInv, TypeOK, Losses, Carries
<1>6. TypeOK'
  <2>1. \A w \in Workers : worker'[w].attempt <= deployment'.retries
    <3>1. \A w \in O : worker'[w].attempt = 0
      BY <1>4
    <3>2. \A w \in Workers \ O : worker'[w].attempt <= deployment.retries
      BY <1>4 DEF TokenInv, TypeOK
    <3>3. deployment.retries \in Nat /\ deployment' = deployment
      BY <1>1, TokenRefreshAssumption DEF TokenInv, TypeOK
    <3>4. QED
      BY <3>1, <3>2, <3>3
  <2>2. QED
    BY <1>1, <1>2, <1>4, <1>5, <2>1 DEF TokenInv, TypeOK, Losses
<1>7. \A w \in O : ~Carries(w)' /\ ~At(w, "recover")'
  BY <1>4 DEF Carries, At
<1>8. \A w \in Workers \ O : Carries(w)' <=> Carries(w)
  BY <1>4 DEF Carries
<1>9. JobsStayConnected' /\ DeadForAReason'
  <2>1. \A w \in Jobs : w \in O \/ w \in Workers \ O
    BY DEF Workers
  <2>2. JobsStayConnected'
    BY <1>4, <2>1 DEF TokenInv, JobsStayConnected
  <2>3. DeadForAReason'
    BY <1>1, <1>2, <1>4, <1>5, <2>1 DEF TokenInv, DeadForAReason
  <2>4. QED
    BY <2>2, <2>3
<1>10. RowIsAhead'
  <2>1. row.no \in Nat
    BY TokenRefreshAssumption DEF TokenInv, TypeOK, Credentials, Issue
  <2>2. QED
    <3>1. dropped' = {} => \A w \in Workers \ O :
             worker'[w].object.no <= row.no /\ worker'[w].account.no <= row.no
      BY <1>4, <1>5 DEF TokenInv, RowIsAhead
    <3>2. \A w \in O : worker'[w].object.no = 0 /\ worker'[w].account.no = 0
      BY <1>4
    <3>3. dropped' = {} => row.no <= issued
      BY <1>5 DEF TokenInv, RowIsAhead
    <3>4. QED
      BY <1>1, <2>1, <3>1, <3>2, <3>3 DEF RowIsAhead
<1>11. OneCarries'
  BY <1>1, <1>4, <1>5, <1>7, <1>8 DEF TokenInv, OneCarries
<1>12. NewestIsStored'
  BY <1>1, <1>4, <1>5 DEF TokenInv, NewestIsStored, Carries
<1>13. LockProtects' /\ RefreshesExclude' /\ SendsWhatIsStored'
  BY <1>2 DEF LockProtects, RefreshesExclude, SendsWhatIsStored
<1>14. RefusedForAReason'
  BY <1>1, <1>2, <1>4, <1>5, <1>7 DEF TokenInv, RefusedForAReason, At
<1>15. DisabledOnlyWhenLost'
  BY <1>1, <1>2, <1>5 DEF TokenInv, DisabledOnlyWhenLost
<1>16. CacheLivesAreShort' /\ ExpiredIsNotKept'
  BY <1>1 DEF TokenInv, CacheLivesAreShort, ExpiredIsNotKept
<1>17. QED
  BY <1>6, <1>9, <1>10, <1>11, <1>12, <1>13, <1>14, <1>15, <1>16 DEF TokenInv

-----------------------------------------------------------------------------
(* The theorems                                                            *)

(* At first the row has the newest token and nobody has another.           *)
LEMMA InitInv ==
  ASSUME Init
  PROVE  TokenInv
<1>1. /\ 0 \in Issue /\ MaxFaults \in Nat /\ MaxIssued \in Nat
      /\ \A d \in Deployments : d.retries \in Nat \ {0}
  BY TokenRefreshAssumption DEF Issue
<1>2. "idle" \in Labels
  BY DEF Labels
<1>3. worker = [w \in Workers |-> Blank("idle")] /\ Blank("idle") \in Worker
  BY <1>2, BlankType DEF Init
<1>4. \A w \in Workers : /\ worker[w].pc = "idle" /\ worker[w].outcome = "none" /\ worker[w].connected
                         /\ worker[w].object.no = 0 /\ worker[w].account.no = 0 /\ worker[w].attempt = 0
  BY <1>2, <1>3, BlankType
<1>5. row \in Credentials /\ row.no = 0
  BY <1>1 DEF Init, Credentials
<1>6. age \in [Issue -> {"fresh", "due", "expired"}]
  BY DEF Init
<1>7. worker \in [Workers -> Worker]
  BY <1>3
<1>8. \A w \in Workers : worker[w].attempt <= deployment.retries
  BY <1>1, <1>4 DEF Init
<1>9. TypeOK
  <2>1. /\ deployment \in Deployments /\ issued \in Issue /\ status = "active" /\ unsched = FALSE
        /\ lock = None /\ cache = None /\ dropped = {} /\ overlapped = FALSE /\ faults \in 0 .. MaxFaults
    BY <1>1 DEF Init
  <2>2. QED
    BY <1>5, <1>6, <1>7, <1>8, <2>1 DEF TypeOK
<1>10. \A w \in Workers : ~Carries(w) /\ ~Inside(w) /\ ~At(w, "send") /\ ~At(w, "recover")
  BY <1>4 DEF Carries, Inside, At, Critical
<1>11. JobsStayConnected /\ DeadForAReason
  BY <1>4 DEF JobsStayConnected, DeadForAReason, Workers
<1>12. RowIsAhead /\ OneCarries /\ NewestIsStored
  BY <1>4, <1>5, <1>10 DEF Init, RowIsAhead, OneCarries, NewestIsStored
<1>13. LockProtects /\ RefreshesExclude /\ SendsWhatIsStored /\ RefusedForAReason
  BY <1>10 DEF Init, LockProtects, RefreshesExclude, SendsWhatIsStored, RefusedForAReason
<1>14. CacheLivesAreShort /\ ExpiredIsNotKept /\ DisabledOnlyWhenLost
  BY DEF Init, CacheLivesAreShort, ExpiredIsNotKept, DisabledOnlyWhenLost
<1>15. QED
  BY <1>9, <1>11, <1>12, <1>13, <1>14 DEF TokenInv

(* One step of any worker or of the environment keeps the invariant.       *)
LEMMA NextInv ==
  ASSUME TokenInv, [Next]_vars
  PROVE  TokenInv'
<1>1. ASSUME NEW w \in Workers, Step(w)
      PROVE  TokenInv'
  BY <1>1, AcquireStep, RereadStep, SendStep, AnswerStep, RecoverStep, PersistStep, ReleaseStep,
     ProcessStep, OutcomeStep, PostStep, GetStep, RequestStep, VersionStep, SetCacheStep,
     UpstreamStep, UncacheStep, Persist401Step, UnschedStep
     DEF Step
<1>2. ASSUME NEW w \in Workers, SelectAccount(w) \/ Disconnect(w)
      PROVE  TokenInv'
  BY <1>2, SelectStep, DisconnectStep
<1>3. ASSUME NEW i \in Issue, Tick(i)
      PROVE  TokenInv'
  BY <1>3, TickStep
<1>4. ASSUME NEW w \in Workers, Crash(deployment.process[w])
      PROVE  TokenInv'
  BY <1>4, CrashStep
<1>5. CASE LockLapses \/ CacheLapses \/ UnschedEnds \/ UNCHANGED vars
  BY <1>5, LapseStep, OtherLapses
<1>6. QED
  BY <1>1, <1>2, <1>3, <1>4, <1>5 DEF Next

(* The inductive invariant holds of every behaviour, for any sets of jobs, *)
(* requests and deployments and any number of refreshes and failures.      *)
THEOREM TokenInvariance == Spec => []TokenInv
<1>1. Init => TokenInv
  BY InitInv
<1>2. TokenInv /\ [Next]_vars => TokenInv'
  BY NextInv
<1>3. QED
  BY <1>1, <1>2, PTL DEF Spec

(* Type correctness.                                                       *)
THEOREM TokenTypeCorrect == Spec => []TypeOK
<1>1. TokenInv => TypeOK
  BY DEF TokenInv
<1>2. QED
  BY <1>1, TokenInvariance, PTL

(* The lock of RefreshIfNeeded: unless a call fails or the lock lapses, no *)
(* two refreshes overlap, in one process or over several.                  *)
THEOREM RefreshesNeverOverlap == Spec => []RefreshesExclude
<1>1. TokenInv => RefreshesExclude
  BY DEF TokenInv
<1>2. QED
  BY <1>1, TokenInvariance, PTL

(* tryRecoverFromRefreshRace: the job disables an account only when its    *)
(* newest refresh token is lost, refreshes overlapped, or after a second   *)
(* failure.                                                                *)
THEOREM AccountIsDisabledOnlyWhenLost == Spec => []DisabledOnlyWhenLost
<1>1. TokenInv => DisabledOnlyWhenLost
  BY DEF TokenInv
<1>2. QED
  BY <1>1, TokenInvariance, PTL

(* persistAccountCredentials and the 401 handler: the newest refresh token *)
(* is in the row or with a refresh that is to store it, unless one of the  *)
(* ways to lose it happened.                                               *)
THEOREM NewestTokenIsStored == Spec => []NewestIsStored
<1>1. TokenInv => NewestIsStored
  BY DEF TokenInv
<1>2. QED
  BY <1>1, TokenInvariance, PTL

(* The TTLs of GetAccessToken: an expired token stays cached for a minute  *)
(* at most.                                                                *)
THEOREM ExpiredTokenIsNotKept == Spec => []ExpiredIsNotKept
<1>1. TokenInv => ExpiredIsNotKept
  BY DEF TokenInv
<1>2. QED
  BY <1>1, TokenInvariance, PTL

=============================================================================
