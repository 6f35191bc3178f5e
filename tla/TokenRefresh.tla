---------------------------- MODULE TokenRefresh ----------------------------
(***************************************************************************)
(* The OAuth credentials of one account.  The background job of a process  *)
(* (TokenRefreshService) and requests that need an access token            *)
(* (ClaudeTokenProvider.GetAccessToken, the other providers alike) refresh *)
(* them through OAuthRefreshAPI.RefreshIfNeeded; a request that upstream   *)
(* answers with 401 forces a refresh (RateLimitService).                   *)
(*                                                                         *)
(* The provider rotates refresh tokens: the credentials it has issued are  *)
(* numbered, and only the newest refresh token is accepted.  The number    *)
(* stands for both tokens and for _token_version.  An access token is      *)
(* fresh, due within the refresh window, or expired.                       *)
(*                                                                         *)
(* Every call of the database, Redis or the provider is an action.  A      *)
(* failed call, a lock that lapses under its holder and a crash cost one   *)
(* unit of MaxFaults; the calls of a request also fail, at no cost, once   *)
(* its client is gone.                                                     *)
(***************************************************************************)
EXTENDS Integers, FiniteSets

CONSTANTS
    Jobs, Requests,
    Deployments,   \* the processes of the workers, and cfg.MaxRetries
    MaxIssued,     \* bound: refreshes the provider carries out
    MaxFaults,     \* bound: failures in one behaviour
    None, Orphan   \* nothing cached, no lock; a lock nobody will release

Workers == Jobs \cup Requests

ASSUME TokenRefreshAssumption ==
    /\ Jobs \cap Requests = {}
    /\ \A d \in Deployments : DOMAIN d.process = Workers /\ d.retries \in Nat \ {0}
    /\ MaxIssued \in Nat /\ MaxFaults \in Nat
    /\ None \notin Workers /\ Orphan \notin Workers \cup {None}

VARIABLES
    deployment,    \* one of Deployments
    \* the provider
    issued,        \* the newest credentials
    age,           \* of each access token
    \* the accounts row
    row,           \* credentials
    status,        \* "error" by the job, "unauthorized" by an upstream answer
    unsched,       \* whether temp_unschedulable_until is in the future
    \* Redis
    lock,          \* oauth:refresh_lock
    cache,         \* oauth:token
    \* jobs and requests
    worker,
    dropped,       \* history: how newest credentials were lost
    overlapped,    \* history: two refreshes ran at a time
    faults

vars == <<deployment, issued, age, row, status, unsched, lock, cache, worker, dropped, overlapped, faults>>

Issue == 0 .. MaxIssued

(* Credentials as the row or an account object has them: forced when       *)
(* expires_at was overwritten with the present.                            *)
Credentials == [no : Issue, forced : BOOLEAN]

(* Between the lock and its release.                                       *)
Critical == {"reread", "send", "answer", "recover", "persist", "unlock"}

Labels == Critical \cup
    {"idle", "token", "lock", "outcome", "version", "setCache", "upstream",
     "uncache401", "persist401", "unsched401", "post", "done"}

Worker ==
    [pc : Labels,
     connected : BOOLEAN,
     object : Credentials,    \* the account object of the caller
     account : Credentials,   \* the one the refresh works on
     unsched : BOOLEAN,       \* its TempUnschedulableUntil
     new : Issue,             \* what the provider answered
     held : BOOLEAN,          \* lockAcquired
     outcome : {"none", "refreshed", "already", "lockHeld", "dead", "failed"},
     attempt : Nat,
     used : Issue]            \* the access token sent upstream

CacheEntry == [no : Issue, life : {"untilExpiry", "minute", "halfHour"}]

TypeOK ==
    /\ deployment \in Deployments
    /\ issued \in Issue
    /\ age \in [Issue -> {"fresh", "due", "expired"}]
    /\ row \in Credentials
    /\ status \in {"active", "error", "unauthorized"}
    /\ unsched \in BOOLEAN
    /\ lock \in Workers \cup {None, Orphan}
    /\ cache \in CacheEntry \cup {None}
    /\ worker \in [Workers -> Worker]
    /\ \A w \in Workers : worker[w].attempt <= deployment.retries
    /\ dropped \subseteq {"failed", "cancelled", "crashed", "overwritten"}
    /\ overlapped \in BOOLEAN
    /\ faults \in 0 .. MaxFaults

Blank(label) ==
    LET first == [no |-> 0, forced |-> FALSE]
    IN  [pc |-> label, connected |-> TRUE, object |-> first, account |-> first,
         unsched |-> FALSE, new |-> 0, held |-> FALSE, outcome |-> "none",
         attempt |-> 0, used |-> 0]

Init ==
    /\ deployment \in Deployments
    /\ issued = 0
    /\ age \in {[i \in Issue |-> IF i = 0 THEN a ELSE "fresh"] : a \in {"fresh", "due"}}
    /\ row = [no |-> 0, forced |-> FALSE]
    /\ status = "active" /\ unsched = FALSE
    /\ lock = None /\ cache = None
    /\ worker = [w \in Workers |-> Blank("idle")]
    /\ dropped = {} /\ overlapped = FALSE
    /\ faults = 0

-----------------------------------------------------------------------------
Fault == faults < MaxFaults /\ faults' = faults + 1

NoFault == UNCHANGED faults

CallFails(w) == IF worker[w].connected THEN Fault ELSE NoFault

At(w, label) == worker[w].pc = label

Set(w, record) == worker' = [worker EXCEPT ![w] = record]

Goto(w, label) == worker' = [worker EXCEPT ![w].pc = label]

(* A job starts over at its next tick, a request has ended.                *)
Finish(w) == Set(w, Blank(IF w \in Jobs THEN "idle" ELSE "done"))

Outcome(w, outcome) ==
    worker' = [worker EXCEPT ![w].pc = "unlock", ![w].outcome = outcome, ![w].new = 0]

(* time.Until(expires_at) < refreshWindow: hours for the job, minutes for  *)
(* a request, so that it may find a due token good enough.                 *)
NeedsRefresh(w, credentials) ==
    IF ~credentials.forced /\ age[credentials.no] = "due" /\ w \in Requests THEN BOOLEAN
    ELSE {credentials.forced \/ age[credentials.no] # "fresh"}

provider == <<deployment, issued, age>>
account  == <<row, status, unsched>>
redis    == <<lock, cache>>
history  == <<dropped, overlapped>>

-----------------------------------------------------------------------------
(* RefreshIfNeeded                                                         *)

(* Variant: SET instead of SETNX.                                          *)
LockFreeAlways == TRUE

LockFree == lock = None

(* localMu, then SetNX.  An error degrades to a refresh without the lock,  *)
(* which an error that came after the write leaves locked.                 *)
AcquireRefreshLock(w) ==
    /\ At(w, "lock")
    /\ \A v \in Workers : deployment.process[v] = deployment.process[w] => worker[v].pc \notin Critical
    /\ \/ /\ worker[w].connected /\ LockFree
          /\ lock' = w
          /\ worker' = [worker EXCEPT ![w].pc = "reread", ![w].held = TRUE]
          /\ NoFault
       \/ /\ worker[w].connected /\ ~LockFree
          /\ worker' = [worker EXCEPT ![w].pc = "outcome", ![w].outcome = "lockHeld"]
          /\ UNCHANGED lock /\ NoFault
       \/ /\ lock' \in IF worker[w].connected /\ lock = None THEN {None, Orphan} ELSE {lock}
          /\ worker' = [worker EXCEPT ![w].pc = "reread", ![w].held = FALSE]
          /\ CallFails(w)
    /\ UNCHANGED <<provider, account, cache, history>>

(* GetByID                                                                 *)
Reread(w) == row

(* The row is read again, or the account object of the caller taken when   *)
(* that fails; perhaps another refresh has been faster.                    *)
RereadAccount(w) ==
    /\ At(w, "reread")
    /\ \E read \in BOOLEAN :
          LET fresh == IF read THEN Reread(w) ELSE worker[w].object
          IN  /\ IF read THEN worker[w].connected /\ NoFault ELSE CallFails(w)
              /\ \E due \in NeedsRefresh(w, fresh) :
                    Set(w, [worker[w] EXCEPT
                        !.account = fresh,
                        !.unsched = IF read THEN unsched ELSE @,
                        !.pc = IF due THEN "send" ELSE "unlock",
                        !.outcome = IF due THEN @ ELSE "already"])
    /\ UNCHANGED <<provider, account, redis, history>>

(* Has read the refresh token that it sends, or has not stored the answer. *)
Refreshing(v) ==
    worker[v].pc \in {"answer", "persist"} \/ (At(v, "send") /\ worker[v].connected)

(* The provider receives a refresh token, perhaps during another refresh.  *)
Reached(w) == overlapped' = (overlapped \/ \E v \in Workers \ {w} : Refreshing(v))

(* executor.Refresh: the provider accepts its newest refresh token only.   *)
Send(w) ==
    /\ At(w, "send")
    /\ \/ /\ worker[w].connected /\ worker[w].account.no = issued /\ issued < MaxIssued
          /\ issued' = issued + 1
          /\ Reached(w)
          /\ worker' = [worker EXCEPT ![w].pc = "answer", ![w].new = issued + 1]
          /\ NoFault
       \/ /\ worker[w].connected /\ worker[w].account.no # issued
          /\ Goto(w, "recover") /\ Reached(w) /\ UNCHANGED issued /\ NoFault
       \/ Outcome(w, "failed") /\ UNCHANGED <<issued, overlapped>> /\ CallFails(w)
    /\ UNCHANGED <<deployment, age, account, redis, dropped>>

(* The answer, with the new credentials, arrives or not.                   *)
Answer(w) ==
    /\ At(w, "answer")
    /\ \/ worker[w].connected /\ Goto(w, "persist") /\ UNCHANGED dropped /\ NoFault
       \/ /\ Outcome(w, "failed") /\ CallFails(w)
          /\ dropped' = dropped \cup {IF worker[w].connected THEN "failed" ELSE "cancelled"}
    /\ UNCHANGED <<provider, account, redis, overlapped>>

(* Variant: invalid_grant is final.                                        *)
RecoveredNever(w) == FALSE

(* tryRecoverFromRefreshRace: another refresh has stored its credentials.  *)
Recovered(w) == row.no # worker[w].account.no

TryRecover(w) ==
    /\ At(w, "recover")
    /\ \/ /\ worker[w].connected /\ Recovered(w)
          /\ Set(w, [worker[w] EXCEPT !.account = row, !.pc = "unlock", !.outcome = "already"])
          /\ NoFault
       \/ worker[w].connected /\ ~Recovered(w) /\ Outcome(w, "dead") /\ NoFault
       \/ Outcome(w, "dead") /\ CallFails(w)
    /\ UNCHANGED <<provider, account, redis, history>>

(* Variant: what the old credentials have wins.                            *)
MergedOldFirst(w) == worker[w].account

(* MergeCredentials: the tokens and expires_at of the answer.              *)
Merged(w) == [no |-> worker[w].new, forced |-> FALSE]

(* persistAccountCredentials                                               *)
Persist(w) ==
    LET new == Merged(w)
    IN  /\ At(w, "persist")
        /\ \/ /\ worker[w].connected
              /\ row' = new
              /\ Set(w, [worker[w] EXCEPT !.account = new, !.new = 0,
                                         !.pc = "unlock", !.outcome = "refreshed"])
              /\ UNCHANGED dropped /\ NoFault
           \/ /\ worker[w].connected /\ Fault
              /\ row' = new /\ Outcome(w, "failed") /\ UNCHANGED dropped
           \/ /\ CallFails(w)
              /\ UNCHANGED row /\ Outcome(w, "failed")
              /\ dropped' = dropped \cup {IF worker[w].connected THEN "failed" ELSE "cancelled"}
    /\ UNCHANGED <<provider, status, unsched, redis, overlapped>>

(* ReleaseRefreshLock deletes the key, whoever has it by now.              *)
ReleaseRefreshLock(w) ==
    /\ At(w, "unlock")
    /\ worker' = [worker EXCEPT ![w].pc = "outcome", ![w].held = FALSE]
    /\ \/ /\ worker[w].connected \/ ~worker[w].held
          /\ lock' = (IF worker[w].held THEN None ELSE lock) /\ NoFault
       \/ worker[w].held /\ lock' = (IF lock = w THEN Orphan ELSE lock) /\ CallFails(w)
    /\ UNCHANGED <<provider, account, cache, history>>

-----------------------------------------------------------------------------
(* The background job: processRefresh and refreshWithRetry                 *)

ProcessRefresh(w) ==
    /\ w \in Jobs /\ At(w, "idle")
    /\ status = "active" /\ TRUE \in NeedsRefresh(w, row)
    /\ Set(w, [worker[w] EXCEPT !.pc = "lock", !.object = row, !.account = row,
                                !.unsched = unsched, !.attempt = 1])
    /\ UNCHANGED <<provider, account, redis, history, faults>>

RetryLeft(w) == worker[w].attempt < deployment.retries

(* SetError for what cannot be retried, SetTempUnschedulable when the      *)
(* retries are over.                                                       *)
JobOutcome(w) ==
    LET outcome == worker[w].outcome
        retry   == outcome = "failed" /\ RetryLeft(w)
    IN  /\ w \in Jobs /\ At(w, "outcome")
        /\ \/ outcome = "refreshed" /\ Goto(w, "post") /\ UNCHANGED <<status, unsched>> /\ NoFault
           \/ /\ outcome \in {"already", "lockHeld"} /\ Finish(w)
              /\ UNCHANGED <<status, unsched>> /\ NoFault
           \/ /\ outcome = "dead" /\ Finish(w)
              /\ \/ status' = "error" /\ NoFault
                 \/ UNCHANGED status /\ Fault
              /\ UNCHANGED unsched
           \/ /\ retry
              /\ worker' = [worker EXCEPT ![w].pc = "lock", ![w].attempt = @ + 1,
                                          ![w].outcome = "none"]
              /\ UNCHANGED <<status, unsched>> /\ NoFault
           \/ /\ outcome = "failed" /\ ~retry /\ Finish(w)
              /\ \/ unsched' = TRUE /\ NoFault
                 \/ UNCHANGED unsched /\ Fault
              /\ UNCHANGED status
        /\ UNCHANGED <<provider, row, redis, history>>

(* postRefreshActions; a failure of either is logged.                      *)
PostRefresh(w) ==
    /\ At(w, "post")
    /\ Finish(w)
    /\ \/ /\ unsched' = (IF worker[w].unsched THEN FALSE ELSE unsched)
          /\ cache' = None /\ NoFault
       \/ unsched' \in {FALSE, unsched} /\ cache' \in {cache, None} /\ Fault
    /\ UNCHANGED <<provider, row, status, lock, history>>

-----------------------------------------------------------------------------
(* A request                                                               *)

(* The account is selected, and its object kept.                           *)
SelectAccount(w) ==
    /\ w \in Requests /\ At(w, "idle")
    /\ status = "active" /\ ~unsched
    /\ Set(w, [worker[w] EXCEPT !.pc = "token", !.object = row, !.account = row])
    /\ UNCHANGED <<provider, account, redis, history, faults>>

Use(w, no) == worker' = [worker EXCEPT ![w].pc = "upstream", ![w].used = no]

(* GetAccessToken: the cache, then a refresh if the object is due.         *)
GetAccessToken(w) ==
    /\ At(w, "token")
    /\ \/ worker[w].connected /\ cache # None /\ Use(w, cache.no) /\ NoFault
       \/ /\ \E due \in NeedsRefresh(w, worker[w].object) :
                Goto(w, IF due THEN "lock" ELSE "version")
          /\ IF cache = None THEN NoFault ELSE CallFails(w)
    /\ UNCHANGED <<provider, account, redis, history>>

(* The policies of the providers: a failed refresh is an error for some,   *)
(* others go on with the token they have; a held lock is waited for once.  *)
RequestOutcome(w) ==
    /\ w \in Requests /\ At(w, "outcome")
    /\ \/ Set(w, [worker[w] EXCEPT
                !.pc = "version",
                !.account = IF worker[w].outcome \in {"refreshed", "already"} THEN @
                            ELSE worker[w].object])
       \/ worker[w].outcome \in {"dead", "failed"} /\ Finish(w)
       \/ /\ worker[w].outcome = "lockHeld" /\ worker[w].connected /\ cache # None
          /\ Use(w, cache.no)
    /\ UNCHANGED <<provider, account, redis, history, faults>>

(* latestVersion > currentVersion                                          *)
Stale(w) == row.no > worker[w].account.no

(* CheckTokenVersion: newer credentials are used and not cached.           *)
CheckTokenVersion(w) ==
    /\ At(w, "version")
    /\ \/ worker[w].connected /\ Stale(w) /\ Use(w, row.no) /\ NoFault
       \/ worker[w].connected /\ ~Stale(w) /\ Goto(w, "setCache") /\ NoFault
       \/ Goto(w, "setCache") /\ CallFails(w)
    /\ UNCHANGED <<provider, account, redis, history>>

(* Variant: an expired token is cached for the default of half an hour.    *)
CacheLifeDefault(w) ==
    IF age[worker[w].account.no] = "expired" THEN "halfHour" ELSE "untilExpiry"

(* The TTL: a minute after a failure and for a token past its expires_at.  *)
CacheLife(w) ==
    LET credentials == worker[w].account
    IN  IF \/ worker[w].outcome \in {"dead", "failed"}
           \/ credentials.forced \/ age[credentials.no] = "expired"
        THEN "minute" ELSE "untilExpiry"

SetAccessToken(w) ==
    /\ At(w, "setCache")
    /\ Use(w, worker[w].account.no)
    /\ \/ /\ worker[w].connected
          /\ cache' = [no |-> worker[w].account.no, life |-> CacheLife(w)] /\ NoFault
       \/ UNCHANGED cache /\ CallFails(w)
    /\ UNCHANGED <<provider, account, lock, history>>

(* Upstream is free to answer with 401, for a token that is expired, that  *)
(* a refresh has replaced or that was revoked.  HandleUpstreamError forces *)
(* a refresh of most OAuth accounts; those of Antigravity, and those of    *)
(* OpenAI whose answer calls the token invalidated, revoked or             *)
(* unauthorized, it disables (SetError).                                   *)
Upstream(w) ==
    /\ At(w, "upstream")
    /\ \/ Finish(w) /\ UNCHANGED status
       \/ worker[w].connected /\ Goto(w, "uncache401") /\ UNCHANGED status
       \/ worker[w].connected /\ Finish(w) /\ status' = "unauthorized"
    /\ UNCHANGED <<provider, row, unsched, redis, history, faults>>

(* The forced refresh: the cached token is deleted, ...                    *)
Uncache401(w) ==
    /\ At(w, "uncache401")
    /\ Goto(w, "persist401")
    /\ \/ worker[w].connected /\ cache' = None /\ NoFault
       \/ UNCHANGED cache /\ CallFails(w)
    /\ UNCHANGED <<provider, account, lock, history>>

(* ... the credentials of the request's account object are stored with     *)
(* expires_at set to now, ...                                              *)
Persist401(w) ==
    /\ At(w, "persist401")
    /\ Goto(w, "unsched401")
    /\ \/ /\ worker[w].connected
          /\ row' = [worker[w].object EXCEPT !.forced = TRUE]
          /\ dropped' = IF row'.no < row.no THEN dropped \cup {"overwritten"} ELSE dropped
          /\ NoFault
       \/ UNCHANGED <<row, dropped>> /\ CallFails(w)
    /\ UNCHANGED <<provider, status, unsched, redis, overlapped>>

(* ... and the account is not scheduled for a while.                       *)
Unsched401(w) ==
    /\ At(w, "unsched401")
    /\ Finish(w)
    /\ \/ worker[w].connected /\ unsched' = TRUE /\ NoFault
       \/ UNCHANGED unsched /\ CallFails(w)
    /\ UNCHANGED <<provider, row, status, redis, history>>

-----------------------------------------------------------------------------
(* The environment                                                         *)

Disconnect(w) ==
    /\ w \in Requests /\ worker[w].connected /\ worker[w].pc \notin {"idle", "done"}
    /\ worker' = [worker EXCEPT ![w].connected = FALSE]
    /\ UNCHANGED <<provider, account, redis, history, faults>>

(* Tokens grow old in the order in which they were issued; a token cached  *)
(* until its expiry is gone by then.                                       *)
Tick(i) ==
    /\ i <= issued /\ age[i] # "expired"
    /\ \A j \in 0 .. i - 1 : age[j] = "expired" \/ (age[i] = "fresh" /\ age[j] = "due")
    /\ age' = [age EXCEPT ![i] = IF @ = "fresh" THEN "due" ELSE "expired"]
    /\ cache' = IF /\ cache # None /\ age'[i] = "expired"
                   /\ cache.no = i /\ cache.life = "untilExpiry"
                THEN None ELSE cache
    /\ UNCHANGED <<deployment, issued, account, lock, worker, history, faults>>

(* Variant: the key has no TTL.                                            *)
LockNeverLapses == FALSE /\ UNCHANGED vars

(* The lock's TTL.                                                         *)
LockLapses ==
    /\ lock # None
    /\ lock' = None
    /\ IF lock = Orphan THEN NoFault ELSE Fault
    /\ UNCHANGED <<provider, account, cache, worker, history>>

CacheLapses ==
    /\ cache # None /\ cache.life # "untilExpiry"
    /\ cache' = None
    /\ UNCHANGED <<provider, account, lock, worker, history, faults>>

UnschedEnds ==
    /\ unsched
    /\ unsched' = FALSE
    /\ UNCHANGED <<provider, row, status, redis, worker, history, faults>>

(* A process ends; its jobs start again with it, its requests are gone.    *)
Crash(p) ==
    LET of == {w \in Workers : deployment.process[w] = p /\ worker[w].pc \notin {"idle", "done"}}
    IN  /\ of # {}
        /\ Fault
        /\ worker' = [w \in Workers |->
                        IF w \in of THEN Blank(IF w \in Jobs THEN "idle" ELSE "done")
                        ELSE worker[w]]
        /\ lock' = IF lock \in of THEN Orphan ELSE lock
        /\ dropped' = IF \E w \in of : worker[w].pc \in {"answer", "persist"}
                      THEN dropped \cup {"crashed"} ELSE dropped
        /\ UNCHANGED <<provider, account, cache, overlapped>>

-----------------------------------------------------------------------------
Step(w) ==
    \/ AcquireRefreshLock(w) \/ RereadAccount(w) \/ Send(w) \/ Answer(w) \/ TryRecover(w)
    \/ Persist(w) \/ ReleaseRefreshLock(w)
    \/ ProcessRefresh(w) \/ JobOutcome(w) \/ PostRefresh(w)
    \/ GetAccessToken(w) \/ RequestOutcome(w) \/ CheckTokenVersion(w) \/ SetAccessToken(w)
    \/ Upstream(w) \/ Uncache401(w) \/ Persist401(w) \/ Unsched401(w)

Next ==
    \/ \E w \in Workers : Step(w) \/ SelectAccount(w) \/ Disconnect(w)
    \/ \E i \in Issue : Tick(i)
    \/ LockLapses \/ CacheLapses \/ UnschedEnds
    \/ \E w \in Workers : Crash(deployment.process[w])

Spec == Init /\ [][Next]_vars

(* Jobs and requests go on, the job's ticker fires, and a lock that nobody *)
(* releases lapses.                                                        *)
Fairness == (\A w \in Workers : WF_vars(Step(w))) /\ WF_vars(LockLapses)

FairSpec == Spec /\ Fairness

-----------------------------------------------------------------------------
(* Refreshes exclude each other, over processes and although a request may *)
(* lose its client anywhere: unless a call fails or the lock lapses, the   *)
(* provider is sent no refresh token while another refresh has still to    *)
(* send the one it read, or to store its answer.                           *)
RefreshesExclude == faults = 0 => ~overlapped

(* The job disables an account only when its newest refresh token is       *)
(* really lost, or after two refreshes ran at a time: a single failure of  *)
(* another kind never disables it (two do: a lock without Redis or a       *)
(* re-read that fails, and then the re-read of the recovery).              *)
DisabledOnlyWhenLost == status = "error" => dropped # {} \/ overlapped \/ faults > 1

(* The newest refresh token is in the row or in the hands of a refresh     *)
(* that is about to store it, unless one of the ways to lose it happened.  *)
NewestIsStored ==
    \/ row.no = issued
    \/ \E w \in Workers : worker[w].pc \in {"answer", "persist"} /\ worker[w].new = issued
    \/ dropped # {}

(* Whatever an expired token and a 401 lead to, an account whose calls all *)
(* succeed stays active: the 401 keeps it active for the refresh service   *)
(* to pick up, and a refresh uses the newest refresh token.                *)
StaysActive == status = "error" => faults > 0 \/ "cancelled" \in dropped

(* However cache fills race with refreshes and invalidations, an expired   *)
(* token stays cached for a minute at most.                                *)
ExpiredIsNotKept ==
    cache # None /\ age[cache.no] = "expired" => cache.life = "minute"

(* An active account whose token is due is refreshed, or disabled by the   *)
(* job or by an upstream answer, whatever failed, as long as the provider  *)
(* answers.                                                                *)
DueIsRefreshed ==
    (status = "active" /\ (row.forced \/ age[row.no] # "fresh"))
        ~> (status # "active" \/ (~row.forced /\ age[row.no] = "fresh") \/ issued = MaxIssued)

=============================================================================
