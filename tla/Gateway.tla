------------------------------ MODULE Gateway -------------------------------
(***************************************************************************)
(* The life of a gateway request (GatewayHandler.Messages): the queue and  *)
(* the concurrency slot of its user, the choice of an account, the queue   *)
(* and the slot of the account, the serial lock of the user message queue, *)
(* the upstream call and the failover to other accounts.                   *)
(*                                                                         *)
(* Slots, queue counters and locks are Redis keys (concurrency_cache.go,   *)
(* user_msg_queue_cache.go), shared by all processes; each script is one   *)
(* action.  A slot belongs to the request that got it, or is an orphan     *)
(* when nobody will release it any more; either goes when it is older than *)
(* the slot TTL, which a long request may outlive.  A failed Redis call or *)
(* a crash costs one unit of MaxFaults.                                    *)
(***************************************************************************)
EXTENDS Integers, FiniteSets

CONSTANTS
    Requests, Users, Accounts, Processes,
    UserOf,         \* the user of a request
    ProcessOf,      \* the process that serves it
    Settings,       \* what the settings of users and accounts may be
    MaxWait,        \* CalculateMaxWait: requests of a user that may wait
    MaxWaiting,     \* WaitPlan.MaxWaiting: requests that may wait for an account
    MaxFaults,      \* bound: failed calls and crashes in one behaviour
    None, Orphan    \* no account or lock; a lock whose holder is gone

ASSUME GatewayAssumption ==
    /\ UserOf \in [Requests -> Users] /\ ProcessOf \in [Requests -> Processes]
    /\ {MaxWait, MaxWaiting} \subseteq Nat \ {0}
    /\ Settings \subseteq [userLimit : Nat \ {0},          \* subject.Concurrency
                           accountLimit : Nat \ {0},       \* account.Concurrency
                           schedulable : SUBSET Accounts,  \* the accounts of the group
                           switches : Nat,                 \* maxAccountSwitches
                           retries : Nat,                  \* maxSameAccountRetries in pool mode, else 0
                           joining : SUBSET Processes]     \* those that start while others serve
    /\ MaxFaults \in Nat
    /\ None \notin Accounts \cup Requests /\ Orphan \notin Requests \cup {None}
    /\ IsFiniteSet(Requests)

VARIABLES
    req,          \* the requests
    \* Redis: concurrency:user, concurrency:account
    userSlots, userOrphans,
    slots, orphans,
    \* Redis: concurrency:wait, wait:account
    wait, accountWait,
    \* Redis: umq:*:lock
    lock,
    setting,      \* the settings in force
    starting,     \* the kinds of keys a starting process has still to clean
    faults

redis == <<userSlots, userOrphans, slots, orphans, wait, accountWait, lock>>
state == <<req, redis, starting, faults>>
vars  == <<state, setting>>

(* Labels at which a request has a user slot, an account slot.             *)
HoldsUser == {"decWait", "billing", "select", "hydrate", "accountWait", "accountSlot",
              "accountDec", "accountExit", "queue", "forward", "return"}

HoldsAccount == {"hydrate", "accountDec", "queue", "forward"}

Labels == HoldsUser \cup {"new", "userSlot", "exitDec", "done"}

Request ==
    [pc : Labels,
     connected : BOOLEAN,        \* whether its context is alive
     counted : BOOLEAN,          \* waitCounted, accountWaitCounted
     account : Accounts \cup {None},
     failed : SUBSET Accounts,   \* FailedAccountIDs
     switches : 0 .. setting.switches,
     retries : [Accounts -> 0 .. setting.retries],
     busy : BOOLEAN,             \* whether LastFailoverErr was a 503
     locked : BOOLEAN,           \* whether it has a queueRelease to call
     lost : SUBSET {"user", "account", "lock"}]   \* what was removed under it

(* slotPatterns and waitPatterns of CleanupStaleProcessSlots               *)
Patterns == {"account", "user", "accountWait", "wait"}

TypeOK ==
    /\ req \in [Requests -> Request]
    /\ userSlots \in [Users -> SUBSET Requests]
    /\ slots \in [Accounts -> SUBSET Requests]
    /\ userOrphans \in [Users -> Nat] /\ orphans \in [Accounts -> Nat]
    /\ wait \in [Users -> Nat] /\ accountWait \in [Accounts -> Nat]
    /\ lock \in [Accounts -> Requests \cup {None, Orphan}]
    /\ setting \in Settings
    /\ starting \in [Processes -> SUBSET Patterns]
    /\ faults \in 0 .. MaxFaults

(* A request at a label, with nothing acquired and nothing remembered.     *)
Blank(label, alive) ==
    [pc |-> label, connected |-> alive, counted |-> FALSE, account |-> None,
     failed |-> {}, switches |-> 0, retries |-> [a \in Accounts |-> 0],
     busy |-> FALSE, locked |-> FALSE, lost |-> {}]

Init ==
    /\ req = [r \in Requests |-> Blank("new", TRUE)]
    /\ userSlots = [u \in Users |-> {}] /\ userOrphans = [u \in Users |-> 0]
    /\ slots = [a \in Accounts |-> {}] /\ orphans = [a \in Accounts |-> 0]
    /\ wait = [u \in Users |-> 0] /\ accountWait = [a \in Accounts |-> 0]
    /\ lock = [a \in Accounts |-> None]
    /\ setting \in Settings
    /\ starting = [p \in Processes |-> IF p \in setting.joining THEN Patterns ELSE {}]
    /\ faults = 0

-----------------------------------------------------------------------------
Fault == faults < MaxFaults /\ faults' = faults + 1

NoFault == UNCHANGED faults

(* A Redis call with the request's context fails when Redis does, and for  *)
(* certain once the client is gone.                                        *)
CallFails(r) == IF req[r].connected THEN Fault ELSE NoFault

At(r, label) == req[r].pc = label /\ starting[ProcessOf[r]] = {}

(* A request that has ended remembers nothing.                             *)
End(r) == req' = [req EXCEPT ![r] = Blank("done", @.connected)]

(* It gives up or is answered, with its user slot still to be released.    *)
Leaving(r) == [Blank("return", req[r].connected) EXCEPT !.lost = req[r].lost \cap {"user"}]

Leave(r) == req' = [req EXCEPT ![r] = Leaving(r)]

Goto(r, label) == req' = [req EXCEPT ![r].pc = label]

(* decrementWaitScript                                                     *)
Decrement(n) == IF n > 0 THEN n - 1 ELSE 0

(* Variant: the script compares with <=.                                   *)
RoomOneMore(holders, others, limit) == Cardinality(holders) + others <= limit

(* acquireScript: slots older than the TTL do not count.                   *)
Room(holders, others, limit) == Cardinality(holders) + others < limit

UserRoom(r) == Room(userSlots[UserOf[r]], userOrphans[UserOf[r]], setting.userLimit)

AccountRoom(a) == Room(slots[a], orphans[a], setting.accountLimit)

-----------------------------------------------------------------------------
(* The user's queue and slot.                                              *)

(* IncrementWaitCount answers a failed call with true, so that the request *)
(* takes itself for counted.                                               *)
IncrementWaitCount(r) ==
    LET u == UserOf[r]
    IN  /\ At(r, "new")
        /\ \/ /\ req[r].connected /\ wait[u] < MaxWait
              /\ wait' = [wait EXCEPT ![u] = @ + 1]
              /\ req' = [req EXCEPT ![r].pc = "userSlot", ![r].counted = TRUE]
              /\ NoFault
           \/ /\ req[r].connected /\ wait[u] >= MaxWait
              /\ End(r) /\ UNCHANGED wait /\ NoFault
           \/ /\ req' = [req EXCEPT ![r].pc = "userSlot", ![r].counted = TRUE]
              /\ wait' \in {wait, [wait EXCEPT ![u] = @ + 1]}
              /\ req[r].connected \/ wait' = wait
              /\ CallFails(r)
        /\ UNCHANGED <<userSlots, userOrphans, slots, orphans, accountWait, lock, starting>>

(* One try of AcquireUserSlotWithWait; a call that fails after it was      *)
(* carried out leaves an orphan.                                           *)
AcquireUserSlot(r) ==
    LET u == UserOf[r]
    IN  /\ At(r, "userSlot")
        /\ \/ /\ req[r].connected /\ UserRoom(r)
              /\ userSlots' = [userSlots EXCEPT ![u] = @ \cup {r}]
              /\ Goto(r, "decWait") /\ UNCHANGED userOrphans /\ NoFault
           \/ /\ ~req[r].connected \/ ~UserRoom(r)
              /\ Goto(r, "exitDec") /\ UNCHANGED <<userSlots, userOrphans>> /\ NoFault
           \/ /\ req[r].connected /\ Goto(r, "exitDec")
              /\ userOrphans' \in {userOrphans} \cup
                    {o \in {[userOrphans EXCEPT ![u] = @ + 1]} : UserRoom(r)}
              /\ UNCHANGED userSlots /\ Fault
        /\ UNCHANGED <<slots, orphans, wait, accountWait, lock, starting>>

(* DecrementWaitCount, with a context of its own.                          *)
DecrementWaitCount(r) ==
    /\ \/ wait' = [wait EXCEPT ![UserOf[r]] = Decrement(@)] /\ NoFault
       \/ UNCHANGED wait /\ Fault
    /\ UNCHANGED <<accountWait, lock, starting>>

(* The user slot is held.                                                  *)
DecWait(r) ==
    /\ At(r, "decWait")
    /\ DecrementWaitCount(r)
    /\ req' = [req EXCEPT ![r].pc = "billing", ![r].counted = FALSE]
    /\ UNCHANGED <<userSlots, userOrphans, slots, orphans>>

(* Variant: a request that gives up leaves its count behind.               *)
ExitDecKeepsCount(r) ==
    /\ At(r, "exitDec")
    /\ UNCHANGED wait /\ NoFault
    /\ End(r)
    /\ UNCHANGED <<userSlots, userOrphans, slots, orphans, accountWait, lock, starting>>

(* The wait for the slot failed or timed out: the deferred decrement.      *)
ExitDec(r) ==
    /\ At(r, "exitDec")
    /\ DecrementWaitCount(r)
    /\ End(r)
    /\ UNCHANGED <<userSlots, userOrphans, slots, orphans>>

(* CheckBillingEligibility                                                 *)
CheckBilling(r) ==
    /\ At(r, "billing")
    /\ Goto(r, "select") \/ Leave(r)
    /\ UNCHANGED <<redis, starting, faults>>

(* ReleaseUserSlot, with a context of its own; one that fails leaves an    *)
(* orphan.                                                                 *)
ReleaseUserSlot(r) ==
    LET u == UserOf[r]
    IN  /\ userSlots' = [userSlots EXCEPT ![u] = @ \ {r}]
        /\ \/ UNCHANGED userOrphans /\ NoFault
           \/ r \in userSlots[u] /\ userOrphans' = [userOrphans EXCEPT ![u] = @ + 1] /\ Fault
        /\ UNCHANGED <<slots, orphans, wait, accountWait, lock, starting>>

(* The deferred userReleaseFunc.                                           *)
Return(r) == At(r, "return") /\ End(r) /\ ReleaseUserSlot(r)

-----------------------------------------------------------------------------
(* SelectAccountWithLoadAwareness                                          *)

Candidates(r) == setting.schedulable \ req[r].failed

(* HandleSelectionExhausted: after a 503 the excluded accounts get another *)
(* chance.                                                                 *)
SelectionExhausted(r) ==
    IF req[r].failed # {} /\ req[r].busy /\ req[r].connected
    THEN req' = [req EXCEPT ![r].pc = "select", ![r].account = None, ![r].failed = {}]
    ELSE Leave(r)

(* tryAcquireAccountSlot of a candidate gets a slot.                       *)
SelectAcquired(r, a) ==
    /\ At(r, "select") /\ req[r].connected
    /\ a \in Candidates(r) /\ AccountRoom(a)
    /\ slots' = [slots EXCEPT ![a] = @ \cup {r}]
    /\ req' = [req EXCEPT ![r].pc = "hydrate", ![r].account = a, ![r].lost = @ \ {"account"}]
    /\ UNCHANGED <<userSlots, userOrphans, orphans, wait, accountWait, lock, starting, faults>>

(* The call fails, perhaps after it was carried out, which leaves an       *)
(* orphan: the selection goes on to other candidates, or plans to wait.    *)
SelectFails(r, a) ==
    /\ At(r, "select") /\ req[r].connected
    /\ a \in Candidates(r)
    /\ orphans' \in {orphans} \cup {o \in {[orphans EXCEPT ![a] = @ + 1]} : AccountRoom(a)}
    /\ \/ UNCHANGED req
       \/ req' = [req EXCEPT ![r].pc = "accountWait", ![r].account = a]
    /\ Fault
    /\ UNCHANGED <<userSlots, userOrphans, slots, wait, accountWait, lock, starting>>

(* A wait plan for a candidate that was loaded when its load was read,     *)
(* which it need not be any more.                                          *)
SelectWait(r, a) ==
    /\ At(r, "select")
    /\ a \in Candidates(r)
    /\ req' = [req EXCEPT ![r].pc = "accountWait", ![r].account = a]
    /\ UNCHANGED <<redis, starting, faults>>

(* No candidate is left, or none is schedulable at the moment.             *)
SelectNone(r) ==
    /\ At(r, "select")
    /\ SelectionExhausted(r)
    /\ UNCHANGED <<redis, starting, faults>>

(* Variant: the release uses the context of the request.                   *)
ReleaseSlotIfConnected(r) ==
    /\ slots' = IF req[r].connected THEN [slots EXCEPT ![req[r].account] = @ \ {r}] ELSE slots
    /\ UNCHANGED orphans /\ NoFault

(* ReleaseAccountSlot, likewise.                                           *)
ReleaseSlot(r) ==
    LET a == req[r].account
    IN  /\ slots' = [slots EXCEPT ![a] = @ \ {r}]
        /\ \/ UNCHANGED orphans /\ NoFault
           \/ r \in slots[a] /\ orphans' = [orphans EXCEPT ![a] = @ + 1] /\ Fault

(* newSelectionResult reads the account again; when that fails the slot    *)
(* acquired for it is not released.  An intercepted request is answered    *)
(* without the account.                                                    *)
Hydrate(r) ==
    LET a == req[r].account
    IN  /\ At(r, "hydrate")
        /\ \/ Goto(r, "queue") /\ NoFault /\ UNCHANGED <<slots, orphans>>
           \/ Leave(r) /\ ReleaseSlot(r)
           \/ /\ CallFails(r)
              /\ SelectionExhausted(r)
              /\ slots' = [slots EXCEPT ![a] = @ \ {r}]
              /\ orphans' = [orphans EXCEPT ![a] = IF r \in slots[a] THEN @ + 1 ELSE @]
        /\ UNCHANGED <<userSlots, userOrphans, wait, accountWait, lock, starting>>

-----------------------------------------------------------------------------
(* The account's queue and slot, and the serial lock.                      *)

IncrementAccountWaitCount(r) ==
    LET a == req[r].account
    IN  /\ At(r, "accountWait")
        /\ \/ /\ req[r].connected /\ accountWait[a] < MaxWaiting
              /\ accountWait' = [accountWait EXCEPT ![a] = @ + 1]
              /\ req' = [req EXCEPT ![r].pc = "accountSlot", ![r].counted = TRUE]
              /\ NoFault
           \/ /\ req[r].connected /\ accountWait[a] >= MaxWaiting
              /\ Leave(r) /\ UNCHANGED accountWait /\ NoFault
           \/ /\ req' = [req EXCEPT ![r].pc = "accountSlot", ![r].counted = TRUE]
              /\ accountWait' \in {accountWait, [accountWait EXCEPT ![a] = @ + 1]}
              /\ req[r].connected \/ accountWait' = accountWait
              /\ CallFails(r)
        /\ UNCHANGED <<userSlots, userOrphans, slots, orphans, wait, lock, starting>>

(* One try of AcquireAccountSlotWithWaitTimeout, or its end.               *)
AcquireAccountSlot(r) ==
    LET a == req[r].account
    IN  /\ At(r, "accountSlot")
        /\ \/ /\ req[r].connected /\ AccountRoom(a)
              /\ slots' = [slots EXCEPT ![a] = @ \cup {r}]
              /\ req' = [req EXCEPT ![r].pc = "accountDec", ![r].lost = @ \ {"account"}]
              /\ UNCHANGED orphans /\ NoFault
           \/ /\ ~req[r].connected \/ ~AccountRoom(a)
              /\ Goto(r, "accountExit") /\ UNCHANGED <<slots, orphans>> /\ NoFault
           \/ /\ req[r].connected /\ Goto(r, "accountExit")
              /\ orphans' \in {orphans} \cup
                    {o \in {[orphans EXCEPT ![a] = @ + 1]} : AccountRoom(a)}
              /\ UNCHANGED slots /\ Fault
        /\ UNCHANGED <<userSlots, userOrphans, wait, accountWait, lock, starting>>

DecrementAccountWaitCount(r) ==
    /\ \/ accountWait' = [accountWait EXCEPT ![req[r].account] = Decrement(@)] /\ NoFault
       \/ UNCHANGED accountWait /\ Fault
    /\ UNCHANGED <<userSlots, userOrphans, slots, orphans, wait, lock, starting>>

(* releaseWait, once the slot is held or given up.                         *)
AccountDec(r) ==
    /\ At(r, "accountDec") \/ At(r, "accountExit")
    /\ DecrementAccountWaitCount(r)
    /\ IF req[r].pc = "accountExit" THEN Leave(r)
       ELSE req' = [req EXCEPT ![r].pc = "queue", ![r].counted = FALSE]

(* AcquireWithWait: a wait that times out, and a call that fails, let the  *)
(* request pass without the lock.                                          *)
AcquireLock(r) ==
    LET a == req[r].account
    IN  /\ At(r, "queue")
        /\ \/ /\ req[r].connected /\ lock[a] = None
              /\ lock' = [lock EXCEPT ![a] = r]
              /\ req' = [req EXCEPT ![r].pc = "forward", ![r].locked = TRUE,
                                    ![r].lost = @ \ {"lock"}]
              /\ NoFault
           \/ /\ ~req[r].connected \/ lock[a] # None
              /\ Goto(r, "forward") /\ UNCHANGED lock /\ NoFault
           \/ /\ req[r].connected /\ Goto(r, "forward")
              /\ lock' \in {lock} \cup {l \in {[lock EXCEPT ![a] = Orphan]} : lock[a] = None}
              /\ Fault
        /\ UNCHANGED <<userSlots, userOrphans, slots, orphans, wait, accountWait, starting>>

(* Variant: the script does not compare the owner.                         *)
UnlockedAlways(r) == IF req[r].locked THEN [lock EXCEPT ![req[r].account] = None] ELSE lock

(* releaseLockScript deletes the lock of its own request only.             *)
Unlocked(r) ==
    IF req[r].locked /\ lock[req[r].account] = r
    THEN [lock EXCEPT ![req[r].account] = None]
    ELSE lock

(* queueRelease, called when upstream accepts the request                  *)
(* (OnUpstreamAccepted), when Forward has returned, or when the client has *)
(* gone; one that fails leaves the lock to its TTL.                        *)
QueueRelease(r) ==
    /\ At(r, "forward") /\ req[r].locked
    /\ req' = [req EXCEPT ![r].locked = FALSE]
    /\ \/ lock' = Unlocked(r) /\ NoFault
       \/ lock[req[r].account] = r /\ lock' = [lock EXCEPT ![req[r].account] = Orphan] /\ Fault
    /\ UNCHANGED <<userSlots, userOrphans, slots, orphans, wait, accountWait, starting>>

-----------------------------------------------------------------------------
(* The end of Forward and the failover loop.                               *)

(* The account slot and the lock are given back, the error remembered.     *)
Failed(r, unavailable) ==
    [req[r] EXCEPT !.pc = "select", !.account = None, !.locked = FALSE,
                   !.busy = unavailable,
                   !.lost = @ \ {"account", "lock"}]

(* Variant: switches are not counted.                                      *)
AfterFailoverUncounted(r, retryable, unavailable) ==
    req' = [req EXCEPT ![r] = [Failed(r, unavailable) EXCEPT !.failed = @ \cup {req[r].account}]]

(* HandleFailoverError: the same account again while the error allows it,  *)
(* then another one, up to setting.switches times.                              *)
AfterFailover(r, retryable, unavailable) ==
    LET a     == req[r].account
        again == retryable /\ req[r].retries[a] < setting.retries
    IN  \/ /\ again /\ req[r].connected
           /\ req' = [req EXCEPT ![r] = [Failed(r, unavailable) EXCEPT !.retries[a] = @ + 1]]
        \/ /\ ~again /\ req[r].switches < setting.switches
           /\ req' = [req EXCEPT ![r] = [Failed(r, unavailable) EXCEPT !.failed = @ \cup {a},
                                                                       !.switches = @ + 1]]
        \/ /\ IF again THEN ~req[r].connected ELSE req[r].switches = setting.switches
           /\ Leave(r)

(* Forward has returned and the lock is released; the account slot is      *)
(* released, then the answer is sent or another account tried.             *)
ForwardEnds(r) ==
    /\ At(r, "forward") /\ ~req[r].locked
    /\ \/ Leave(r)
       \/ \E retryable, unavailable \in BOOLEAN :
             /\ retryable => setting.retries > 0
             /\ AfterFailover(r, retryable, unavailable)
    /\ ReleaseSlot(r)
    /\ UNCHANGED <<userSlots, userOrphans, wait, accountWait, lock, starting>>

-----------------------------------------------------------------------------
(* The environment.                                                        *)

(* The client goes away: wrapReleaseOnDone gives its user slot back, and   *)
(* its account slot, also under an upstream call that is still being read. *)
Disconnect(r) ==
    LET u == UserOf[r]
        a == req[r].account
    IN  /\ req[r].connected /\ ~At(r, "done") /\ starting[ProcessOf[r]] = {}
        /\ req' = [req EXCEPT ![r].connected = FALSE, ![r].lost = @ \cap {"lock"}]
        /\ userSlots' = IF req[r].pc \in HoldsUser \ {"decWait"}
                        THEN [userSlots EXCEPT ![u] = @ \ {r}] ELSE userSlots
        /\ slots' = IF req[r].pc \in {"queue", "forward"}
                    THEN [slots EXCEPT ![a] = @ \ {r}] ELSE slots
        /\ \/ UNCHANGED <<userOrphans, orphans>> /\ NoFault
           \/ /\ r \in userSlots[u] \ userSlots'[u]
              /\ userOrphans' = [userOrphans EXCEPT ![u] = @ + 1]
              /\ UNCHANGED orphans /\ Fault
           \/ /\ a # None /\ r \in slots[a] \ slots'[a]
              /\ orphans' = [orphans EXCEPT ![a] = @ + 1]
              /\ UNCHANGED userOrphans /\ Fault
        /\ UNCHANGED <<wait, accountWait, lock, starting>>

(* A slot acquired for a client that has gone meanwhile is given back as   *)
(* soon as wrapReleaseOnDone gets it.                                      *)
AlreadyDone(r) ==
    /\ ~req[r].connected
    /\ \/ /\ req[r].pc \in HoldsUser \ {"decWait"} /\ r \in userSlots[UserOf[r]]
          /\ ReleaseUserSlot(r)
       \/ /\ req[r].pc \in {"queue", "forward"} /\ r \in slots[req[r].account]
          /\ ReleaseSlot(r)
          /\ UNCHANGED <<userSlots, userOrphans, wait, accountWait, lock, starting>>
    /\ UNCHANGED req

Lose(r, what) == req' = [req EXCEPT ![r].lost = @ \cup {what}]

(* Slots and locks that are older than their TTL.  One that expires under  *)
(* a request that outlives it counts as a failure.                         *)
ExpireUserSlot(u) ==
    /\ \/ /\ userOrphans[u] > 0
          /\ userOrphans' = [userOrphans EXCEPT ![u] = @ - 1]
          /\ UNCHANGED <<req, userSlots>> /\ NoFault
       \/ \E r \in userSlots[u] :
             /\ userSlots' = [userSlots EXCEPT ![u] = @ \ {r}]
             /\ Lose(r, "user") /\ UNCHANGED userOrphans /\ Fault
    /\ UNCHANGED <<slots, orphans, wait, accountWait, lock, starting>>

ExpireSlot(a) ==
    /\ \/ /\ orphans[a] > 0
          /\ orphans' = [orphans EXCEPT ![a] = @ - 1]
          /\ UNCHANGED <<req, slots>> /\ NoFault
       \/ \E r \in slots[a] :
             /\ slots' = [slots EXCEPT ![a] = @ \ {r}]
             /\ Lose(r, "account") /\ UNCHANGED orphans /\ Fault
    /\ UNCHANGED <<userSlots, userOrphans, wait, accountWait, lock, starting>>

ExpireLock(a) ==
    /\ lock[a] # None
    /\ lock' = [lock EXCEPT ![a] = None]
    /\ IF lock[a] = Orphan THEN UNCHANGED req /\ NoFault ELSE Lose(lock[a], "lock") /\ Fault
    /\ UNCHANGED <<userSlots, userOrphans, slots, orphans, wait, accountWait, starting>>

(* A counter that nobody increments for its TTL, longer than any wait.     *)
ExpireCounters ==
    /\ \A r \in Requests : ~req[r].counted
    /\ wait' = [u \in Users |-> 0] /\ accountWait' = [a \in Accounts |-> 0]
    /\ UNCHANGED <<req, userSlots, userOrphans, slots, orphans, lock, starting, faults>>

Serving(p) == {r \in Requests : ProcessOf[r] = p /\ req[r].pc \notin {"new", "done"}}

(* A process ends: nobody releases what its requests hold.                 *)
Crash(p) ==
    /\ starting[p] = {} /\ Serving(p) # {}
    /\ Fault
    /\ starting' = [starting EXCEPT ![p] = Patterns]
    /\ req' = [r \in Requests |->
                 IF r \in Serving(p) THEN Blank("done", req[r].connected) ELSE req[r]]
    /\ userOrphans' = [u \in Users |-> userOrphans[u] + Cardinality(userSlots[u] \cap Serving(p))]
    /\ userSlots' = [u \in Users |-> userSlots[u] \ Serving(p)]
    /\ orphans' = [a \in Accounts |-> orphans[a] + Cardinality(slots[a] \cap Serving(p))]
    /\ slots' = [a \in Accounts |-> slots[a] \ Serving(p)]
    /\ lock' = [a \in Accounts |-> IF lock[a] \in Serving(p) THEN Orphan ELSE lock[a]]
    /\ UNCHANGED <<wait, accountWait>>

(* CleanupStaleProcessSlots of a process that starts, one kind of keys     *)
(* after the other: every slot that is not its own is removed, those of    *)
(* other live processes too, ...                                           *)
CleanupSlots(p) ==
    /\ \/ /\ starting[p] = Patterns
          /\ starting' = [starting EXCEPT ![p] = @ \ {"account"}]
          /\ req' = [r \in Requests |->
                        IF \E a \in Accounts : r \in slots[a]
                        THEN [req[r] EXCEPT !.lost = @ \cup {"account"}] ELSE req[r]]
          /\ slots' = [a \in Accounts |-> {}] /\ orphans' = [a \in Accounts |-> 0]
          /\ UNCHANGED <<userSlots, userOrphans>>
       \/ /\ starting[p] = Patterns \ {"account"}
          /\ starting' = [starting EXCEPT ![p] = @ \ {"user"}]
          /\ req' = [r \in Requests |->
                        IF \E u \in Users : r \in userSlots[u]
                        THEN [req[r] EXCEPT !.lost = @ \cup {"user"}] ELSE req[r]]
          /\ userSlots' = [u \in Users |-> {}] /\ userOrphans' = [u \in Users |-> 0]
          /\ UNCHANGED <<slots, orphans>>
    /\ UNCHANGED <<wait, accountWait, lock, faults>>

(* ... and every counter is deleted.                                       *)
CleanupCounters(p) ==
    /\ \/ /\ starting[p] = {"accountWait", "wait"}
          /\ starting' = [starting EXCEPT ![p] = {"wait"}]
          /\ accountWait' = [a \in Accounts |-> 0] /\ UNCHANGED wait
       \/ /\ starting[p] = {"wait"}
          /\ starting' = [starting EXCEPT ![p] = {}]
          /\ wait' = [u \in Users |-> 0] /\ UNCHANGED accountWait
    /\ UNCHANGED <<req, userSlots, userOrphans, slots, orphans, lock, faults>>

(* A failure ends the cleanup; the process starts all the same.            *)
CleanupFails(p) ==
    /\ starting[p] # {} /\ Fault
    /\ starting' = [starting EXCEPT ![p] = {}]
    /\ UNCHANGED <<req, redis>>

Startup(p) == CleanupSlots(p) \/ CleanupCounters(p) \/ CleanupFails(p)

-----------------------------------------------------------------------------
Step(r) ==
    \/ IncrementWaitCount(r) \/ AcquireUserSlot(r) \/ DecWait(r) \/ ExitDec(r)
    \/ CheckBilling(r) \/ Return(r)
    \/ \E a \in Accounts : SelectAcquired(r, a) \/ SelectWait(r, a)
    \/ SelectNone(r) \/ Hydrate(r)
    \/ IncrementAccountWaitCount(r) \/ AcquireAccountSlot(r) \/ AccountDec(r)
    \/ AcquireLock(r) \/ QueueRelease(r) \/ ForwardEnds(r)

Expire ==
    \/ \E u \in Users : ExpireUserSlot(u)
    \/ \E a \in Accounts : ExpireSlot(a) \/ ExpireLock(a)
    \/ ExpireCounters

Next ==
    /\ \/ \E r \in Requests : Step(r) \/ Disconnect(r) \/ AlreadyDone(r)
       \/ \E r \in Requests, a \in Accounts : SelectFails(r, a)
       \/ Expire
       \/ \E p \in Processes : Crash(p) \/ Startup(p)
    /\ UNCHANGED setting

Spec == Init /\ [][Next]_vars

(* Every goroutine proceeds (waits have timeouts, upstream calls end), a   *)
(* process that ended is started again, and what is old enough expires.    *)
Fairness ==
    /\ \A r \in Requests : WF_state(Step(r))
    /\ \A p \in Processes : WF_state(Startup(p))
    /\ WF_state(Expire)

FairSpec == Spec /\ Fairness

-----------------------------------------------------------------------------
(* The requests that run on an account, or for a user, whether their       *)
(* client is still there or not ...                                        *)
Running(a) == {r \in Requests : req[r].account = a /\ req[r].pc \in HoldsAccount}

RunningFor(u) == {r \in Requests : UserOf[r] = u /\ req[r].pc \in HoldsUser}

(* ... and those among them that run without the slot they once had: it    *)
(* was given back when their client left, it is older than its TTL, or a   *)
(* starting process removed it.                                            *)
Uncovered(what) == {r \in Requests : ~req[r].connected \/ what \in req[r].lost}

(* Every request that runs on an account, or for a user, beyond its limit  *)
(* is accounted for by one that lost its slot in one of these three ways:  *)
(* over all processes, failovers, failed scripts and crashes nothing else  *)
(* lets one in too many.  While nobody lost a slot the limits are kept.    *)
WithinLimits ==
    /\ \A a \in Accounts : Cardinality(Running(a)) <=
          setting.accountLimit + Cardinality(Running(a) \cap Uncovered("account"))
    /\ \A u \in Users : Cardinality(RunningFor(u)) <=
          setting.userLimit + Cardinality(RunningFor(u) \cap Uncovered("user"))

(* A request that got the serial lock of its account is alone with it      *)
(* until upstream accepts it, unless the lock outlived its TTL: no other   *)
(* request releases it.                                                    *)
SerialLockExclusive ==
    \A a \in Accounts :
        Cardinality({r \in Requests : /\ req[r].account = a /\ req[r].pc = "forward"
                                      /\ req[r].locked /\ "lock" \notin req[r].lost}) <= 1

(* What wrapReleaseOnDone is for: without a failed call or a crash the     *)
(* slots that reach the handler are given back by the request that got     *)
(* them, whichever way it ends and whenever its client leaves.  No user    *)
(* slot is ever left behind, and an account slot is entered only for a     *)
(* request that still uses the account.  The slot that newSelectionResult  *)
(* drops before the handler gets it is an orphan and not among these.      *)
HandedSlotsReturn ==
    faults = 0 =>
        /\ \A u \in Users : userOrphans[u] = 0
                            /\ \A r \in userSlots[u] : req[r].pc \in HoldsUser
        /\ \A a \in Accounts : \A r \in slots[a] : req[r].pc \in HoldsAccount
                                                    /\ req[r].account = a

Counted(labels) == {r \in Requests : req[r].counted /\ req[r].pc \in labels}

(* Without a failed call or a crash the queue counters never exceed the    *)
(* number of requests that wait, so that no user is turned away for        *)
(* requests that are gone.  (They may fall short: a request whose client   *)
(* left takes itself for counted.)                                         *)
CountersDoNotLeak ==
    faults = 0 =>
        /\ \A u \in Users : wait[u] <= Cardinality({r \in Counted({"userSlot", "exitDec", "decWait"}) :
                                                       UserOf[r] = u})
        /\ \A a \in Accounts : accountWait[a] <=
               Cardinality({r \in Counted({"accountSlot", "accountDec", "accountExit"}) :
                               req[r].account = a})

(* Every request ends, since no wait is for ever and the failover loop runs *)
(* out of switches and retries; and whatever was leaked on the way, every   *)
(* slot and every lock is free again in the end.                            *)
DrainsInTheEnd ==
    <>[](/\ \A r \in Requests : req[r].pc = "done"
         /\ \A u \in Users : userSlots[u] = {} /\ userOrphans[u] = 0
         /\ \A a \in Accounts : slots[a] = {} /\ orphans[a] = 0 /\ lock[a] = None)

=============================================================================
