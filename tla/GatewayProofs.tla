---------------------------- MODULE GatewayProofs ----------------------------
(***************************************************************************)
(* Proofs about Gateway, for any requests, users, accounts, processes,     *)
(* limits and numbers of failures: concurrency stays within the limits,    *)
(* the serial lock excludes, and without a failure neither slots nor queue *)
(* counters are left behind.                                               *)
(***************************************************************************)
EXTENDS Gateway, FiniteSetTheorems, TLAPS

(* Labels at which a request has chosen an account.                        *)
Assigned == HoldsAccount \cup {"accountWait", "accountSlot", "accountExit"}

AccountChosen(r) == req[r].pc \in Assigned => req[r].account \in Accounts

(* A request that uses an account or works for its user has a slot there.  *)
HasSlot(r) ==
    req[r].pc \in HoldsAccount /\ req[r].connected /\ "account" \notin req[r].lost
        => r \in slots[req[r].account]

HasUserSlot(r) ==
    req[r].pc \in HoldsUser /\ req[r].connected /\ "user" \notin req[r].lost
        => r \in userSlots[UserOf[r]]

(* queueRelease is there while upstream is called, and the lock with it.   *)
HasLock(r) ==
    req[r].locked => /\ req[r].pc = "forward"
                     /\ "lock" \notin req[r].lost => lock[req[r].account] = r

(* Without a failure a request has no other slots.                         *)
NoStraySlot(r) ==
    faults = 0 =>
        /\ \A a \in Accounts : r \in slots[a] => req[r].pc \in HoldsAccount /\ req[r].account = a
        /\ \A u \in Users : r \in userSlots[u] => req[r].pc \in HoldsUser /\ UserOf[r] = u

Sound(r) == AccountChosen(r) /\ HasSlot(r) /\ HasUserSlot(r) /\ HasLock(r) /\ NoStraySlot(r)

(* Slots and orphans together stay within the limits.                      *)
Fits(holders, others, limit) == Cardinality(holders) + others <= limit

AccountsFit == \A a \in Accounts : Fits(slots[a], orphans[a], setting.accountLimit)

UsersFit == \A u \in Users : Fits(userSlots[u], userOrphans[u], setting.userLimit)

(* Only failures make orphans of user slots.                               *)
NoUserOrphan == faults = 0 => \A u \in Users : userOrphans[u] = 0

GatewayInv ==
    /\ TypeOK
    /\ \A r \in Requests : Sound(r)
    /\ AccountsFit /\ UsersFit /\ NoUserOrphan
    /\ CountersDoNotLeak

-----------------------------------------------------------------------------
(* Counting                                                                *)

(* A slot that is acquired, by a request or as an orphan, finds room.      *)
LEMMA SlotAdded ==
  ASSUME NEW S, NEW n \in Nat, NEW limit \in Nat, NEW x, IsFiniteSet(S), Room(S, n, limit)
  PROVE  Fits(S \cup {x}, n, limit) /\ Fits(S, n + 1, limit)
<1>1. Cardinality(S) \in Nat /\ Cardinality(S) + n < limit
  BY FS_CardinalityType DEF Room
<1>2. Cardinality(S \cup {x}) \in {Cardinality(S), Cardinality(S) + 1}
  BY FS_AddElement
<1>3. QED
  BY <1>1, <1>2 DEF Fits

(* One that is released makes room, for an orphan at least.                *)
LEMMA SlotRemoved ==
  ASSUME NEW S, NEW n \in Nat, NEW limit \in Nat, NEW x, IsFiniteSet(S), Fits(S, n, limit)
  PROVE  Fits(S \ {x}, n, limit) /\ (x \in S => Fits(S \ {x}, n + 1, limit))
<1>1. Cardinality(S) \in Nat /\ Cardinality(S) + n <= limit
  BY FS_CardinalityType DEF Fits
<1>2. Cardinality(S \ {x}) = IF x \in S THEN Cardinality(S) - 1 ELSE Cardinality(S)
  BY FS_RemoveElement
<1>3. QED
  BY <1>1, <1>2 DEF Fits

(* Those that become orphans together are as many as before.               *)
LEMMA SlotsOrphaned ==
  ASSUME NEW S, NEW n \in Nat, NEW limit \in Nat, NEW T, IsFiniteSet(S), Fits(S, n, limit)
  PROVE  /\ Fits(S \ T, n + Cardinality(S \cap T), limit)
         /\ n + Cardinality(S \cap T) \in Nat
<1>1. Cardinality(S) \in Nat /\ Cardinality(S) + n <= limit
  BY FS_CardinalityType DEF Fits
<1>2. IsFiniteSet(S \cap T)
  BY FS_Intersection
<1>3. Cardinality(S \cap T) \in Nat
  BY <1>2, FS_CardinalityType
<1>4. Cardinality(S \ T) = Cardinality(S) - Cardinality(S \cap T)
  BY FS_Difference
<1>5. QED
  BY <1>1, <1>3, <1>4 DEF Fits

(* A queue and its counter: a request that joins is counted or not, one    *)
(* that leaves is discounted, and nobody else moves.                       *)
LEMMA QueueCounts ==
  ASSUME NEW S, NEW T, NEW x, NEW n \in Nat, NEW m \in Nat, IsFiniteSet(S), IsFiniteSet(T),
         n <= Cardinality(S), S \ {x} \subseteq T,
         \/ m <= n /\ S \subseteq T
         \/ m <= n + 1 /\ x \notin S /\ x \in T
         \/ m = Decrement(n)
  PROVE  m <= Cardinality(T)
<1>1. Cardinality(S) \in Nat /\ Cardinality(T) \in Nat
  BY FS_CardinalityType
<1>2. CASE m <= n /\ S \subseteq T
  BY <1>1, <1>2, FS_Subset
<1>3. CASE m <= n + 1 /\ x \notin S /\ x \in T
  <2>1. S \cup {x} \subseteq T
    BY <1>3
  <2>2. Cardinality(S \cup {x}) = Cardinality(S) + 1
    BY <1>3, FS_AddElement
  <2>3. Cardinality(S \cup {x}) <= Cardinality(T)
    BY <2>1, FS_Subset
  <2>4. QED
    BY <1>1, <1>3, <2>2, <2>3
<1>4. CASE m = Decrement(n)
  <2>1. Cardinality(S \ {x}) \in {Cardinality(S), Cardinality(S) - 1}
    BY FS_RemoveElement
  <2>2. Cardinality(S \ {x}) <= Cardinality(T)
    BY FS_Subset
  <2>3. QED
    BY <1>1, <1>4, <2>1, <2>2 DEF Decrement
<1>5. QED
  BY <1>2, <1>3, <1>4

-----------------------------------------------------------------------------
(* The records of the requests                                             *)

(* A step changes the record of its request only.                          *)
Only(r) ==
    /\ req' \in [Requests -> Request]
    /\ \A q \in Requests \ {r} : req'[q] = req[q]

(* What it leaves there.                                                   *)
Moves(r, label, counted, account, locked, lost) ==
    /\ Only(r)
    /\ req'[r].pc = label /\ req'[r].connected = req[r].connected
    /\ req'[r].counted = counted /\ req'[r].account = account
    /\ req'[r].locked = locked /\ req'[r].lost = lost

Resources == {"user", "account", "lock"}

(* The fields of the record of a request.                                  *)
LEMMA RequestType ==
  ASSUME req \in [Requests -> Request], NEW r \in Requests
  PROVE  /\ req[r] \in Request
         /\ req[r].pc \in Labels /\ req[r].connected \in BOOLEAN /\ req[r].counted \in BOOLEAN
         /\ req[r].account \in Accounts \cup {None}
         /\ req[r].failed \in SUBSET Accounts /\ req[r].switches \in 0 .. setting.switches
         /\ req[r].retries \in [Accounts -> 0 .. setting.retries]
         /\ req[r].busy \in BOOLEAN /\ req[r].locked \in BOOLEAN
         /\ req[r].lost \in SUBSET Resources
BY DEF Request, Resources

(* Goto changes the label only.                                            *)
LEMMA GotoMoves ==
  ASSUME req \in [Requests -> Request], NEW r \in Requests, NEW l \in Labels, Goto(r, l)
  PROVE  Moves(r, l, req[r].counted, req[r].account, req[r].locked, req[r].lost)
BY DEF Goto, Only, Moves, Request

(* A request that joins a queue or leaves it.                              *)
LEMMA CountMoves ==
  ASSUME req \in [Requests -> Request], NEW r \in Requests, NEW l \in Labels, NEW b \in BOOLEAN,
         req' = [req EXCEPT ![r].pc = l, ![r].counted = b]
  PROVE  Moves(r, l, b, req[r].account, req[r].locked, req[r].lost)
<1> DEFINE c == [req[r] EXCEPT !.pc = l, !.counted = b]
<1>1. c \in Request
  BY DEF Request
<1>2. /\ c.pc = l /\ c.connected = req[r].connected /\ c.counted = b
      /\ c.account = req[r].account /\ c.locked = req[r].locked /\ c.lost = req[r].lost
  BY DEF Request
<1>3. req' = [req EXCEPT ![r] = c]
  OBVIOUS
<1> HIDE DEF c
<1>4. QED
  BY <1>1, <1>2, <1>3 DEF Only, Moves

(* The record of a request that holds nothing.                             *)
LEMMA BlankType ==
  ASSUME NEW l \in Labels, NEW b \in BOOLEAN, setting \in Settings
  PROVE  /\ Blank(l, b) \in Request
         /\ Blank(l, b).pc = l /\ Blank(l, b).connected = b /\ Blank(l, b).counted = FALSE
         /\ Blank(l, b).account = None /\ Blank(l, b).locked = FALSE /\ Blank(l, b).lost = {}
<1>1. 0 \in 0 .. setting.switches /\ 0 \in 0 .. setting.retries
  BY GatewayAssumption
<1>2. [a \in Accounts |-> 0] \in [Accounts -> 0 .. setting.retries]
  BY <1>1
<1>3. QED
  BY <1>1, <1>2 DEF Blank, Request

(* A request that ended holds nothing.                                     *)
LEMMA EndMoves ==
  ASSUME req \in [Requests -> Request], setting \in Settings, NEW r \in Requests, End(r)
  PROVE  Moves(r, "done", FALSE, None, FALSE, {})
<1> DEFINE b == Blank("done", req[r].connected)
<1>1. "done" \in Labels /\ req[r].connected \in BOOLEAN
  BY RequestType DEF Labels
<1>2. /\ b \in Request /\ b.pc = "done" /\ b.connected = req[r].connected /\ b.counted = FALSE
      /\ b.account = None /\ b.locked = FALSE /\ b.lost = {}
  BY <1>1, BlankType
<1>3. req' = [req EXCEPT ![r] = b]
  BY DEF End
<1> HIDE DEF b
<1>4. QED
  BY <1>2, <1>3 DEF Only, Moves

(* A request on its way out has only its user slot to give back.           *)
LEMMA LeaveMoves ==
  ASSUME req \in [Requests -> Request], setting \in Settings, NEW r \in Requests, Leave(r)
  PROVE  Moves(r, "return", FALSE, None, FALSE, req[r].lost \cap {"user"})
<1> DEFINE b == Blank("return", req[r].connected)
           c == Leaving(r)
<1>1. "return" \in Labels /\ req[r].connected \in BOOLEAN
  BY RequestType DEF Labels, HoldsUser
<1>2. /\ b \in Request /\ b.pc = "return" /\ b.connected = req[r].connected /\ b.counted = FALSE
      /\ b.account = None /\ b.locked = FALSE
  BY <1>1, BlankType
<1>3. c = [b EXCEPT !.lost = req[r].lost \cap {"user"}]
  BY DEF Leaving
<1> HIDE DEF b
<1>4. /\ c \in Request /\ c.pc = "return" /\ c.connected = req[r].connected /\ c.counted = FALSE
      /\ c.account = None /\ c.locked = FALSE /\ c.lost = req[r].lost \cap {"user"}
  <2>1. req[r].lost \cap {"user"} \in SUBSET Resources
    BY DEF Resources
  <2>2. QED
    BY <1>2, <1>3, <2>1 DEF Request, Resources
<1>5. req' = [req EXCEPT ![r] = c]
  BY DEF Leave
<1> HIDE DEF c
<1>6. QED
  BY <1>4, <1>5 DEF Only, Moves

(* A request that starts over forgets which accounts failed.               *)
LEMMA ExhaustedMoves ==
  ASSUME req \in [Requests -> Request], NEW r \in Requests,
         req' = [req EXCEPT ![r].pc = "select", ![r].account = None, ![r].failed = {}]
  PROVE  Moves(r, "select", req[r].counted, None, req[r].locked, req[r].lost)
<1> DEFINE c == [req[r] EXCEPT !.pc = "select", !.account = None, !.failed = {}]
<1>1. "select" \in Labels
  BY DEF Labels, HoldsUser
<1>2. c \in Request
  BY <1>1 DEF Request
<1>3. /\ c.pc = "select" /\ c.connected = req[r].connected /\ c.counted = req[r].counted
      /\ c.account = None /\ c.locked = req[r].locked /\ c.lost = req[r].lost
  BY DEF Request
<1>4. req' = [req EXCEPT ![r] = c]
  OBVIOUS
<1> HIDE DEF c
<1>5. QED
  BY <1>2, <1>3, <1>4 DEF Only, Moves

(* A request that got a slot of a has chosen a.                            *)
LEMMA AcquiredMoves ==
  ASSUME req \in [Requests -> Request], NEW r \in Requests, NEW a \in Accounts,
         req' = [req EXCEPT ![r].pc = "hydrate", ![r].account = a, ![r].lost = @ \ {"account"}]
  PROVE  Moves(r, "hydrate", req[r].counted, a, req[r].locked, req[r].lost \ {"account"})
<1> DEFINE l == req[r].lost \ {"account"}
           c == [req[r] EXCEPT !.pc = "hydrate", !.account = a, !.lost = l]
<1>1. "hydrate" \in Labels /\ l \in SUBSET Resources
  BY RequestType DEF Labels, HoldsUser
<1>2. req' = [req EXCEPT ![r] = c]
  BY DEF Request
<1> HIDE DEF l
<1>3. c \in Request
  BY <1>1 DEF Request, Resources
<1>4. /\ c.pc = "hydrate" /\ c.connected = req[r].connected /\ c.counted = req[r].counted
      /\ c.account = a /\ c.locked = req[r].locked /\ c.lost = l
  BY DEF Request
<1> HIDE DEF c
<1>5. QED
  BY <1>2, <1>3, <1>4 DEF Only, Moves, l

(* A request that is to wait for a has chosen a, and holds nothing of it.  *)
LEMMA PlanMoves ==
  ASSUME req \in [Requests -> Request], NEW r \in Requests, NEW a \in Accounts,
         req' = [req EXCEPT ![r].pc = "accountWait", ![r].account = a]
  PROVE  Moves(r, "accountWait", req[r].counted, a, req[r].locked, req[r].lost)
<1> DEFINE c == [req[r] EXCEPT !.pc = "accountWait", !.account = a]
<1>1. "accountWait" \in Labels
  BY DEF Labels, HoldsUser
<1>2. c \in Request
  BY <1>1 DEF Request
<1>3. /\ c.pc = "accountWait" /\ c.connected = req[r].connected /\ c.counted = req[r].counted
      /\ c.account = a /\ c.locked = req[r].locked /\ c.lost = req[r].lost
  BY DEF Request
<1>4. req' = [req EXCEPT ![r] = c]
  OBVIOUS
<1> HIDE DEF c
<1>5. QED
  BY <1>2, <1>3, <1>4 DEF Only, Moves

(* A request that waited got its slot.                                     *)
LEMMA SlotMoves ==
  ASSUME req \in [Requests -> Request], NEW r \in Requests,
         req' = [req EXCEPT ![r].pc = "accountDec", ![r].lost = @ \ {"account"}]
  PROVE  Moves(r, "accountDec", req[r].counted, req[r].account, req[r].locked, req[r].lost \ {"account"})
<1> DEFINE l == req[r].lost \ {"account"}
           c == [req[r] EXCEPT !.pc = "accountDec", !.lost = l]
<1>1. "accountDec" \in Labels /\ l \in SUBSET Resources
  BY RequestType DEF Labels, HoldsUser
<1>2. req' = [req EXCEPT ![r] = c]
  BY DEF Request
<1> HIDE DEF l
<1>3. c \in Request
  BY <1>1 DEF Request, Resources
<1>4. /\ c.pc = "accountDec" /\ c.connected = req[r].connected /\ c.counted = req[r].counted
      /\ c.account = req[r].account /\ c.locked = req[r].locked /\ c.lost = l
  BY DEF Request
<1> HIDE DEF c
<1>5. QED
  BY <1>2, <1>3, <1>4 DEF Only, Moves, l

(* A request that goes upstream with the serial lock.                      *)
LEMMA LockMoves ==
  ASSUME req \in [Requests -> Request], NEW r \in Requests,
         req' = [req EXCEPT ![r].pc = "forward", ![r].locked = TRUE, ![r].lost = @ \ {"lock"}]
  PROVE  Moves(r, "forward", req[r].counted, req[r].account, TRUE, req[r].lost \ {"lock"})
<1> DEFINE l == req[r].lost \ {"lock"}
           c == [req[r] EXCEPT !.pc = "forward", !.locked = TRUE, !.lost = l]
<1>1. "forward" \in Labels /\ l \in SUBSET Resources
  BY RequestType DEF Labels, HoldsUser
<1>2. req' = [req EXCEPT ![r] = c]
  BY DEF Request
<1> HIDE DEF l
<1>3. c \in Request
  BY <1>1 DEF Request, Resources
<1>4. /\ c.pc = "forward" /\ c.connected = req[r].connected /\ c.counted = req[r].counted
      /\ c.account = req[r].account /\ c.locked = TRUE /\ c.lost = l
  BY DEF Request
<1> HIDE DEF c
<1>5. QED
  BY <1>2, <1>3, <1>4 DEF Only, Moves, l

(* A request that released the serial lock.                                *)
LEMMA UnlockMoves ==
  ASSUME req \in [Requests -> Request], NEW r \in Requests, req' = [req EXCEPT ![r].locked = FALSE]
  PROVE  Moves(r, req[r].pc, req[r].counted, req[r].account, FALSE, req[r].lost)
BY DEF Only, Moves, Request

(* The record of a request whose account failed: it holds nothing of the   *)
(* account and selects again.                                              *)
LEMMA FailedType ==
  ASSUME req \in [Requests -> Request], NEW r \in Requests, NEW b \in BOOLEAN
  PROVE  /\ Failed(r, b) \in Request
         /\ Failed(r, b).pc = "select" /\ Failed(r, b).connected = req[r].connected
         /\ Failed(r, b).counted = req[r].counted /\ Failed(r, b).account = None
         /\ Failed(r, b).locked = FALSE /\ Failed(r, b).lost = req[r].lost \ {"account", "lock"}
         /\ Failed(r, b).failed = req[r].failed /\ Failed(r, b).switches = req[r].switches
         /\ Failed(r, b).retries = req[r].retries
<1> DEFINE l == req[r].lost \ {"account", "lock"}
<1>1. "select" \in Labels /\ l \in SUBSET Resources
  BY RequestType DEF Labels, HoldsUser
<1>2. Failed(r, b) = [req[r] EXCEPT !.pc = "select", !.account = None, !.locked = FALSE, !.busy = b, !.lost = l]
  BY DEF Failed, Request
<1> HIDE DEF l
<1>3. Failed(r, b) \in Request
  <2> DEFINE d == [req[r] EXCEPT !.pc = "select", !.account = None, !.locked = FALSE]
  <2>1. d \in Request
    BY <1>1 DEF Request
  <2>2. Failed(r, b) = [d EXCEPT !.busy = b, !.lost = l]
    BY <1>2 DEF Request
  <2> HIDE DEF d
  <2>3. QED
    BY <1>1, <2>1, <2>2 DEF Request, Resources
<1>4. /\ Failed(r, b).pc = "select" /\ Failed(r, b).connected = req[r].connected
      /\ Failed(r, b).counted = req[r].counted /\ Failed(r, b).account = None
      /\ Failed(r, b).locked = FALSE /\ Failed(r, b).lost = l
      /\ Failed(r, b).failed = req[r].failed /\ Failed(r, b).switches = req[r].switches
      /\ Failed(r, b).retries = req[r].retries
  BY <1>2 DEF Request
<1>5. QED
  BY <1>3, <1>4 DEF l

(* The failover: the account again, another one, or none.                  *)
LEMMA FailoverMoves ==
  ASSUME req \in [Requests -> Request], setting \in Settings, NEW r \in Requests,
         req[r].account \in Accounts, NEW b \in BOOLEAN, NEW c \in BOOLEAN, AfterFailover(r, b, c)
  PROVE  \/ Moves(r, "select", req[r].counted, None, FALSE, req[r].lost \ {"account", "lock"})
         \/ Moves(r, "return", FALSE, None, FALSE, req[r].lost \cap {"user"})
<1> DEFINE a == req[r].account
           f == Failed(r, c)
           n == req[r].retries[a] + 1
           g == [f EXCEPT !.retries = [req[r].retries EXCEPT ![a] = n]]
           s == req[r].switches + 1
           h == [f EXCEPT !.failed = req[r].failed \cup {a}, !.switches = s]
<1>1. /\ f \in Request /\ f.pc = "select" /\ f.connected = req[r].connected
      /\ f.counted = req[r].counted /\ f.account = None
      /\ f.locked = FALSE /\ f.lost = req[r].lost \ {"account", "lock"}
      /\ f.failed = req[r].failed /\ f.switches = req[r].switches /\ f.retries = req[r].retries
  BY FailedType
<1>2. setting.switches \in Nat /\ setting.retries \in Nat
  BY GatewayAssumption
<1>3. CASE /\ req[r].retries[a] < setting.retries
           /\ req' = [req EXCEPT ![r] = [f EXCEPT !.retries[a] = @ + 1]]
  <2>1. req[r].retries \in [Accounts -> 0 .. setting.retries]
    BY RequestType
  <2>2. [req[r].retries EXCEPT ![a] = n] \in [Accounts -> 0 .. setting.retries]
    <3>1. n \in 0 .. setting.retries
      BY <1>2, <1>3, <2>1
    <3>2. QED
      BY <2>1, <3>1
  <2>3. req' = [req EXCEPT ![r] = g]
    <3>1. [f EXCEPT !.retries[a] = @ + 1] = [f EXCEPT !.retries = [f.retries EXCEPT ![a] = f.retries[a] + 1]]
      BY <1>1 DEF Request
    <3>2. QED
      BY <1>1, <1>3, <3>1
  <2> HIDE DEF f, n
  <2>4. /\ g \in Request /\ g.pc = "select" /\ g.connected = req[r].connected
        /\ g.counted = req[r].counted /\ g.account = None
        /\ g.locked = FALSE /\ g.lost = req[r].lost \ {"account", "lock"}
    BY <1>1, <2>2 DEF Request
  <2> HIDE DEF g
  <2>5. QED
    BY <2>3, <2>4 DEF Only, Moves
<1>4. CASE /\ req[r].switches < setting.switches
           /\ req' = [req EXCEPT ![r] = [f EXCEPT !.failed = @ \cup {a}, !.switches = @ + 1]]
  <2>1. s \in 0 .. setting.switches /\ req[r].failed \cup {a} \in SUBSET Accounts
    BY <1>2, <1>4, RequestType
  <2>2. req' = [req EXCEPT ![r] = h]
    <3>1. [f EXCEPT !.failed = @ \cup {a}, !.switches = @ + 1] = h
      BY <1>1 DEF Request
    <3>2. QED
      BY <1>4, <3>1
  <2> HIDE DEF f, s
  <2>3. /\ h \in Request /\ h.pc = "select" /\ h.connected = req[r].connected
        /\ h.counted = req[r].counted /\ h.account = None
        /\ h.locked = FALSE /\ h.lost = req[r].lost \ {"account", "lock"}
    BY <1>1, <2>1 DEF Request
  <2> HIDE DEF h
  <2>4. QED
    BY <2>2, <2>3 DEF Only, Moves
<1>5. CASE Leave(r)
  BY <1>5, LeaveMoves
<1>6. QED
  BY <1>3, <1>4, <1>5 DEF AfterFailover

(* The client goes away, and with it the slots.                            *)
LEMMA DisconnectMoves ==
  ASSUME req \in [Requests -> Request], NEW r \in Requests,
         req' = [req EXCEPT ![r].connected = FALSE, ![r].lost = @ \cap {"lock"}]
  PROVE  /\ Only(r) /\ req'[r].connected = FALSE
         /\ req'[r].pc = req[r].pc /\ req'[r].counted = req[r].counted
         /\ req'[r].account = req[r].account /\ req'[r].locked = req[r].locked
         /\ req'[r].lost = req[r].lost \cap {"lock"}
<1> DEFINE l == req[r].lost \cap {"lock"}
           c == [req[r] EXCEPT !.connected = FALSE, !.lost = l]
<1>1. l \in SUBSET Resources
  BY RequestType
<1>2. req' = [req EXCEPT ![r] = c]
  BY DEF Request
<1> HIDE DEF l
<1>3. c \in Request
  BY <1>1 DEF Request, Resources
<1>4. /\ c.connected = FALSE /\ c.pc = req[r].pc /\ c.counted = req[r].counted
      /\ c.account = req[r].account /\ c.locked = req[r].locked /\ c.lost = l
  BY DEF Request
<1> HIDE DEF c
<1>5. QED
  BY <1>2, <1>3, <1>4 DEF Only, l

(* A request under which an entry expired knows of it.                     *)
LEMMA LoseMoves ==
  ASSUME req \in [Requests -> Request], NEW r \in Requests, NEW x \in Resources, Lose(r, x)
  PROVE  Moves(r, req[r].pc, req[r].counted, req[r].account, req[r].locked, req[r].lost \cup {x})
<1> DEFINE l == req[r].lost \cup {x}
           c == [req[r] EXCEPT !.lost = l]
<1>1. l \in SUBSET Resources
  BY RequestType
<1>2. req' = [req EXCEPT ![r] = c]
  BY DEF Request, Lose
<1> HIDE DEF l
<1>3. c \in Request
  BY <1>1 DEF Request, Resources
<1>4. /\ c.connected = req[r].connected /\ c.pc = req[r].pc /\ c.counted = req[r].counted
      /\ c.account = req[r].account /\ c.locked = req[r].locked /\ c.lost = l
  BY DEF Request
<1> HIDE DEF c
<1>5. QED
  BY <1>2, <1>3, <1>4 DEF Only, Moves, l

-----------------------------------------------------------------------------
(* Frames                                                                  *)

(* A call with the context of a request costs a failure while its client   *)
(* is there.                                                               *)
LEMMA FaultsStep ==
  ASSUME TypeOK, NEW r \in Requests, CallFails(r) \/ Fault \/ NoFault \/ faults' = faults
  PROVE  /\ faults \in Nat /\ faults' \in {faults, faults + 1} /\ faults' \in 0 .. MaxFaults
         /\ Fault => faults' # 0
         /\ CallFails(r) /\ req[r].connected => faults' # 0
BY GatewayAssumption DEF TypeOK, CallFails, Fault, NoFault

RedisTyped ==
    /\ userSlots' \in [Users -> SUBSET Requests] /\ slots' \in [Accounts -> SUBSET Requests]
    /\ userOrphans' \in [Users -> Nat] /\ orphans' \in [Accounts -> Nat]
    /\ wait' \in [Users -> Nat] /\ accountWait' \in [Accounts -> Nat]
    /\ lock' \in [Accounts -> Requests \cup {None, Orphan}]
    /\ starting' \in [Processes -> SUBSET Patterns]
    /\ faults' \in 0 .. MaxFaults

(* Typed records and typed Redis keys are all of TypeOK.                   *)
LEMMA TypeFrame ==
  ASSUME TypeOK, setting' = setting, req' \in [Requests -> Request], RedisTyped
  PROVE  TypeOK'
BY DEF TypeOK, RedisTyped, Request

(* What a step of r may do to a set of slots and its orphans.              *)
SlotStep(r, S, T, n, m, limit) ==
    \/ T = S /\ m <= n
    \/ T = S \cup {r} /\ m = n /\ Room(S, n, limit)
    \/ T = S /\ m = n + 1 /\ Room(S, n, limit)
    \/ T = S \ {r} /\ m = n
    \/ T = S \ {r} /\ m = n + 1 /\ r \in S

(* Each of these changes keeps slots and orphans within the limit: one is  *)
(* added only with room for it, and a slot that becomes an orphan counts   *)
(* once.                                                                   *)
LEMMA SlotStepFits ==
  ASSUME NEW r, NEW S, NEW T, NEW n \in Nat, NEW m \in Nat, NEW limit \in Nat, IsFiniteSet(S),
         Fits(S, n, limit), SlotStep(r, S, T, n, m, limit)
  PROVE  Fits(T, m, limit)
<1>1. CASE T = S /\ m <= n
  BY <1>1, FS_CardinalityType DEF Fits
<1>2. CASE Room(S, n, limit) /\ ((T = S \cup {r} /\ m = n) \/ (T = S /\ m = n + 1))
  <2>1. Fits(S \cup {r}, n, limit) /\ Fits(S, n + 1, limit)
    BY <1>2, SlotAdded
  <2>2. QED
    BY <1>2, <2>1
<1>3. CASE T = S \ {r} /\ (m = n \/ (m = n + 1 /\ r \in S))
  BY <1>3, SlotRemoved
<1>4. QED
  BY <1>1, <1>2, <1>3 DEF SlotStep

AccountSlotStep(r) ==
    \A a \in Accounts : SlotStep(r, slots[a], slots'[a], orphans[a], orphans'[a], setting.accountLimit)

UserSlotStep(r) ==
    \A u \in Users : SlotStep(r, userSlots[u], userSlots'[u], userOrphans[u], userOrphans'[u], setting.userLimit)

(* The sets of slots are finite, the limits numbers.                       *)
LEMMA SlotTypes ==
  ASSUME TypeOK
  PROVE  /\ setting \in Settings /\ setting.accountLimit \in Nat /\ setting.userLimit \in Nat
         /\ \A a \in Accounts : IsFiniteSet(slots[a]) /\ orphans[a] \in Nat
         /\ \A u \in Users : IsFiniteSet(userSlots[u]) /\ userOrphans[u] \in Nat
<1>1. setting \in Settings /\ setting.accountLimit \in Nat /\ setting.userLimit \in Nat
  BY GatewayAssumption DEF TypeOK
<1>2. \A S \in SUBSET Requests : IsFiniteSet(S)
  BY GatewayAssumption, FS_Subset
<1>3. QED
  BY <1>1, <1>2 DEF TypeOK

(* Hence the limits of accounts and users are kept together.               *)
LEMMA FitsStep ==
  ASSUME TypeOK, AccountsFit, UsersFit, setting' = setting, RedisTyped, NEW r,
         AccountSlotStep(r), UserSlotStep(r)
  PROVE  AccountsFit' /\ UsersFit'
<1>1. ASSUME NEW a \in Accounts
      PROVE  Fits(slots'[a], orphans'[a], setting.accountLimit)
  <2>1. /\ IsFiniteSet(slots[a]) /\ orphans[a] \in Nat /\ orphans'[a] \in Nat
        /\ setting.accountLimit \in Nat
    BY SlotTypes DEF RedisTyped
  <2>2. Fits(slots[a], orphans[a], setting.accountLimit)
    BY DEF AccountsFit
  <2>3. SlotStep(r, slots[a], slots'[a], orphans[a], orphans'[a], setting.accountLimit)
    BY DEF AccountSlotStep
  <2>4. QED
    BY <2>1, <2>2, <2>3, SlotStepFits
<1>2. ASSUME NEW u \in Users
      PROVE  Fits(userSlots'[u], userOrphans'[u], setting.userLimit)
  <2>1. /\ IsFiniteSet(userSlots[u]) /\ userOrphans[u] \in Nat /\ userOrphans'[u] \in Nat
        /\ setting.userLimit \in Nat
    BY SlotTypes DEF RedisTyped
  <2>2. Fits(userSlots[u], userOrphans[u], setting.userLimit)
    BY DEF UsersFit
  <2>3. SlotStep(r, userSlots[u], userSlots'[u], userOrphans[u], userOrphans'[u], setting.userLimit)
    BY DEF UserSlotStep
  <2>4. QED
    BY <2>1, <2>2, <2>3, SlotStepFits
<1>3. QED
  BY <1>1, <1>2 DEF AccountsFit, UsersFit, Fits

(* The queues of a user and of an account, and what a step of r may do to  *)
(* their counters.                                                         *)
InQueue(r, u) == req[r].counted /\ req[r].pc \in {"userSlot", "exitDec", "decWait"} /\ UserOf[r] = u

InAccountQueue(r, a) ==
    req[r].counted /\ req[r].pc \in {"accountSlot", "accountDec", "accountExit"} /\ req[r].account = a

Queue(u) == {r \in Requests : InQueue(r, u)}

AccountQueue(a) == {r \in Requests : InAccountQueue(r, a)}

CountsKept(r) ==
    /\ \A u \in Users : \/ wait'[u] <= wait[u] /\ (InQueue(r, u) => InQueue(r, u)')
                        \/ wait'[u] <= wait[u] + 1 /\ ~InQueue(r, u) /\ InQueue(r, u)'
                        \/ wait'[u] = Decrement(wait[u])
    /\ \A a \in Accounts :
          \/ accountWait'[a] <= accountWait[a] /\ (InAccountQueue(r, a) => InAccountQueue(r, a)')
          \/ accountWait'[a] <= accountWait[a] + 1 /\ ~InAccountQueue(r, a) /\ InAccountQueue(r, a)'
          \/ accountWait'[a] = Decrement(accountWait[a])

(* CountersDoNotLeak in terms of the queues.                               *)
LEMMA CountersAreQueues ==
  CountersDoNotLeak <=>
    (faults = 0 => /\ \A u \in Users : wait[u] <= Cardinality(Queue(u))
                   /\ \A a \in Accounts : accountWait[a] <= Cardinality(AccountQueue(a)))
<1>1. \A u \in Users : Queue(u) = {r \in Counted({"userSlot", "exitDec", "decWait"}) : UserOf[r] = u}
  BY DEF Queue, InQueue, Counted
<1>2. \A a \in Accounts :
        AccountQueue(a) = {r \in Counted({"accountSlot", "accountDec", "accountExit"}) : req[r].account = a}
  BY DEF AccountQueue, InAccountQueue, Counted
<1>3. QED
  BY <1>1, <1>2 DEF CountersDoNotLeak

(* A counter that follows the request through its queue does not leak.     *)
LEMMA CountsStep ==
  ASSUME TypeOK, CountersDoNotLeak, RedisTyped, NEW r \in Requests, Only(r),
         faults' \in {faults, faults + 1}, faults' = 0 => CountsKept(r)
  PROVE  CountersDoNotLeak'
<1>1. SUFFICES ASSUME faults' = 0
               PROVE  /\ \A u \in Users : wait'[u] <= Cardinality(Queue(u)')
                      /\ \A a \in Accounts : accountWait'[a] <= Cardinality(AccountQueue(a)')
  <2>1. \A u \in Users : Queue(u)' = {q \in Counted({"userSlot", "exitDec", "decWait"})' : UserOf[q] = u}
    BY DEF Queue, InQueue, Counted
  <2>2. \A a \in Accounts :
          AccountQueue(a)' = {q \in Counted({"accountSlot", "accountDec", "accountExit"})' : req'[q].account = a}
    BY DEF AccountQueue, InAccountQueue, Counted
  <2>3. QED
    BY <2>1, <2>2 DEF CountersDoNotLeak
<1>2. faults = 0 /\ CountsKept(r)
  BY <1>1, GatewayAssumption DEF TypeOK
<1>3. \A u : IsFiniteSet(Queue(u)) /\ IsFiniteSet(Queue(u)')
  BY GatewayAssumption, FS_Subset DEF Queue
<1>4. \A a : IsFiniteSet(AccountQueue(a)) /\ IsFiniteSet(AccountQueue(a)')
  BY GatewayAssumption, FS_Subset DEF AccountQueue
<1>5. ASSUME NEW u \in Users
      PROVE  wait'[u] <= Cardinality(Queue(u)')
  <2>1. wait[u] \in Nat /\ wait'[u] \in Nat /\ wait[u] <= Cardinality(Queue(u))
    BY <1>2, CountersAreQueues DEF TypeOK, RedisTyped
  <2>2. Queue(u) \ {r} \subseteq Queue(u)'
    BY DEF Queue, InQueue, Only
  <2>3. \/ wait'[u] <= wait[u] /\ Queue(u) \subseteq Queue(u)'
        \/ wait'[u] <= wait[u] + 1 /\ r \notin Queue(u) /\ r \in Queue(u)'
        \/ wait'[u] = Decrement(wait[u])
    <3>1. InQueue(r, u) <=> r \in Queue(u)
      BY DEF Queue
    <3>2. InQueue(r, u)' <=> r \in Queue(u)'
      BY DEF Queue
    <3>3. QED
      BY <1>2, <2>2, <3>1, <3>2 DEF CountsKept
  <2>4. QED
    BY <1>3, <2>1, <2>2, <2>3, QueueCounts
<1>6. ASSUME NEW a \in Accounts
      PROVE  accountWait'[a] <= Cardinality(AccountQueue(a)')
  <2>1. accountWait[a] \in Nat /\ accountWait'[a] \in Nat /\ accountWait[a] <= Cardinality(AccountQueue(a))
    BY <1>2, CountersAreQueues DEF TypeOK, RedisTyped
  <2>2. AccountQueue(a) \ {r} \subseteq AccountQueue(a)'
    BY DEF AccountQueue, InAccountQueue, Only
  <2>3. \/ accountWait'[a] <= accountWait[a] /\ AccountQueue(a) \subseteq AccountQueue(a)'
        \/ accountWait'[a] <= accountWait[a] + 1 /\ r \notin AccountQueue(a) /\ r \in AccountQueue(a)'
        \/ accountWait'[a] = Decrement(accountWait[a])
    <3>1. InAccountQueue(r, a) <=> r \in AccountQueue(a)
      BY DEF AccountQueue
    <3>2. InAccountQueue(r, a)' <=> r \in AccountQueue(a)'
      BY DEF AccountQueue
    <3>3. QED
      BY <1>2, <2>2, <3>1, <3>2 DEF CountsKept
  <2>4. QED
    BY <1>4, <2>1, <2>2, <2>3, QueueCounts
<1>7. QED
  BY <1>5, <1>6

(* No step of r takes a lock from another request.                         *)
LocksKept(r) == \A a \in Accounts, q \in Requests \ {r} : lock[a] = q => lock'[a] = q

(* What other requests rely on is left alone.                              *)
LEMMA OthersSound ==
  ASSUME GatewayInv, NEW r \in Requests, Only(r), AccountSlotStep(r), UserSlotStep(r), LocksKept(r),
         faults' \in {faults, faults + 1}
  PROVE  \A q \in Requests \ {r} : Sound(q)'
<1>1. SUFFICES ASSUME NEW q \in Requests \ {r}
               PROVE  Sound(q)'
  OBVIOUS
<1>2. req'[q] = req[q] /\ Sound(q)
  BY DEF Only, GatewayInv
<1>3. \A a \in Accounts : q \in slots'[a] <=> q \in slots[a]
  BY DEF AccountSlotStep, SlotStep
<1>4. \A u \in Users : q \in userSlots'[u] <=> q \in userSlots[u]
  BY DEF UserSlotStep, SlotStep
<1>5. faults' = 0 => faults = 0
  BY GatewayAssumption DEF GatewayInv, TypeOK
<1>6. AccountChosen(q)'
  BY <1>2 DEF Sound, AccountChosen
<1>7. HasSlot(q)'
  BY <1>2, <1>3 DEF Sound, HasSlot, AccountChosen, Assigned
<1>8. HasUserSlot(q)'
  BY <1>2, <1>4, GatewayAssumption DEF Sound, HasUserSlot
<1>9. HasLock(q)'
  BY <1>2 DEF Sound, HasLock, AccountChosen, Assigned, HoldsAccount, LocksKept
<1>10. NoStraySlot(q)'
  BY <1>2, <1>3, <1>4, <1>5 DEF Sound, NoStraySlot
<1>11. QED
  BY <1>6, <1>7, <1>8, <1>9, <1>10 DEF Sound

(* A step of r keeps the invariant.                                        *)
LEMMA StepKeeps ==
  ASSUME GatewayInv, NEW r \in Requests, Only(r), setting' = setting, RedisTyped,
         faults' \in {faults, faults + 1}, AccountSlotStep(r), UserSlotStep(r), LocksKept(r),
         Sound(r)', faults' = 0 => userOrphans' = userOrphans, faults' = 0 => CountsKept(r)
  PROVE  GatewayInv'
<1>1. TypeOK'
  BY TypeFrame DEF GatewayInv, Only
<1>2. \A q \in Requests : Sound(q)'
  BY OthersSound
<1>3. AccountsFit' /\ UsersFit'
  BY FitsStep DEF GatewayInv
<1>4. NoUserOrphan'
  BY GatewayAssumption DEF GatewayInv, TypeOK, NoUserOrphan
<1>5. CountersDoNotLeak'
  BY CountsStep DEF GatewayInv
<1>6. QED
  BY <1>1, <1>2, <1>3, <1>4, <1>5 DEF GatewayInv

(* Slots, locks and counters that are left alone.                          *)
LEMMA SlotsAlone ==
  ASSUME TypeOK, NEW r
  PROVE  /\ UNCHANGED <<slots, orphans>> => AccountSlotStep(r)
         /\ UNCHANGED <<userSlots, userOrphans>> => UserSlotStep(r)
         /\ UNCHANGED lock => LocksKept(r)
<1>1. /\ \A a \in Accounts : orphans[a] \in Nat
      /\ \A u \in Users : userOrphans[u] \in Nat
  BY DEF TypeOK
<1>2. QED
  BY <1>1 DEF AccountSlotStep, UserSlotStep, LocksKept, SlotStep

UserQueueLabels == {"userSlot", "exitDec", "decWait"}

AccountQueueLabels == {"accountSlot", "accountDec", "accountExit"}

(* A step that enters and leaves no queue leaves the counters right.       *)
LEMMA CountsAlone ==
  ASSUME TypeOK, NEW r \in Requests, UNCHANGED <<wait, accountWait>>,
         \/ req[r].pc \notin UserQueueLabels \cup AccountQueueLabels
         \/ /\ req'[r].counted = req[r].counted /\ req'[r].account = req[r].account
            /\ \/ req'[r].pc = req[r].pc
               \/ req[r].pc \in UserQueueLabels /\ req'[r].pc \in UserQueueLabels
               \/ req[r].pc \in AccountQueueLabels /\ req'[r].pc \in AccountQueueLabels
  PROVE  CountsKept(r)
<1>1. /\ \A u \in Users : wait'[u] <= wait[u]
      /\ \A a \in Accounts : accountWait'[a] <= accountWait[a]
  BY DEF TypeOK
<1>2. \A u \in Users : InQueue(r, u) => InQueue(r, u)'
  BY DEF InQueue, UserQueueLabels, AccountQueueLabels
<1>3. \A a \in Accounts : InAccountQueue(r, a) => InAccountQueue(r, a)'
  BY DEF InAccountQueue, UserQueueLabels, AccountQueueLabels
<1>4. QED
  BY <1>1, <1>2, <1>3 DEF CountsKept

(* What the invariant says of one request.                                 *)
LEMMA RequestFacts ==
  ASSUME GatewayInv, NEW r \in Requests
  PROVE  /\ TypeOK /\ req \in [Requests -> Request] /\ setting \in Settings /\ UserOf[r] \in Users
         /\ Sound(r) /\ faults \in Nat
         /\ req[r].pc \in Labels /\ req[r].counted \in BOOLEAN /\ req[r].connected \in BOOLEAN
         /\ req[r].pc # "forward" => req[r].locked = FALSE
         /\ req[r].pc \in Assigned => req[r].account \in Accounts
<1>1. TypeOK /\ req \in [Requests -> Request] /\ setting \in Settings /\ Sound(r)
  BY DEF GatewayInv, TypeOK
<1>2. UserOf[r] \in Users /\ faults \in Nat
  BY <1>1, GatewayAssumption DEF TypeOK
<1>3. /\ req[r].pc \in Labels /\ req[r].counted \in BOOLEAN /\ req[r].connected \in BOOLEAN
      /\ req[r].locked \in BOOLEAN
  BY <1>1, RequestType
<1>4. QED
  BY <1>1, <1>2, <1>3 DEF Sound, HasLock, AccountChosen

(* A step that keeps the slots and the lock its request has.               *)
LEMMA QuietStep ==
  ASSUME GatewayInv, NEW r \in Requests, setting' = setting,
         NEW l, NEW c, NEW a, NEW k, NEW x, Moves(r, l, c, a, k, x),
         UNCHANGED <<userSlots, userOrphans, slots, orphans, lock, starting>>,
         wait' \in [Users -> Nat], accountWait' \in [Accounts -> Nat],
         CallFails(r) \/ Fault \/ NoFault \/ faults' = faults,
         l \in Assigned => a \in Accounts,
         l \in HoldsAccount <=> req[r].pc \in HoldsAccount,
         l \in HoldsAccount => a = req[r].account /\ req[r].lost \subseteq x,
         l \in HoldsUser <=> req[r].pc \in HoldsUser,
         "user" \in req[r].lost => "user" \in x \/ l \notin HoldsUser,
         k = FALSE \/ (k = req[r].locked /\ l = "forward" /\ a = req[r].account /\ req[r].lost \subseteq x),
         faults' = 0 => CountsKept(r)
  PROVE  GatewayInv'
<1>1. /\ faults' \in {faults, faults + 1} /\ faults' \in 0 .. MaxFaults
      /\ faults' = 0 => faults = 0
  <2>1. TypeOK /\ faults \in Nat
    BY RequestFacts
  <2>2. faults' \in {faults, faults + 1} /\ faults' \in 0 .. MaxFaults
    BY <2>1, FaultsStep
  <2>3. QED
    BY <2>1, <2>2
<1>2. RedisTyped
  BY <1>1, RequestFacts DEF TypeOK, RedisTyped
<1>3. Only(r) /\ AccountSlotStep(r) /\ UserSlotStep(r) /\ LocksKept(r)
  BY RequestFacts, SlotsAlone DEF Moves
<1>4. /\ req'[r].pc = l /\ req'[r].connected = req[r].connected /\ req'[r].account = a
      /\ req'[r].locked = k /\ req'[r].lost = x
  BY DEF Moves
<1>5. AccountChosen(r)'
  BY <1>4 DEF AccountChosen
<1>6. HasSlot(r)'
  BY <1>4, RequestFacts DEF Sound, HasSlot
<1>7. HasUserSlot(r)'
  BY <1>4, RequestFacts DEF Sound, HasUserSlot
<1>8. HasLock(r)'
  BY <1>4, RequestFacts DEF Sound, HasLock
<1>9. NoStraySlot(r)'
  BY <1>1, <1>4, RequestFacts DEF Sound, NoStraySlot
<1>10. Sound(r)'
  BY <1>5, <1>6, <1>7, <1>8, <1>9 DEF Sound
<1>11. QED
  BY <1>1, <1>2, <1>3, <1>10, StepKeeps

(* The labels, told apart by what they hold.                               *)
LEMMA LabelFacts ==
  /\ {"new", "userSlot", "exitDec", "done"} \cap HoldsUser = {}
  /\ {"decWait", "billing", "select", "accountWait", "accountSlot", "accountExit", "return"} \subseteq HoldsUser
  /\ HoldsAccount = {"hydrate", "accountDec", "queue", "forward"} /\ HoldsAccount \subseteq HoldsUser
  /\ Assigned = HoldsAccount \cup {"accountWait", "accountSlot", "accountExit"}
  /\ Labels = HoldsUser \cup {"new", "userSlot", "exitDec", "done"}
BY DEF HoldsUser, HoldsAccount, Assigned, Labels

-----------------------------------------------------------------------------
(* The user's queue and slot                                               *)

(* The queue of the user is entered with the count, or not at all when it  *)
(* is full; a failed increment is a failure.                               *)
LEMMA IncrementStep ==
  ASSUME GatewayInv, NEW r \in Requests, IncrementWaitCount(r), setting' = setting
  PROVE  GatewayInv'
<1> DEFINE u == UserOf[r]
<1>1. /\ req[r].pc = "new" /\ req[r].locked = FALSE
      /\ UNCHANGED <<userSlots, userOrphans, slots, orphans, accountWait, lock, starting>>
  BY RequestFacts DEF IncrementWaitCount, At
<1>2. wait \in [Users -> Nat] /\ accountWait \in [Accounts -> Nat] /\ u \in Users
  BY RequestFacts DEF TypeOK
<1>3. [wait EXCEPT ![u] = @ + 1] \in [Users -> Nat]
  BY <1>2
<1>4. CASE End(r) /\ UNCHANGED wait /\ NoFault
  <2>1. Moves(r, "done", FALSE, None, FALSE, {})
    BY <1>4, RequestFacts, EndMoves
  <2>2. CountsKept(r)
    BY <1>1, <1>4, RequestFacts, CountsAlone DEF UserQueueLabels, AccountQueueLabels
  <2>3. QED
    BY <1>1, <1>2, <1>4, <2>1, <2>2, LabelFacts, QuietStep
<1>5. CASE /\ req' = [req EXCEPT ![r].pc = "userSlot", ![r].counted = TRUE]
           /\ wait' \in {wait, [wait EXCEPT ![u] = @ + 1]}
           /\ CallFails(r) \/ NoFault
  <2>1. Moves(r, "userSlot", TRUE, req[r].account, req[r].locked, req[r].lost)
    BY <1>5, RequestFacts, CountMoves, LabelFacts
  <2>2. CountsKept(r)
    <3>1. InQueue(r, u)' /\ \A v \in Users : ~InQueue(r, v)
      BY <1>1, <2>1 DEF InQueue, Moves
    <3>2. \A v \in Users : wait'[v] <= wait[v] \/ (v = u /\ wait'[v] <= wait[v] + 1)
      BY <1>2, <1>5
    <3>3. \A a \in Accounts : ~InAccountQueue(r, a) /\ accountWait'[a] <= accountWait[a]
      BY <1>1, <1>2 DEF InAccountQueue
    <3>4. QED
      BY <3>1, <3>2, <3>3 DEF CountsKept
  <2>3. QED
    BY <1>1, <1>2, <1>3, <1>5, <2>1, <2>2, LabelFacts, QuietStep
<1>6. QED
  BY <1>4, <1>5 DEF IncrementWaitCount

(* A user slot is taken with room for it, by a client that is there.       *)
LEMMA AcquireUserStep ==
  ASSUME GatewayInv, NEW r \in Requests, AcquireUserSlot(r), setting' = setting
  PROVE  GatewayInv'
<1> DEFINE u == UserOf[r]
<1>1. /\ req[r].pc = "userSlot" /\ req[r].locked = FALSE
      /\ UNCHANGED <<slots, orphans, wait, accountWait, lock, starting>>
  BY RequestFacts DEF AcquireUserSlot, At
<1>2. /\ wait \in [Users -> Nat] /\ accountWait \in [Accounts -> Nat] /\ u \in Users
      /\ userSlots \in [Users -> SUBSET Requests] /\ userOrphans \in [Users -> Nat]
  BY RequestFacts DEF TypeOK
<1>3. /\ faults \in Nat /\ faults' \in {faults, faults + 1} /\ faults' \in 0 .. MaxFaults
      /\ Fault => faults' # 0
  BY RequestFacts, FaultsStep DEF AcquireUserSlot
<1>4. CASE Goto(r, "decWait") \/ Goto(r, "exitDec")
  <2>1. PICK l \in {"decWait", "exitDec"} : Goto(r, l)
    BY <1>4
  <2>2. Moves(r, l, req[r].counted, req[r].account, req[r].locked, req[r].lost)
    BY <2>1, RequestFacts, GotoMoves, LabelFacts
  <2>3. CountsKept(r)
    BY <1>1, <2>2, RequestFacts, CountsAlone DEF UserQueueLabels, AccountQueueLabels, Moves
  <2>4. Only(r) /\ AccountSlotStep(r) /\ LocksKept(r)
    BY <1>1, <2>2, RequestFacts, SlotsAlone DEF Moves
  <2>5. /\ AccountChosen(r)' /\ HasSlot(r)' /\ HasLock(r)'
    BY <1>1, <2>2, LabelFacts DEF AccountChosen, HasSlot, HasLock, Moves
  <2>6. CASE Goto(r, "decWait") /\ UserRoom(r) /\ UNCHANGED userOrphans
             /\ userSlots' = [userSlots EXCEPT ![u] = @ \cup {r}]
    <3>1. Moves(r, "decWait", req[r].counted, req[r].account, req[r].locked, req[r].lost)
      BY <2>6, RequestFacts, GotoMoves, LabelFacts
    <3>2. userSlots' \in [Users -> SUBSET Requests] /\ userSlots'[u] = userSlots[u] \cup {r}
          /\ \A v \in Users \ {u} : userSlots'[v] = userSlots[v]
      BY <1>2, <2>6
    <3>3. RedisTyped
      BY <1>1, <1>3, <2>6, <3>2, RequestFacts DEF TypeOK, RedisTyped
    <3>4. UserSlotStep(r)
      BY <1>2, <2>6, <3>2 DEF UserSlotStep, SlotStep, UserRoom
    <3>5. HasUserSlot(r)'
      BY <3>2 DEF HasUserSlot
    <3>6. NoStraySlot(r)'
      <4>1. faults' = 0 => faults = 0
        BY <1>3
      <4>2. faults = 0 => /\ \A a \in Accounts : r \notin slots[a]
                          /\ \A v \in Users : r \notin userSlots[v]
        BY <1>1, LabelFacts, RequestFacts DEF Sound, NoStraySlot
      <4>3. req'[r].pc \in HoldsUser
        BY <3>1, LabelFacts DEF Moves
      <4>4. QED
        BY <1>1, <3>2, <4>1, <4>2, <4>3 DEF NoStraySlot
    <3>7. QED
      BY <1>3, <2>3, <2>4, <2>5, <2>6, <3>3, <3>4, <3>5, <3>6, StepKeeps DEF Sound
  <2>7. CASE Goto(r, "exitDec") /\ UNCHANGED <<userSlots, userOrphans>> /\ NoFault
    <3>1. Moves(r, "exitDec", req[r].counted, req[r].account, req[r].locked, req[r].lost)
      BY <2>7, RequestFacts, GotoMoves, LabelFacts
    <3>2. QED
      BY <1>1, <1>2, <2>3, <2>7, <3>1, LabelFacts, QuietStep
  <2>8. CASE /\ Goto(r, "exitDec") /\ UNCHANGED userSlots /\ Fault
             /\ userOrphans' \in {userOrphans} \cup {o \in {[userOrphans EXCEPT ![u] = @ + 1]} : UserRoom(r)}
    <3>1. Moves(r, "exitDec", req[r].counted, req[r].account, req[r].locked, req[r].lost)
      BY <2>8, RequestFacts, GotoMoves, LabelFacts
    <3>2. CASE UNCHANGED userOrphans
      BY <1>1, <1>2, <2>3, <2>8, <3>1, <3>2, LabelFacts, QuietStep
    <3>3. CASE UserRoom(r) /\ userOrphans' = [userOrphans EXCEPT ![u] = @ + 1]
      <4>1. RedisTyped
        <5>1. userOrphans' \in [Users -> Nat]
          BY <1>2, <3>3
        <5>2. QED
          BY <1>1, <1>3, <2>8, <5>1, RequestFacts DEF TypeOK, RedisTyped
      <4>2. UserSlotStep(r)
        BY <1>2, <2>8, <3>3 DEF UserSlotStep, SlotStep, UserRoom
      <4>3. HasUserSlot(r)' /\ NoStraySlot(r)'
        BY <1>3, <2>8, <3>1, LabelFacts DEF HasUserSlot, NoStraySlot, Moves
      <4>4. QED
        BY <1>3, <2>4, <2>5, <2>8, <4>1, <4>2, <4>3, StepKeeps DEF Sound
    <3>4. QED
      BY <2>8, <3>2, <3>3
  <2>9. QED
    BY <2>6, <2>7, <2>8 DEF AcquireUserSlot
<1>5. QED
  BY <1>4 DEF AcquireUserSlot

(* The counter of a queue goes down with the request that leaves it.       *)
LEMMA DecrementCounts ==
  ASSUME GatewayInv, NEW r \in Requests, DecrementWaitCount(r), req[r].pc \notin AccountQueueLabels
  PROVE  /\ wait' \in [Users -> Nat] /\ UNCHANGED <<accountWait, lock, starting>>
         /\ Fault \/ NoFault
         /\ faults' = 0 => CountsKept(r)
<1> DEFINE u == UserOf[r]
<1>1. wait \in [Users -> Nat] /\ u \in Users /\ accountWait \in [Accounts -> Nat]
  BY RequestFacts DEF TypeOK
<1>2. UNCHANGED <<accountWait, lock, starting>> /\ (Fault \/ NoFault)
  BY DEF DecrementWaitCount
<1>3. \A n \in Nat : Decrement(n) \in Nat /\ Decrement(n) <= n
  BY DEF Decrement
<1>4. wait' \in [Users -> Nat]
  BY <1>1, <1>3 DEF DecrementWaitCount
<1>5. ASSUME faults' = 0
      PROVE  CountsKept(r)
  <2>1. ~Fault
    BY <1>5, RequestFacts, FaultsStep
  <2>2. wait' = [wait EXCEPT ![u] = Decrement(@)]
    BY <2>1 DEF DecrementWaitCount
  <2>3. /\ wait'[u] = Decrement(wait[u])
        /\ \A v \in Users \ {u} : wait'[v] <= wait[v] /\ ~InQueue(r, v)
    BY <1>1, <2>2 DEF InQueue
  <2>4. \A a \in Accounts : ~InAccountQueue(r, a) /\ accountWait'[a] <= accountWait[a]
    BY <1>1, <1>2 DEF InAccountQueue, AccountQueueLabels
  <2>5. QED
    BY <2>3, <2>4 DEF CountsKept
<1>6. QED
  BY <1>2, <1>4, <1>5

(* Whichever way the wait for the user ends, its count is taken back.      *)
LEMMA DecWaitStep ==
  ASSUME GatewayInv, NEW r \in Requests, DecWait(r) \/ ExitDec(r), setting' = setting
  PROVE  GatewayInv'
<1>1. /\ req[r].pc \in {"decWait", "exitDec"} /\ req[r].locked = FALSE
      /\ UNCHANGED <<userSlots, userOrphans, slots, orphans>> /\ DecrementWaitCount(r)
  BY RequestFacts DEF DecWait, ExitDec, At
<1>2. /\ wait' \in [Users -> Nat] /\ UNCHANGED <<accountWait, lock, starting>>
      /\ Fault \/ NoFault
      /\ faults' = 0 => CountsKept(r)
  BY <1>1, DecrementCounts DEF AccountQueueLabels
<1>3. accountWait \in [Accounts -> Nat]
  BY RequestFacts DEF TypeOK
<1>4. CASE DecWait(r)
  <2>1. /\ req[r].pc = "decWait"
        /\ Moves(r, "billing", FALSE, req[r].account, req[r].locked, req[r].lost)
    BY <1>4, RequestFacts, CountMoves, LabelFacts DEF DecWait, At
  <2>2. /\ Moves(r, "billing", FALSE, req[r].account, FALSE, req[r].lost)
        /\ "billing" \notin Assigned /\ "billing" \in HoldsUser
        /\ req[r].pc \notin HoldsAccount /\ req[r].pc \in HoldsUser
    BY <1>1, <2>1, LabelFacts
  <2>3. "billing" \notin HoldsAccount
    BY LabelFacts
  <2>4. QED
    BY <1>1, <1>2, <1>3, <2>2, <2>3, QuietStep
<1>5. CASE ExitDec(r)
  <2>1. req[r].pc = "exitDec" /\ Moves(r, "done", FALSE, None, FALSE, {})
    BY <1>5, RequestFacts, EndMoves DEF ExitDec, At
  <2>2. QED
    BY <1>1, <1>2, <1>3, <2>1, LabelFacts, QuietStep
<1>6. QED
  BY <1>4, <1>5

(* A request that may not be billed gives its user slot back on its way    *)
(* out.                                                                    *)
LEMMA BillingStep ==
  ASSUME GatewayInv, NEW r \in Requests, CheckBilling(r), setting' = setting
  PROVE  GatewayInv'
<1>1. /\ req[r].pc = "billing" /\ req[r].locked = FALSE
      /\ UNCHANGED <<userSlots, userOrphans, slots, orphans, wait, accountWait, lock, starting, faults>>
  BY RequestFacts DEF CheckBilling, At, redis
<1>2. wait \in [Users -> Nat] /\ accountWait \in [Accounts -> Nat]
  BY RequestFacts DEF TypeOK
<1>3. CountsKept(r)
  BY <1>1, RequestFacts, CountsAlone DEF UserQueueLabels, AccountQueueLabels
<1>4. /\ req[r].pc \notin HoldsAccount /\ req[r].pc \in HoldsUser
      /\ \A l \in {"select", "return"} : l \notin Assigned /\ l \notin HoldsAccount /\ l \in HoldsUser
  BY <1>1, LabelFacts
<1>5. CASE Goto(r, "select")
  <2>1. Moves(r, "select", req[r].counted, req[r].account, req[r].locked, req[r].lost)
    BY <1>5, RequestFacts, GotoMoves, LabelFacts
  <2>2. Moves(r, "select", req[r].counted, req[r].account, FALSE, req[r].lost)
    BY <1>1, <2>1
  <2>3. QED
    BY <1>1, <1>2, <1>3, <1>4, <2>2, QuietStep
<1>6. CASE Leave(r)
  <2>1. Moves(r, "return", FALSE, None, FALSE, req[r].lost \cap {"user"})
    BY <1>6, RequestFacts, LeaveMoves
  <2>2. QED
    BY <1>1, <1>2, <1>3, <1>4, <2>1, QuietStep
<1>7. QED
  BY <1>5, <1>6 DEF CheckBilling

(* A user slot that is released is gone, or an orphan after a failure.     *)
LEMMA UserRelease ==
  ASSUME GatewayInv, NEW r \in Requests, ReleaseUserSlot(r)
  PROVE  /\ UNCHANGED <<slots, orphans, wait, accountWait, lock, starting>>
         /\ userSlots' \in [Users -> SUBSET Requests] /\ userOrphans' \in [Users -> Nat]
         /\ UserSlotStep(r) /\ faults' \in {faults, faults + 1} /\ faults' \in 0 .. MaxFaults
         /\ faults' = 0 => userOrphans' = userOrphans
         /\ r \notin userSlots'[UserOf[r]]
         /\ \A v \in Users : userSlots'[v] \subseteq userSlots[v]
<1> DEFINE u == UserOf[r]
<1>1. /\ u \in Users /\ userSlots \in [Users -> SUBSET Requests] /\ userOrphans \in [Users -> Nat]
      /\ UNCHANGED <<slots, orphans, wait, accountWait, lock, starting>>
      /\ userSlots' = [userSlots EXCEPT ![u] = @ \ {r}]
  BY RequestFacts DEF ReleaseUserSlot, TypeOK
<1>2. /\ userSlots' \in [Users -> SUBSET Requests]
      /\ userSlots'[u] = userSlots[u] \ {r}
      /\ \A v \in Users \ {u} : userSlots'[v] = userSlots[v]
  BY <1>1
<1>3. /\ faults' \in {faults, faults + 1} /\ faults' \in 0 .. MaxFaults /\ (Fault => faults' # 0)
  BY RequestFacts, FaultsStep DEF ReleaseUserSlot
<1>4. CASE UNCHANGED userOrphans
  BY <1>1, <1>2, <1>3, <1>4 DEF UserSlotStep, SlotStep
<1>5. CASE r \in userSlots[u] /\ userOrphans' = [userOrphans EXCEPT ![u] = @ + 1] /\ Fault
  <2>1. userOrphans' \in [Users -> Nat] /\ userOrphans'[u] = userOrphans[u] + 1
        /\ \A v \in Users \ {u} : userOrphans'[v] = userOrphans[v]
    BY <1>1, <1>5
  <2>2. UserSlotStep(r)
    BY <1>1, <1>2, <1>5, <2>1 DEF UserSlotStep, SlotStep
  <2>3. QED
    BY <1>1, <1>2, <1>3, <1>5, <2>1, <2>2
<1>6. QED
  BY <1>4, <1>5 DEF ReleaseUserSlot

(* The deferred release of the user slot ends the request.                 *)
LEMMA ReturnStep ==
  ASSUME GatewayInv, NEW r \in Requests, Return(r), setting' = setting
  PROVE  GatewayInv'
<1>1. /\ req[r].pc = "return" /\ ReleaseUserSlot(r)
      /\ Moves(r, "done", FALSE, None, FALSE, {})
  BY RequestFacts, EndMoves DEF Return, At
<1>2. /\ UNCHANGED <<slots, orphans, wait, accountWait, lock, starting>>
      /\ userSlots' \in [Users -> SUBSET Requests] /\ userOrphans' \in [Users -> Nat]
      /\ UserSlotStep(r) /\ faults' \in {faults, faults + 1} /\ faults' \in 0 .. MaxFaults
      /\ faults' = 0 => userOrphans' = userOrphans
      /\ r \notin userSlots'[UserOf[r]]
      /\ \A v \in Users : userSlots'[v] \subseteq userSlots[v]
  BY <1>1, UserRelease
<1>3. RedisTyped
  BY <1>2, RequestFacts DEF TypeOK, RedisTyped
<1>4. CountsKept(r)
  BY <1>1, <1>2, RequestFacts, CountsAlone DEF UserQueueLabels, AccountQueueLabels
<1>5. Only(r) /\ AccountSlotStep(r) /\ LocksKept(r)
  BY <1>1, <1>2, RequestFacts, SlotsAlone DEF Moves
<1>6. AccountChosen(r)' /\ HasSlot(r)' /\ HasUserSlot(r)' /\ HasLock(r)'
  BY <1>1, LabelFacts DEF AccountChosen, HasSlot, HasUserSlot, HasLock, Moves
<1>7. NoStraySlot(r)'
  <2>1. faults' = 0 => faults = 0
    BY <1>2, GatewayAssumption DEF GatewayInv, TypeOK
  <2>2. faults = 0 => /\ \A a \in Accounts : r \notin slots[a]
                      /\ \A v \in Users \ {UserOf[r]} : r \notin userSlots[v]
    BY <1>1, LabelFacts, RequestFacts DEF Sound, NoStraySlot
  <2>3. QED
    BY <1>2, <2>1, <2>2 DEF NoStraySlot
<1>8. QED
  BY <1>2, <1>3, <1>4, <1>5, <1>6, <1>7, StepKeeps DEF Sound

-----------------------------------------------------------------------------
(* The selection of an account                                             *)

(* A request that is to wait for an account holds nothing there yet.       *)
LEMMA PlanStep ==
  ASSUME GatewayInv, NEW r \in Requests, NEW a \in Accounts, SelectWait(r, a), setting' = setting
  PROVE  GatewayInv'
<1>1. /\ req[r].pc = "select" /\ req[r].locked = FALSE
      /\ UNCHANGED <<userSlots, userOrphans, slots, orphans, wait, accountWait, lock, starting, faults>>
      /\ Moves(r, "accountWait", req[r].counted, a, req[r].locked, req[r].lost)
  BY RequestFacts, PlanMoves DEF SelectWait, At, redis
<1>2. wait \in [Users -> Nat] /\ accountWait \in [Accounts -> Nat]
  BY RequestFacts DEF TypeOK
<1>3. CountsKept(r)
  BY <1>1, RequestFacts, CountsAlone DEF UserQueueLabels, AccountQueueLabels
<1>4. QED
  BY <1>1, <1>2, <1>3, LabelFacts, QuietStep

(* The excluded accounts get another chance, or the request leaves.        *)
LEMMA ExhaustedEffect ==
  ASSUME GatewayInv, NEW r \in Requests, SelectionExhausted(r), req[r].locked = FALSE
  PROVE  \E l \in {"select", "return"}, x \in {req[r].lost, req[r].lost \cap {"user"}} :
            \E c \in BOOLEAN : Moves(r, l, c, None, FALSE, x)
<1>1. CASE req' = [req EXCEPT ![r].pc = "select", ![r].account = None, ![r].failed = {}]
  <2>1. Moves(r, "select", req[r].counted, None, FALSE, req[r].lost)
    BY <1>1, RequestFacts, ExhaustedMoves
  <2>2. req[r].counted \in BOOLEAN
    BY RequestFacts
  <2>3. QED
    BY <2>1, <2>2
<1>2. CASE Leave(r)
  <2>1. Moves(r, "return", FALSE, None, FALSE, req[r].lost \cap {"user"})
    BY <1>2, RequestFacts, LeaveMoves
  <2>2. QED
    BY <2>1
<1>3. QED
  BY <1>1, <1>2 DEF SelectionExhausted

(* Without an account the request keeps its user slot and nothing else.    *)
LEMMA NoneStep ==
  ASSUME GatewayInv, NEW r \in Requests, SelectNone(r), setting' = setting
  PROVE  GatewayInv'
<1>1. /\ req[r].pc = "select" /\ req[r].locked = FALSE
      /\ UNCHANGED <<userSlots, userOrphans, slots, orphans, wait, accountWait, lock, starting, faults>>
  BY RequestFacts DEF SelectNone, At, redis
<1>2. wait \in [Users -> Nat] /\ accountWait \in [Accounts -> Nat]
  BY RequestFacts DEF TypeOK
<1>3. CountsKept(r)
  BY <1>1, RequestFacts, CountsAlone DEF UserQueueLabels, AccountQueueLabels
<1>4. PICK l \in {"select", "return"}, x \in {req[r].lost, req[r].lost \cap {"user"}}, c \in BOOLEAN :
         Moves(r, l, c, None, FALSE, x)
  BY <1>1, ExhaustedEffect DEF SelectNone
<1>5. /\ l \notin Assigned /\ l \notin HoldsAccount /\ l \in HoldsUser
      /\ "user" \in req[r].lost => "user" \in x
      /\ req[r].pc \notin HoldsAccount /\ req[r].pc \in HoldsUser
  BY <1>1, LabelFacts
<1>6. QED
  BY <1>1, <1>2, <1>3, <1>4, <1>5, QuietStep

(* Selecting an account with room takes its slot at once.                  *)
LEMMA AcquiredStep ==
  ASSUME GatewayInv, NEW r \in Requests, NEW a \in Accounts, SelectAcquired(r, a), setting' = setting
  PROVE  GatewayInv'
<1>1. /\ req[r].pc = "select" /\ req[r].locked = FALSE
      /\ UNCHANGED <<userSlots, userOrphans, orphans, wait, accountWait, lock, starting, faults>>
      /\ Moves(r, "hydrate", req[r].counted, a, req[r].locked, req[r].lost \ {"account"})
      /\ AccountRoom(a) /\ slots' = [slots EXCEPT ![a] = @ \cup {r}]
  BY RequestFacts, AcquiredMoves DEF SelectAcquired, At
<1>2. slots \in [Accounts -> SUBSET Requests] /\ orphans \in [Accounts -> Nat] /\ faults \in Nat
  BY RequestFacts DEF TypeOK
<1>3. /\ slots' \in [Accounts -> SUBSET Requests] /\ slots'[a] = slots[a] \cup {r}
      /\ \A b \in Accounts \ {a} : slots'[b] = slots[b]
  BY <1>1, <1>2
<1>4. RedisTyped
  BY <1>1, <1>3, RequestFacts DEF TypeOK, RedisTyped
<1>5. AccountSlotStep(r)
  BY <1>1, <1>2, <1>3 DEF AccountSlotStep, SlotStep, AccountRoom
<1>6. Only(r) /\ UserSlotStep(r) /\ LocksKept(r)
  BY <1>1, RequestFacts, SlotsAlone DEF Moves
<1>7. CountsKept(r)
  BY <1>1, RequestFacts, CountsAlone DEF UserQueueLabels, AccountQueueLabels
<1>8. AccountChosen(r)' /\ HasSlot(r)' /\ HasLock(r)'
  BY <1>1, <1>3 DEF AccountChosen, HasSlot, HasLock, Moves
<1>9. HasUserSlot(r)'
  BY <1>1, LabelFacts, RequestFacts DEF Sound, HasUserSlot, Moves
<1>10. NoStraySlot(r)'
  <2>1. faults = 0 => /\ \A b \in Accounts : r \notin slots[b]
                      /\ \A v \in Users : r \in userSlots[v] => UserOf[r] = v
    BY <1>1, LabelFacts, RequestFacts DEF Sound, NoStraySlot
  <2>2. req'[r].pc \in HoldsAccount /\ req'[r].pc \in HoldsUser /\ req'[r].account = a
    BY <1>1, LabelFacts DEF Moves
  <2>3. QED
    BY <1>1, <1>3, <2>1, <2>2 DEF NoStraySlot
<1>11. faults' \in {faults, faults + 1}
  BY <1>1
<1>12. QED
  BY <1>1, <1>4, <1>5, <1>6, <1>7, <1>8, <1>9, <1>10, <1>11, StepKeeps DEF Sound

(* An orphan of an account slot needs room, like a slot.                   *)
LEMMA OrphanAdded ==
  ASSUME GatewayInv, NEW r \in Requests, NEW a \in Accounts, UNCHANGED slots,
         orphans' \in {orphans} \cup {o \in {[orphans EXCEPT ![a] = @ + 1]} : AccountRoom(a)}
  PROVE  orphans' \in [Accounts -> Nat] /\ AccountSlotStep(r)
<1>1. orphans \in [Accounts -> Nat] /\ TypeOK
  BY DEF GatewayInv, TypeOK
<1>2. CASE UNCHANGED orphans
  BY <1>1, <1>2, SlotsAlone
<1>3. CASE AccountRoom(a) /\ orphans' = [orphans EXCEPT ![a] = @ + 1]
  <2>1. /\ orphans' \in [Accounts -> Nat] /\ orphans'[a] = orphans[a] + 1
        /\ \A b \in Accounts \ {a} : orphans'[b] = orphans[b]
    BY <1>1, <1>3
  <2>2. AccountSlotStep(r)
    BY <1>1, <1>3, <2>1 DEF AccountSlotStep, SlotStep, AccountRoom
  <2>3. QED
    BY <2>1, <2>2
<1>4. QED
  BY <1>2, <1>3

(* A slot that was taken although the call failed is an orphan, and the    *)
(* failure is counted.                                                     *)
LEMMA SelectFailsStep ==
  ASSUME GatewayInv, NEW r \in Requests, NEW a \in Accounts, SelectFails(r, a), setting' = setting
  PROVE  GatewayInv'
<1>1. /\ req[r].pc = "select" /\ req[r].locked = FALSE /\ Fault
      /\ UNCHANGED <<userSlots, userOrphans, slots, wait, accountWait, lock, starting>>
  BY RequestFacts DEF SelectFails, At
<1>2. orphans' \in [Accounts -> Nat] /\ AccountSlotStep(r)
  BY <1>1, OrphanAdded DEF SelectFails
<1>3. faults' \in {faults, faults + 1} /\ faults' \in 0 .. MaxFaults /\ faults' # 0
  BY <1>1, RequestFacts, FaultsStep
<1>4. RedisTyped
  BY <1>1, <1>2, <1>3, RequestFacts DEF TypeOK, RedisTyped
<1>5. UserSlotStep(r) /\ LocksKept(r)
  BY <1>1, RequestFacts, SlotsAlone
<1>6. CASE UNCHANGED req
  <2>1. Only(r)
    BY <1>6, RequestFacts DEF Only
  <2>2. Sound(r)'
    BY <1>1, <1>3, <1>6, RequestFacts
       DEF Sound, AccountChosen, HasSlot, HasUserSlot, HasLock, NoStraySlot
  <2>3. QED
    BY <1>2, <1>3, <1>4, <1>5, <2>1, <2>2, StepKeeps
<1>7. CASE req' = [req EXCEPT ![r].pc = "accountWait", ![r].account = a]
  <2>1. Moves(r, "accountWait", req[r].counted, a, req[r].locked, req[r].lost)
    BY <1>7, RequestFacts, PlanMoves
  <2>2. AccountChosen(r)' /\ HasSlot(r)' /\ HasLock(r)' /\ NoStraySlot(r)'
    BY <1>1, <1>3, <2>1, LabelFacts DEF AccountChosen, HasSlot, HasLock, NoStraySlot, Moves
  <2>3. HasUserSlot(r)'
    BY <1>1, <2>1, LabelFacts, RequestFacts DEF Sound, HasUserSlot, Moves
  <2>4. Only(r)
    BY <2>1 DEF Moves
  <2>5. QED
    BY <1>2, <1>3, <1>4, <1>5, <2>2, <2>3, <2>4, StepKeeps DEF Sound
<1>8. QED
  BY <1>6, <1>7 DEF SelectFails

(* An account slot that is released is gone, or an orphan.                 *)
LEMMA AccountRelease ==
  ASSUME GatewayInv, NEW r \in Requests, NEW a \in Accounts,
         slots' = [slots EXCEPT ![a] = @ \ {r}],
         UNCHANGED orphans \/ (r \in slots[a] /\ orphans' = [orphans EXCEPT ![a] = @ + 1])
  PROVE  /\ slots' \in [Accounts -> SUBSET Requests] /\ orphans' \in [Accounts -> Nat]
         /\ AccountSlotStep(r) /\ r \notin slots'[a]
         /\ \A b \in Accounts : slots'[b] \subseteq slots[b]
<1>1. slots \in [Accounts -> SUBSET Requests] /\ orphans \in [Accounts -> Nat]
  BY DEF GatewayInv, TypeOK
<1>2. /\ slots' \in [Accounts -> SUBSET Requests] /\ slots'[a] = slots[a] \ {r}
      /\ \A b \in Accounts \ {a} : slots'[b] = slots[b]
  BY <1>1
<1>3. CASE UNCHANGED orphans
  BY <1>1, <1>2, <1>3 DEF AccountSlotStep, SlotStep
<1>4. CASE r \in slots[a] /\ orphans' = [orphans EXCEPT ![a] = @ + 1]
  <2>1. /\ orphans' \in [Accounts -> Nat] /\ orphans'[a] = orphans[a] + 1
        /\ \A b \in Accounts \ {a} : orphans'[b] = orphans[b]
    BY <1>1, <1>4
  <2>2. AccountSlotStep(r)
    BY <1>1, <1>2, <1>4, <2>1 DEF AccountSlotStep, SlotStep
  <2>3. QED
    BY <1>2, <2>1, <2>2
<1>5. QED
  BY <1>3, <1>4

(* A request that gives its account back goes on to the selection, or      *)
(* leaves.                                                                 *)
LEMMA GiveBackStep ==
  ASSUME GatewayInv, NEW r \in Requests, setting' = setting,
         req[r].pc \in {"hydrate", "forward"},
         NEW l \in {"select", "return"}, NEW c, NEW x, Moves(r, l, c, None, FALSE, x),
         "user" \in req[r].lost => "user" \in x,
         slots' = [slots EXCEPT ![req[r].account] = @ \ {r}],
         \/ UNCHANGED orphans
         \/ r \in slots[req[r].account] /\ orphans' = [orphans EXCEPT ![req[r].account] = @ + 1],
         UNCHANGED <<userSlots, userOrphans, wait, accountWait, lock, starting>>,
         CallFails(r) \/ Fault \/ NoFault
  PROVE  GatewayInv'
<1> DEFINE a == req[r].account
<1>1. a \in Accounts /\ req[r].pc \in HoldsAccount /\ req[r].pc \in HoldsUser
  BY RequestFacts, LabelFacts
<1>2. /\ slots' \in [Accounts -> SUBSET Requests] /\ orphans' \in [Accounts -> Nat]
      /\ AccountSlotStep(r) /\ r \notin slots'[a]
      /\ \A b \in Accounts : slots'[b] \subseteq slots[b]
  BY <1>1, AccountRelease
<1>3. faults \in Nat /\ faults' \in {faults, faults + 1} /\ faults' \in 0 .. MaxFaults
  BY RequestFacts, FaultsStep
<1>4. RedisTyped
  BY <1>2, <1>3, RequestFacts DEF TypeOK, RedisTyped
<1>5. Only(r) /\ UserSlotStep(r) /\ LocksKept(r)
  BY RequestFacts, SlotsAlone DEF Moves
<1>6. CountsKept(r)
  BY RequestFacts, CountsAlone DEF UserQueueLabels, AccountQueueLabels
<1>7. /\ req'[r].pc = l /\ req'[r].connected = req[r].connected
      /\ req'[r].locked = FALSE /\ req'[r].lost = x
      /\ l \notin Assigned /\ l \notin HoldsAccount /\ l \in HoldsUser
  BY LabelFacts DEF Moves
<1>8. AccountChosen(r)' /\ HasSlot(r)' /\ HasLock(r)'
  BY <1>7 DEF AccountChosen, HasSlot, HasLock
<1>9. HasUserSlot(r)'
  BY <1>1, <1>7, RequestFacts DEF Sound, HasUserSlot
<1>10. NoStraySlot(r)'
  <2>1. faults' = 0 => faults = 0
    BY <1>3
  <2>2. faults = 0 => /\ \A b \in Accounts : r \in slots[b] => b = a
                      /\ \A v \in Users : r \in userSlots[v] => UserOf[r] = v
    BY RequestFacts DEF Sound, NoStraySlot
  <2>3. QED
    BY <1>2, <1>7, <2>1, <2>2 DEF NoStraySlot
<1>11. QED
  BY <1>2, <1>3, <1>4, <1>5, <1>6, <1>8, <1>9, <1>10, StepKeeps DEF Sound

(* The account is read again under its slot; when that fails the slot is   *)
(* an orphan, not lost from the count.                                     *)
LEMMA HydrateStep ==
  ASSUME GatewayInv, NEW r \in Requests, Hydrate(r), setting' = setting
  PROVE  GatewayInv'
<1> DEFINE a == req[r].account
<1>1. /\ req[r].pc = "hydrate" /\ req[r].locked = FALSE /\ a \in Accounts
      /\ UNCHANGED <<userSlots, userOrphans, wait, accountWait, lock, starting>>
  BY RequestFacts, LabelFacts DEF Hydrate, At
<1>2. wait \in [Users -> Nat] /\ accountWait \in [Accounts -> Nat]
  BY RequestFacts DEF TypeOK
<1>3. CASE Goto(r, "queue") /\ NoFault /\ UNCHANGED <<slots, orphans>>
  <2>1. Moves(r, "queue", req[r].counted, req[r].account, req[r].locked, req[r].lost)
    BY <1>3, RequestFacts, GotoMoves, LabelFacts
  <2>2. Moves(r, "queue", req[r].counted, a, FALSE, req[r].lost)
    BY <1>1, <2>1
  <2>3. CountsKept(r)
    BY <1>1, RequestFacts, CountsAlone DEF UserQueueLabels, AccountQueueLabels
  <2>4. /\ req[r].pc \in HoldsAccount /\ req[r].pc \in HoldsUser
        /\ "queue" \in HoldsAccount /\ "queue" \in HoldsUser
    BY <1>1, LabelFacts
  <2>5. QED
    BY <1>1, <1>2, <1>3, <2>2, <2>3, <2>4, QuietStep
<1>4. CASE Leave(r) /\ ReleaseSlot(r)
  <2>1. Moves(r, "return", FALSE, None, FALSE, req[r].lost \cap {"user"})
    BY <1>4, RequestFacts, LeaveMoves
  <2>2. QED
    BY <1>1, <1>4, <2>1, GiveBackStep DEF ReleaseSlot
<1>5. CASE /\ CallFails(r)
           /\ SelectionExhausted(r)
           /\ slots' = [slots EXCEPT ![a] = @ \ {r}]
           /\ orphans' = [orphans EXCEPT ![a] = IF r \in slots[a] THEN @ + 1 ELSE @]
  <2>1. PICK l \in {"select", "return"}, x \in {req[r].lost, req[r].lost \cap {"user"}}, c \in BOOLEAN :
           Moves(r, l, c, None, FALSE, x)
    BY <1>1, <1>5, ExhaustedEffect
  <2>2. orphans \in [Accounts -> Nat]
    BY RequestFacts DEF TypeOK
  <2>3. \/ UNCHANGED orphans
        \/ r \in slots[a] /\ orphans' = [orphans EXCEPT ![a] = @ + 1]
    BY <1>1, <1>5, <2>2
  <2>4. "user" \in req[r].lost => "user" \in x
    OBVIOUS
  <2>5. QED
    BY <1>1, <1>5, <2>1, <2>3, <2>4, GiveBackStep
<1>6. QED
  BY <1>3, <1>4, <1>5 DEF Hydrate

-----------------------------------------------------------------------------
(* The account's queue and slot, and the serial lock                       *)

(* The queue of the account is entered as that of the user.                *)
LEMMA IncrementAccountStep ==
  ASSUME GatewayInv, NEW r \in Requests, IncrementAccountWaitCount(r), setting' = setting
  PROVE  GatewayInv'
<1> DEFINE a == req[r].account
<1>1. /\ req[r].pc = "accountWait" /\ req[r].locked = FALSE /\ a \in Accounts
      /\ UNCHANGED <<userSlots, userOrphans, slots, orphans, wait, lock, starting>>
  BY RequestFacts, LabelFacts DEF IncrementAccountWaitCount, At
<1>2. wait \in [Users -> Nat] /\ accountWait \in [Accounts -> Nat]
  BY RequestFacts DEF TypeOK
<1>3. [accountWait EXCEPT ![a] = @ + 1] \in [Accounts -> Nat]
  BY <1>1, <1>2
<1>4. /\ req[r].pc \notin HoldsAccount /\ req[r].pc \in HoldsUser
      /\ \A l \in {"accountSlot", "return"} : l \notin HoldsAccount /\ l \in HoldsUser
      /\ "return" \notin Assigned
  BY <1>1, LabelFacts
<1>5. CASE Leave(r) /\ UNCHANGED accountWait /\ NoFault
  <2>1. Moves(r, "return", FALSE, None, FALSE, req[r].lost \cap {"user"})
    BY <1>5, RequestFacts, LeaveMoves
  <2>2. CountsKept(r)
    BY <1>1, <1>5, RequestFacts, CountsAlone DEF UserQueueLabels, AccountQueueLabels
  <2>3. QED
    BY <1>1, <1>2, <1>4, <1>5, <2>1, <2>2, QuietStep
<1>6. CASE /\ req' = [req EXCEPT ![r].pc = "accountSlot", ![r].counted = TRUE]
           /\ accountWait' \in {accountWait, [accountWait EXCEPT ![a] = @ + 1]}
           /\ CallFails(r) \/ NoFault
  <2>1. Moves(r, "accountSlot", TRUE, req[r].account, req[r].locked, req[r].lost)
    BY <1>6, RequestFacts, CountMoves, LabelFacts
  <2>2. Moves(r, "accountSlot", TRUE, a, FALSE, req[r].lost)
    BY <1>1, <2>1
  <2>3. CountsKept(r)
    <3>1. \A b \in Accounts : ~InAccountQueue(r, b) /\ (b = a => InAccountQueue(r, b)')
      BY <1>1, <2>1 DEF InAccountQueue, Moves
    <3>2. \A b \in Accounts : accountWait'[b] <= accountWait[b] \/ (b = a /\ accountWait'[b] <= accountWait[b] + 1)
      BY <1>1, <1>2, <1>6
    <3>3. \A u \in Users : ~InQueue(r, u) /\ wait'[u] <= wait[u]
      BY <1>1, <1>2 DEF InQueue
    <3>4. \A b \in Accounts :
            \/ accountWait'[b] <= accountWait[b] /\ ~InAccountQueue(r, b)
            \/ accountWait'[b] <= accountWait[b] + 1 /\ ~InAccountQueue(r, b) /\ InAccountQueue(r, b)'
      <4>1. SUFFICES ASSUME NEW b \in Accounts, ~(accountWait'[b] <= accountWait[b])
                     PROVE  accountWait'[b] <= accountWait[b] + 1 /\ InAccountQueue(r, b)'
        BY <3>1
      <4>2. b = a /\ accountWait'[b] <= accountWait[b] + 1
        BY <3>2, <4>1
      <4>3. QED
        BY <3>1, <4>2
    <3>5. QED
      BY <3>3, <3>4 DEF CountsKept
  <2>4. QED
    BY <1>1, <1>2, <1>3, <1>4, <1>6, <2>2, <2>3, QuietStep
<1>7. QED
  BY <1>5, <1>6 DEF IncrementAccountWaitCount

(* A waiting request takes the slot of its account with room for it.       *)
LEMMA AcquireAccountStep ==
  ASSUME GatewayInv, NEW r \in Requests, AcquireAccountSlot(r), setting' = setting
  PROVE  GatewayInv'
<1> DEFINE a == req[r].account
<1>1. /\ req[r].pc = "accountSlot" /\ req[r].locked = FALSE /\ a \in Accounts
      /\ UNCHANGED <<userSlots, userOrphans, wait, accountWait, lock, starting>>
  BY RequestFacts, LabelFacts DEF AcquireAccountSlot, At
<1>2. /\ wait \in [Users -> Nat] /\ accountWait \in [Accounts -> Nat]
      /\ slots \in [Accounts -> SUBSET Requests] /\ orphans \in [Accounts -> Nat]
  BY RequestFacts DEF TypeOK
<1>3. /\ faults \in Nat /\ faults' \in {faults, faults + 1} /\ faults' \in 0 .. MaxFaults
      /\ Fault => faults' # 0
  BY RequestFacts, FaultsStep DEF AcquireAccountSlot
<1>4. CASE /\ AccountRoom(a) /\ slots' = [slots EXCEPT ![a] = @ \cup {r}]
           /\ req' = [req EXCEPT ![r].pc = "accountDec", ![r].lost = @ \ {"account"}]
           /\ UNCHANGED orphans
  <2>1. Moves(r, "accountDec", req[r].counted, req[r].account, req[r].locked, req[r].lost \ {"account"})
    BY <1>4, RequestFacts, SlotMoves
  <2>2. /\ slots' \in [Accounts -> SUBSET Requests] /\ slots'[a] = slots[a] \cup {r}
        /\ \A b \in Accounts \ {a} : slots'[b] = slots[b]
    BY <1>1, <1>2, <1>4
  <2>3. RedisTyped
    BY <1>1, <1>3, <1>4, <2>2, RequestFacts DEF TypeOK, RedisTyped
  <2>4. AccountSlotStep(r)
    BY <1>1, <1>2, <1>4, <2>2 DEF AccountSlotStep, SlotStep, AccountRoom
  <2>5. Only(r) /\ UserSlotStep(r) /\ LocksKept(r)
    BY <1>1, <2>1, RequestFacts, SlotsAlone DEF Moves
  <2>6. CountsKept(r)
    BY <1>1, <2>1, RequestFacts, CountsAlone DEF UserQueueLabels, AccountQueueLabels, Moves
  <2>7. AccountChosen(r)' /\ HasSlot(r)' /\ HasLock(r)'
    BY <1>1, <2>1, <2>2 DEF AccountChosen, HasSlot, HasLock, Moves
  <2>8. HasUserSlot(r)'
    BY <1>1, <2>1, LabelFacts, RequestFacts DEF Sound, HasUserSlot, Moves
  <2>9. NoStraySlot(r)'
    <3>1. faults' = 0 => faults = 0
      BY <1>3
    <3>2. faults = 0 => /\ \A b \in Accounts : r \notin slots[b]
                        /\ \A v \in Users : r \in userSlots[v] => UserOf[r] = v
      BY <1>1, LabelFacts, RequestFacts DEF Sound, NoStraySlot
    <3>3. req'[r].pc \in HoldsAccount /\ req'[r].pc \in HoldsUser /\ req'[r].account = a
      BY <2>1, LabelFacts DEF Moves
    <3>4. QED
      BY <1>1, <2>2, <3>1, <3>2, <3>3 DEF NoStraySlot
  <2>10. QED
    BY <1>1, <1>3, <2>3, <2>4, <2>5, <2>6, <2>7, <2>8, <2>9, StepKeeps DEF Sound
<1>5. CASE /\ Goto(r, "accountExit") /\ UNCHANGED slots
           /\ orphans' \in {orphans} \cup {o \in {[orphans EXCEPT ![a] = @ + 1]} : AccountRoom(a)}
           /\ faults' # 0 \/ UNCHANGED orphans
  <2>1. Moves(r, "accountExit", req[r].counted, req[r].account, req[r].locked, req[r].lost)
    BY <1>5, RequestFacts, GotoMoves, LabelFacts
  <2>2. orphans' \in [Accounts -> Nat] /\ AccountSlotStep(r)
    BY <1>1, <1>5, OrphanAdded
  <2>3. RedisTyped
    BY <1>1, <1>3, <1>5, <2>2, RequestFacts DEF TypeOK, RedisTyped
  <2>4. Only(r) /\ UserSlotStep(r) /\ LocksKept(r)
    BY <1>1, <2>1, RequestFacts, SlotsAlone DEF Moves
  <2>5. CountsKept(r)
    BY <1>1, <2>1, RequestFacts, CountsAlone DEF UserQueueLabels, AccountQueueLabels, Moves
  <2>6. AccountChosen(r)' /\ HasSlot(r)' /\ HasLock(r)'
    BY <1>1, <2>1, LabelFacts DEF AccountChosen, HasSlot, HasLock, Moves
  <2>7. HasUserSlot(r)'
    BY <1>1, <2>1, LabelFacts, RequestFacts DEF Sound, HasUserSlot, Moves
  <2>8. NoStraySlot(r)'
    <3>1. faults' = 0 => faults = 0
      BY <1>3
    <3>2. faults = 0 => /\ \A b \in Accounts : r \notin slots[b]
                        /\ \A v \in Users : r \in userSlots[v] => UserOf[r] = v
      BY <1>1, LabelFacts, RequestFacts DEF Sound, NoStraySlot
    <3>3. req'[r].pc \in HoldsUser
      BY <2>1, LabelFacts DEF Moves
    <3>4. QED
      BY <1>1, <1>5, <3>1, <3>2, <3>3 DEF NoStraySlot
  <2>9. QED
    BY <1>1, <1>3, <2>2, <2>3, <2>4, <2>5, <2>6, <2>7, <2>8, StepKeeps DEF Sound
<1>6. QED
  BY <1>3, <1>4, <1>5 DEF AcquireAccountSlot

(* Whichever way the wait for the account ends, its count is taken back.   *)
LEMMA AccountDecStep ==
  ASSUME GatewayInv, NEW r \in Requests, AccountDec(r), setting' = setting
  PROVE  GatewayInv'
<1> DEFINE a == req[r].account
<1>1. /\ req[r].pc \in {"accountDec", "accountExit"} /\ req[r].locked = FALSE /\ a \in Accounts
      /\ UNCHANGED <<userSlots, userOrphans, slots, orphans, wait, lock, starting>>
      /\ DecrementAccountWaitCount(r) /\ (Fault \/ NoFault)
  BY RequestFacts, LabelFacts DEF AccountDec, DecrementAccountWaitCount, At
<1>2. wait \in [Users -> Nat] /\ accountWait \in [Accounts -> Nat]
  BY RequestFacts DEF TypeOK
<1>3. \A n \in Nat : Decrement(n) \in Nat
  BY DEF Decrement
<1>4. accountWait' \in [Accounts -> Nat]
  BY <1>1, <1>2, <1>3 DEF DecrementAccountWaitCount
<1>5. ASSUME faults' = 0
      PROVE  CountsKept(r)
  <2>1. ~Fault
    BY <1>1, <1>5, RequestFacts, FaultsStep
  <2>2. accountWait' = [accountWait EXCEPT ![a] = Decrement(@)]
    BY <1>1, <2>1 DEF DecrementAccountWaitCount
  <2>3. /\ accountWait'[a] = Decrement(accountWait[a])
        /\ \A b \in Accounts \ {a} : accountWait'[b] <= accountWait[b] /\ ~InAccountQueue(r, b)
    BY <1>1, <1>2, <2>2 DEF InAccountQueue
  <2>4. \A u \in Users : ~InQueue(r, u) /\ wait'[u] <= wait[u]
    BY <1>1, <1>2 DEF InQueue
  <2>5. QED
    BY <2>3, <2>4 DEF CountsKept
<1>6. CASE req[r].pc = "accountExit"
  <2>1. Moves(r, "return", FALSE, None, FALSE, req[r].lost \cap {"user"})
    BY <1>6, RequestFacts, LeaveMoves DEF AccountDec
  <2>2. /\ req[r].pc \notin HoldsAccount /\ req[r].pc \in HoldsUser
        /\ "return" \notin HoldsAccount /\ "return" \in HoldsUser /\ "return" \notin Assigned
    BY <1>6, LabelFacts
  <2>3. QED
    BY <1>1, <1>2, <1>4, <1>5, <2>1, <2>2, QuietStep
<1>7. CASE req[r].pc = "accountDec"
  <2>1. Moves(r, "queue", FALSE, req[r].account, req[r].locked, req[r].lost)
    BY <1>7, RequestFacts, CountMoves, LabelFacts DEF AccountDec
  <2>2. Moves(r, "queue", FALSE, a, FALSE, req[r].lost)
    BY <1>1, <2>1
  <2>3. /\ req[r].pc \in HoldsAccount /\ req[r].pc \in HoldsUser
        /\ "queue" \in HoldsAccount /\ "queue" \in HoldsUser
    BY <1>7, LabelFacts
  <2>4. QED
    BY <1>1, <1>2, <1>4, <1>5, <2>2, <2>3, QuietStep
<1>8. QED
  BY <1>1, <1>6, <1>7

(* The serial lock is taken when it is free and given up by its holder.    *)
LEMMA LockStep ==
  ASSUME GatewayInv, NEW r \in Requests, setting' = setting,
         req[r].pc \in {"queue", "forward"},
         NEW k \in BOOLEAN, NEW x, NEW v \in {r, None, Orphan},
         Moves(r, "forward", req[r].counted, req[r].account, k, x), req[r].lost \ {"lock"} \subseteq x,
         lock[req[r].account] \in {None, r}, lock' = [lock EXCEPT ![req[r].account] = v], k => v = r,
         UNCHANGED <<userSlots, userOrphans, slots, orphans, wait, accountWait, starting>>,
         Fault \/ NoFault
  PROVE  GatewayInv'
<1> DEFINE a == req[r].account
<1>1. /\ a \in Accounts /\ lock \in [Accounts -> Requests \cup {None, Orphan}]
      /\ req[r].pc \in HoldsAccount /\ req[r].pc \in HoldsUser
      /\ "forward" \in HoldsAccount /\ "forward" \in HoldsUser /\ "forward" \in Assigned
  BY RequestFacts, LabelFacts DEF TypeOK
<1>2. /\ lock' \in [Accounts -> Requests \cup {None, Orphan}] /\ lock'[a] = v
      /\ \A b \in Accounts \ {a} : lock'[b] = lock[b]
  BY <1>1
<1>3. faults \in Nat /\ faults' \in {faults, faults + 1} /\ faults' \in 0 .. MaxFaults
  BY RequestFacts, FaultsStep
<1>4. RedisTyped
  BY <1>2, <1>3, RequestFacts DEF TypeOK, RedisTyped
<1>5. Only(r) /\ AccountSlotStep(r) /\ UserSlotStep(r)
  BY RequestFacts, SlotsAlone DEF Moves
<1>6. LocksKept(r)
  BY <1>2, GatewayAssumption DEF LocksKept
<1>7. CountsKept(r)
  BY RequestFacts, CountsAlone DEF UserQueueLabels, AccountQueueLabels
<1>8. /\ req'[r].pc = "forward" /\ req'[r].connected = req[r].connected
      /\ req'[r].account = a /\ req'[r].locked = k /\ req'[r].lost = x
  BY DEF Moves
<1>9. /\ "account" \in req[r].lost => "account" \in x
      /\ "user" \in req[r].lost => "user" \in x
  OBVIOUS
<1>10. AccountChosen(r)' /\ HasLock(r)'
  BY <1>1, <1>2, <1>8 DEF AccountChosen, HasLock
<1>11. HasSlot(r)' /\ HasUserSlot(r)'
  BY <1>1, <1>8, <1>9, RequestFacts DEF Sound, HasSlot, HasUserSlot
<1>12. NoStraySlot(r)'
  <2>1. faults' = 0 => faults = 0
    BY <1>3
  <2>2. QED
    BY <1>1, <1>8, <2>1, RequestFacts DEF Sound, NoStraySlot
<1>13. QED
  BY <1>3, <1>4, <1>5, <1>6, <1>7, <1>10, <1>11, <1>12, StepKeeps DEF Sound

(* The serial lock is taken when it is free.                               *)
LEMMA AcquireLockStep ==
  ASSUME GatewayInv, NEW r \in Requests, AcquireLock(r), setting' = setting
  PROVE  GatewayInv'
<1> DEFINE a == req[r].account
<1>1. /\ req[r].pc = "queue" /\ req[r].locked = FALSE /\ a \in Accounts
      /\ UNCHANGED <<userSlots, userOrphans, slots, orphans, wait, accountWait, starting>>
      /\ Fault \/ NoFault
  BY RequestFacts, LabelFacts DEF AcquireLock, At
<1>2. wait \in [Users -> Nat] /\ accountWait \in [Accounts -> Nat]
  BY RequestFacts DEF TypeOK
<1>3. CASE /\ lock[a] = None /\ lock' = [lock EXCEPT ![a] = r]
           /\ req' = [req EXCEPT ![r].pc = "forward", ![r].locked = TRUE, ![r].lost = @ \ {"lock"}]
  <2>1. Moves(r, "forward", req[r].counted, req[r].account, TRUE, req[r].lost \ {"lock"})
    BY <1>3, RequestFacts, LockMoves
  <2>2. QED
    BY <1>1, <1>3, <2>1, LockStep
<1>4. ASSUME Goto(r, "forward")
      PROVE  Moves(r, "forward", req[r].counted, req[r].account, FALSE, req[r].lost)
  <2>1. Moves(r, "forward", req[r].counted, req[r].account, req[r].locked, req[r].lost)
    BY <1>4, RequestFacts, GotoMoves, LabelFacts
  <2>2. QED
    BY <1>1, <2>1
<1>5. CASE Goto(r, "forward") /\ UNCHANGED lock
  <2>1. CountsKept(r)
    BY <1>1, RequestFacts, CountsAlone DEF UserQueueLabels, AccountQueueLabels
  <2>2. /\ req[r].pc \in HoldsAccount /\ req[r].pc \in HoldsUser
        /\ "forward" \in HoldsAccount /\ "forward" \in HoldsUser
    BY <1>1, LabelFacts
  <2>3. QED
    BY <1>1, <1>2, <1>4, <1>5, <2>1, <2>2, QuietStep
<1>6. CASE Goto(r, "forward") /\ lock[a] = None /\ lock' = [lock EXCEPT ![a] = Orphan]
  BY <1>1, <1>4, <1>6, LockStep
<1>7. QED
  BY <1>3, <1>5, <1>6 DEF AcquireLock

(* The serial lock is released by its owner only.                          *)
LEMMA QueueReleaseStep ==
  ASSUME GatewayInv, NEW r \in Requests, QueueRelease(r), setting' = setting
  PROVE  GatewayInv'
<1> DEFINE a == req[r].account
<1>1. /\ req[r].pc = "forward" /\ a \in Accounts
      /\ UNCHANGED <<userSlots, userOrphans, slots, orphans, wait, accountWait, starting>>
      /\ Fault \/ NoFault
  BY RequestFacts, LabelFacts DEF QueueRelease, At
<1>2. wait \in [Users -> Nat] /\ accountWait \in [Accounts -> Nat]
  BY RequestFacts DEF TypeOK
<1>3. Moves(r, "forward", req[r].counted, req[r].account, FALSE, req[r].lost)
  <2>1. Moves(r, req[r].pc, req[r].counted, req[r].account, FALSE, req[r].lost)
    BY RequestFacts, UnlockMoves DEF QueueRelease
  <2>2. QED
    BY <1>1, <2>1
<1>4. CASE UNCHANGED lock
  <2>1. CountsKept(r)
    BY <1>1, RequestFacts, CountsAlone DEF UserQueueLabels, AccountQueueLabels
  <2>2. /\ req[r].pc \in HoldsAccount /\ req[r].pc \in HoldsUser
        /\ "forward" \in HoldsAccount /\ "forward" \in HoldsUser
    BY <1>1, LabelFacts
  <2>3. QED
    BY <1>1, <1>2, <1>3, <1>4, <2>1, <2>2, QuietStep
<1>5. CASE lock[a] = r /\ lock' = [lock EXCEPT ![a] = None]
  BY <1>1, <1>3, <1>5, LockStep
<1>6. CASE lock[a] = r /\ lock' = [lock EXCEPT ![a] = Orphan]
  BY <1>1, <1>3, <1>6, LockStep
<1>7. QED
  BY <1>4, <1>5, <1>6 DEF QueueRelease, Unlocked

(* When upstream answered, slot and lock of the account are given back,    *)
(* for good or before the next attempt.                                    *)
LEMMA ForwardEndsStep ==
  ASSUME GatewayInv, NEW r \in Requests, ForwardEnds(r), setting' = setting
  PROVE  GatewayInv'
<1>1. /\ req[r].pc = "forward" /\ req[r].account \in Accounts
      /\ UNCHANGED <<userSlots, userOrphans, wait, accountWait, lock, starting>>
      /\ slots' = [slots EXCEPT ![req[r].account] = @ \ {r}]
      /\ \/ UNCHANGED orphans
         \/ r \in slots[req[r].account] /\ orphans' = [orphans EXCEPT ![req[r].account] = @ + 1]
      /\ Fault \/ NoFault
  BY RequestFacts, LabelFacts DEF ForwardEnds, At, ReleaseSlot
<1>2. \/ Moves(r, "select", req[r].counted, None, FALSE, req[r].lost \ {"account", "lock"})
      \/ Moves(r, "return", FALSE, None, FALSE, req[r].lost \cap {"user"})
  <2>1. CASE Leave(r)
    BY <2>1, RequestFacts, LeaveMoves
  <2>2. CASE \E retryable, unavailable \in BOOLEAN : AfterFailover(r, retryable, unavailable)
    BY <1>1, <2>2, RequestFacts, FailoverMoves
  <2>3. QED
    BY <2>1, <2>2 DEF ForwardEnds
<1>3. CASE Moves(r, "select", req[r].counted, None, FALSE, req[r].lost \ {"account", "lock"})
  <2>1. "user" \in req[r].lost => "user" \in req[r].lost \ {"account", "lock"}
    OBVIOUS
  <2>2. QED
    BY <1>1, <1>3, <2>1, GiveBackStep
<1>4. CASE Moves(r, "return", FALSE, None, FALSE, req[r].lost \cap {"user"})
  <2>1. "user" \in req[r].lost => "user" \in req[r].lost \cap {"user"}
    OBVIOUS
  <2>2. QED
    BY <1>1, <1>4, <2>1, GiveBackStep
<1>5. QED
  BY <1>2, <1>3, <1>4

-----------------------------------------------------------------------------
(* Clients that go away                                                    *)

(* A request without a client gives slots back and relies on none.         *)
LEMMA GoneStep ==
  ASSUME GatewayInv, NEW r \in Requests, setting' = setting, Only(r),
         req'[r].connected = FALSE, req'[r].pc = req[r].pc, req'[r].counted = req[r].counted,
         req'[r].account = req[r].account, req'[r].locked = req[r].locked,
         "lock" \in req[r].lost => "lock" \in req'[r].lost,
         AccountSlotStep(r), UserSlotStep(r),
         slots' \in [Accounts -> SUBSET Requests], orphans' \in [Accounts -> Nat],
         userSlots' \in [Users -> SUBSET Requests], userOrphans' \in [Users -> Nat],
         \A a \in Accounts : slots'[a] \subseteq slots[a],
         \A u \in Users : userSlots'[u] \subseteq userSlots[u],
         faults' \in {faults, faults + 1}, faults' \in 0 .. MaxFaults,
         faults' = 0 => userOrphans' = userOrphans,
         UNCHANGED <<wait, accountWait, lock, starting>>
  PROVE  GatewayInv'
<1>1. RedisTyped
  BY RequestFacts DEF TypeOK, RedisTyped
<1>2. LocksKept(r)
  BY DEF LocksKept
<1>3. CountsKept(r)
  BY RequestFacts, CountsAlone
<1>4. AccountChosen(r)' /\ HasLock(r)'
  BY RequestFacts DEF Sound, AccountChosen, HasLock
<1>5. HasSlot(r)' /\ HasUserSlot(r)'
  BY DEF HasSlot, HasUserSlot
<1>6. NoStraySlot(r)'
  <2>1. faults \in Nat
    BY RequestFacts
  <2>2. faults' = 0 => faults = 0
    BY <2>1
  <2>3. QED
    BY <2>2, RequestFacts DEF Sound, NoStraySlot
<1>7. QED
  BY <1>1, <1>2, <1>3, <1>4, <1>5, <1>6, StepKeeps DEF Sound

(* Slots and orphans of r that change or not.                              *)
LEMMA SlotsMayGo ==
  ASSUME GatewayInv, NEW r \in Requests, NEW a,
         \/ UNCHANGED slots
         \/ a \in Accounts /\ slots' = [slots EXCEPT ![a] = @ \ {r}],
         \/ UNCHANGED orphans
         \/ /\ a \in Accounts /\ r \in slots[a] \ slots'[a]
            /\ orphans' = [orphans EXCEPT ![a] = @ + 1]
  PROVE  /\ slots' \in [Accounts -> SUBSET Requests] /\ orphans' \in [Accounts -> Nat]
         /\ AccountSlotStep(r) /\ \A b \in Accounts : slots'[b] \subseteq slots[b]
<1>1. slots \in [Accounts -> SUBSET Requests] /\ orphans \in [Accounts -> Nat] /\ TypeOK
  BY DEF GatewayInv, TypeOK
<1>2. CASE UNCHANGED slots
  <2>1. UNCHANGED orphans
    BY <1>2
  <2>2. QED
    BY <1>1, <1>2, <2>1, SlotsAlone
<1>3. CASE a \in Accounts /\ slots' = [slots EXCEPT ![a] = @ \ {r}]
  BY <1>3, AccountRelease
<1>4. QED
  BY <1>2, <1>3

(* A client that left may lose its user slot: nothing is said of its       *)
(* entries any more.                                                       *)
LEMMA UserSlotsMayGo ==
  ASSUME GatewayInv, NEW r \in Requests,
         \/ UNCHANGED userSlots
         \/ userSlots' = [userSlots EXCEPT ![UserOf[r]] = @ \ {r}],
         \/ UNCHANGED userOrphans
         \/ /\ r \in userSlots[UserOf[r]] \ userSlots'[UserOf[r]]
            /\ userOrphans' = [userOrphans EXCEPT ![UserOf[r]] = @ + 1]
  PROVE  /\ userSlots' \in [Users -> SUBSET Requests] /\ userOrphans' \in [Users -> Nat]
         /\ UserSlotStep(r) /\ \A v \in Users : userSlots'[v] \subseteq userSlots[v]
<1> DEFINE u == UserOf[r]
<1>1. /\ userSlots \in [Users -> SUBSET Requests] /\ userOrphans \in [Users -> Nat]
      /\ TypeOK /\ u \in Users
  BY RequestFacts DEF TypeOK
<1>2. CASE UNCHANGED userSlots
  <2>1. UNCHANGED userOrphans
    BY <1>2
  <2>2. QED
    BY <1>1, <1>2, <2>1, SlotsAlone
<1>3. CASE userSlots' = [userSlots EXCEPT ![u] = @ \ {r}]
  <2>1. /\ userSlots' \in [Users -> SUBSET Requests] /\ userSlots'[u] = userSlots[u] \ {r}
        /\ \A v \in Users \ {u} : userSlots'[v] = userSlots[v]
    BY <1>1, <1>3
  <2>2. CASE UNCHANGED userOrphans
    BY <1>1, <2>1, <2>2 DEF UserSlotStep, SlotStep
  <2>3. CASE r \in userSlots[u] /\ userOrphans' = [userOrphans EXCEPT ![u] = @ + 1]
    <3>1. /\ userOrphans' \in [Users -> Nat] /\ userOrphans'[u] = userOrphans[u] + 1
          /\ \A v \in Users \ {u} : userOrphans'[v] = userOrphans[v]
      BY <1>1, <2>3
    <3>2. UserSlotStep(r)
      BY <1>1, <2>1, <2>3, <3>1 DEF UserSlotStep, SlotStep
    <3>3. QED
      BY <2>1, <3>1, <3>2
  <2>4. QED
    BY <2>2, <2>3
<1>4. QED
  BY <1>2, <1>3

(* When a client leaves, its slots are released at once by the callbacks   *)
(* of its context.                                                         *)
LEMMA DisconnectStep ==
  ASSUME GatewayInv, NEW r \in Requests, Disconnect(r), setting' = setting
  PROVE  GatewayInv'
<1> DEFINE a == req[r].account
           u == UserOf[r]
<1>1. /\ Only(r) /\ req'[r].connected = FALSE
      /\ req'[r].pc = req[r].pc /\ req'[r].counted = req[r].counted
      /\ req'[r].account = req[r].account /\ req'[r].locked = req[r].locked
      /\ "lock" \in req[r].lost => "lock" \in req'[r].lost
  BY RequestFacts, DisconnectMoves DEF Disconnect
<1>2. \/ UNCHANGED slots
      \/ a \in Accounts /\ slots' = [slots EXCEPT ![a] = @ \ {r}]
  BY RequestFacts, LabelFacts DEF Disconnect
<1>3. \/ UNCHANGED orphans
      \/ a \in Accounts /\ r \in slots[a] \ slots'[a] /\ orphans' = [orphans EXCEPT ![a] = @ + 1]
  <2>1. UNCHANGED slots => slots[a] \ slots'[a] = {}
    OBVIOUS
  <2>2. QED
    BY <1>2, <2>1 DEF Disconnect
<1>4. /\ slots' \in [Accounts -> SUBSET Requests] /\ orphans' \in [Accounts -> Nat]
      /\ AccountSlotStep(r) /\ \A b \in Accounts : slots'[b] \subseteq slots[b]
  BY <1>2, <1>3, SlotsMayGo
<1>5. \/ UNCHANGED userSlots
      \/ userSlots' = [userSlots EXCEPT ![u] = @ \ {r}]
  BY DEF Disconnect
<1>6. \/ UNCHANGED userOrphans
      \/ r \in userSlots[u] \ userSlots'[u] /\ userOrphans' = [userOrphans EXCEPT ![u] = @ + 1]
  BY DEF Disconnect
<1>7. /\ userSlots' \in [Users -> SUBSET Requests] /\ userOrphans' \in [Users -> Nat]
      /\ UserSlotStep(r) /\ \A v \in Users : userSlots'[v] \subseteq userSlots[v]
  BY <1>5, <1>6, UserSlotsMayGo
<1>8. /\ Fault \/ NoFault
      /\ UNCHANGED userOrphans \/ Fault
      /\ UNCHANGED <<wait, accountWait, lock, starting>>
  BY DEF Disconnect
<1>9. /\ faults' \in {faults, faults + 1} /\ faults' \in 0 .. MaxFaults
      /\ Fault => faults' # 0
  BY <1>8, RequestFacts, FaultsStep
<1>10. QED
  BY <1>1, <1>4, <1>7, <1>8, <1>9, GoneStep

(* A callback that runs late finds a client that left.                     *)
LEMMA AlreadyDoneStep ==
  ASSUME GatewayInv, NEW r \in Requests, AlreadyDone(r), setting' = setting
  PROVE  GatewayInv'
<1>1. UNCHANGED req /\ req[r].connected = FALSE /\ Only(r) /\ TypeOK
  BY RequestFacts DEF AlreadyDone, Only
<1>2. CASE ReleaseUserSlot(r)
  <2>1. /\ UNCHANGED <<slots, orphans, wait, accountWait, lock, starting>>
        /\ userSlots' \in [Users -> SUBSET Requests] /\ userOrphans' \in [Users -> Nat]
        /\ UserSlotStep(r) /\ faults' \in {faults, faults + 1} /\ faults' \in 0 .. MaxFaults
        /\ faults' = 0 => userOrphans' = userOrphans
        /\ \A v \in Users : userSlots'[v] \subseteq userSlots[v]
    BY <1>2, UserRelease
  <2>2. /\ slots' \in [Accounts -> SUBSET Requests] /\ orphans' \in [Accounts -> Nat]
        /\ AccountSlotStep(r) /\ \A b \in Accounts : slots'[b] \subseteq slots[b]
    BY <1>1, <2>1, SlotsAlone DEF TypeOK
  <2>3. QED
    BY <1>1, <2>1, <2>2, GoneStep
<1>3. CASE /\ req[r].pc \in {"queue", "forward"} /\ ReleaseSlot(r)
           /\ UNCHANGED <<userSlots, userOrphans, wait, accountWait, lock, starting>>
  <2>1. /\ req[r].account \in Accounts /\ slots' = [slots EXCEPT ![req[r].account] = @ \ {r}]
        /\ \/ UNCHANGED orphans
           \/ r \in slots[req[r].account] /\ orphans' = [orphans EXCEPT ![req[r].account] = @ + 1]
        /\ Fault \/ NoFault
    BY <1>3, RequestFacts, LabelFacts DEF ReleaseSlot
  <2>2. /\ slots' \in [Accounts -> SUBSET Requests] /\ orphans' \in [Accounts -> Nat]
        /\ AccountSlotStep(r) /\ \A b \in Accounts : slots'[b] \subseteq slots[b]
    BY <2>1, AccountRelease
  <2>3. /\ userSlots' \in [Users -> SUBSET Requests] /\ userOrphans' \in [Users -> Nat]
        /\ UserSlotStep(r) /\ \A v \in Users : userSlots'[v] \subseteq userSlots[v]
    BY <1>1, <1>3, SlotsAlone DEF TypeOK
  <2>4. faults' \in {faults, faults + 1} /\ faults' \in 0 .. MaxFaults
    BY <1>1, <2>1, FaultsStep
  <2>5. QED
    BY <1>1, <1>3, <2>2, <2>3, <2>4, GoneStep
<1>4. QED
  BY <1>2, <1>3 DEF AlreadyDone

-----------------------------------------------------------------------------
(* Expiry, crashes and the cleanup of a process that starts                *)

(* Counters that do not rise, while the queues stay as they are.            *)
LEMMA CountersFall ==
  ASSUME TypeOK, CountersDoNotLeak, RedisTyped, faults' = 0 => faults = 0,
         \A q \in Requests : /\ req'[q].pc = req[q].pc /\ req'[q].counted = req[q].counted
                             /\ req'[q].account = req[q].account,
         \A a \in Accounts : accountWait'[a] <= accountWait[a],
         \A u \in Users : wait'[u] <= wait[u]
  PROVE  CountersDoNotLeak'
<1>1. /\ wait \in [Users -> Nat] /\ accountWait \in [Accounts -> Nat]
      /\ wait' \in [Users -> Nat] /\ accountWait' \in [Accounts -> Nat]
  BY DEF TypeOK, RedisTyped
<1>2. /\ \A u \in Users : Queue(u)' = Queue(u) /\ IsFiniteSet(Queue(u))
      /\ \A a \in Accounts : AccountQueue(a)' = AccountQueue(a) /\ IsFiniteSet(AccountQueue(a))
  BY GatewayAssumption, FS_Subset DEF Queue, InQueue, AccountQueue, InAccountQueue
<1>3. SUFFICES ASSUME faults' = 0
               PROVE  /\ \A u \in Users : wait'[u] <= Cardinality(Queue(u)')
                      /\ \A a \in Accounts : accountWait'[a] <= Cardinality(AccountQueue(a)')
  <2>1. \A u \in Users : Queue(u)' = {q \in Counted({"userSlot", "exitDec", "decWait"})' : UserOf[q] = u}
    BY DEF Queue, InQueue, Counted
  <2>2. \A a \in Accounts :
          AccountQueue(a)' = {q \in Counted({"accountSlot", "accountDec", "accountExit"})' : req'[q].account = a}
    BY DEF AccountQueue, InAccountQueue, Counted
  <2>3. QED
    BY <2>1, <2>2 DEF CountersDoNotLeak
<1>4. /\ \A u \in Users : wait[u] <= Cardinality(Queue(u))
      /\ \A a \in Accounts : accountWait[a] <= Cardinality(AccountQueue(a))
  BY <1>3, CountersAreQueues
<1>5. ASSUME NEW u \in Users
      PROVE  wait'[u] <= Cardinality(Queue(u)')
  <2>1. /\ wait'[u] \in Nat /\ wait[u] \in Nat /\ wait'[u] <= wait[u]
        /\ Cardinality(Queue(u)) \in Nat /\ Cardinality(Queue(u)') = Cardinality(Queue(u))
    BY <1>1, <1>2, FS_CardinalityType
  <2>2. QED
    BY <1>4, <2>1
<1>6. ASSUME NEW a \in Accounts
      PROVE  accountWait'[a] <= Cardinality(AccountQueue(a)')
  <2>1. /\ accountWait'[a] \in Nat /\ accountWait[a] \in Nat /\ accountWait'[a] <= accountWait[a]
        /\ Cardinality(AccountQueue(a)) \in Nat
        /\ Cardinality(AccountQueue(a)') = Cardinality(AccountQueue(a))
    BY <1>1, <1>2, FS_CardinalityType
  <2>2. QED
    BY <1>4, <2>1
<1>7. QED
  BY <1>5, <1>6

(* What happens to orphans, to abandoned locks and to counters touches no  *)
(* request.                                                                *)
LEMMA RedisStep ==
  ASSUME GatewayInv, setting' = setting, RedisTyped, faults' \in {faults, faults + 1},
         UNCHANGED <<req, userSlots, slots>>,
         \A a \in Accounts : /\ orphans'[a] <= orphans[a] /\ accountWait'[a] <= accountWait[a]
                             /\ lock[a] \in Requests => lock'[a] = lock[a],
         \A u \in Users : userOrphans'[u] <= userOrphans[u] /\ wait'[u] <= wait[u]
  PROVE  GatewayInv'
<1>1. /\ TypeOK /\ faults \in Nat /\ req \in [Requests -> Request] /\ setting \in Settings
      /\ wait \in [Users -> Nat] /\ accountWait \in [Accounts -> Nat]
      /\ wait' \in [Users -> Nat] /\ accountWait' \in [Accounts -> Nat]
      /\ userOrphans \in [Users -> Nat] /\ userOrphans' \in [Users -> Nat]
  BY GatewayAssumption DEF GatewayInv, TypeOK, RedisTyped
<1>2. faults' = 0 => faults = 0
  BY <1>1
<1>3. TypeOK'
  <2>1. req' \in [Requests -> Request]
    BY <1>1
  <2>2. QED
    BY <1>1, <2>1, TypeFrame
<1>4. ASSUME NEW r \in Requests
      PROVE  Sound(r)'
  <2>1. Sound(r) /\ (req[r].pc \in Assigned => req[r].account \in Accounts)
    BY <1>4, RequestFacts
  <2>2. AccountChosen(r)' /\ HasSlot(r)' /\ HasUserSlot(r)' /\ NoStraySlot(r)'
    BY <1>2, <2>1 DEF Sound, AccountChosen, HasSlot, HasUserSlot, NoStraySlot
  <2>3. HasLock(r)'
    BY <2>1, LabelFacts DEF Sound, HasLock
  <2>4. QED
    BY <2>2, <2>3 DEF Sound
<1>5. AccountsFit' /\ UsersFit'
  <2>1. AccountSlotStep(None) /\ UserSlotStep(None)
    BY DEF AccountSlotStep, UserSlotStep, SlotStep
  <2>2. QED
    BY <1>1, <2>1, FitsStep DEF GatewayInv
<1>6. NoUserOrphan'
  <2>1. ASSUME faults' = 0, NEW u \in Users
        PROVE  userOrphans'[u] = 0
    <3>1. userOrphans[u] = 0 /\ userOrphans'[u] \in Nat /\ userOrphans'[u] <= userOrphans[u]
      BY <1>1, <1>2, <2>1 DEF GatewayInv, NoUserOrphan
    <3>2. QED
      BY <3>1
  <2>2. QED
    BY <2>1 DEF NoUserOrphan
<1>7. CountersDoNotLeak'
  BY <1>1, <1>2, CountersFall DEF GatewayInv
<1>8. QED
  BY <1>3, <1>4, <1>5, <1>6, <1>7 DEF GatewayInv

(* The step costs a failure or none.                                       *)
LEMMA FaultCounts ==
  ASSUME TypeOK, Fault \/ NoFault
  PROVE  /\ faults \in Nat /\ faults' \in {faults, faults + 1} /\ faults' \in 0 .. MaxFaults
         /\ Fault => faults' # 0
BY GatewayAssumption DEF TypeOK, Fault, NoFault

(* A user slot that expires under its request is marked as lost there.     *)
LEMMA ExpireUserSlotStep ==
  ASSUME GatewayInv, NEW u \in Users, ExpireUserSlot(u), setting' = setting
  PROVE  GatewayInv'
<1>1. /\ TypeOK /\ userSlots \in [Users -> SUBSET Requests] /\ userOrphans \in [Users -> Nat]
      /\ orphans \in [Accounts -> Nat] /\ wait \in [Users -> Nat] /\ accountWait \in [Accounts -> Nat]
      /\ UNCHANGED <<slots, orphans, wait, accountWait, lock, starting>> /\ (Fault \/ NoFault)
  BY DEF GatewayInv, TypeOK, ExpireUserSlot
<1>2. /\ faults \in Nat /\ faults' \in {faults, faults + 1} /\ faults' \in 0 .. MaxFaults
      /\ Fault => faults' # 0
  BY <1>1, FaultCounts
<1>3. CASE /\ userOrphans[u] > 0 /\ userOrphans' = [userOrphans EXCEPT ![u] = @ - 1]
           /\ UNCHANGED <<req, userSlots>>
  <2>1. /\ userOrphans' \in [Users -> Nat] /\ \A v \in Users : userOrphans'[v] <= userOrphans[v]
    BY <1>1, <1>3
  <2>2. RedisTyped
    BY <1>1, <1>2, <1>3, <2>1 DEF TypeOK, RedisTyped
  <2>3. /\ \A a \in Accounts : orphans'[a] <= orphans[a] /\ accountWait'[a] <= accountWait[a]
        /\ \A v \in Users : wait'[v] <= wait[v]
    BY <1>1
  <2>4. QED
    BY <1>1, <1>2, <1>3, <2>1, <2>2, <2>3, RedisStep
<1>4. ASSUME NEW r \in userSlots[u], userSlots' = [userSlots EXCEPT ![u] = @ \ {r}],
             Lose(r, "user"), UNCHANGED userOrphans, Fault
      PROVE  GatewayInv'
  <2>1. r \in Requests /\ "user" \in Resources
    BY <1>1, <1>4 DEF Resources
  <2>2. Moves(r, req[r].pc, req[r].counted, req[r].account, req[r].locked, req[r].lost \cup {"user"})
    BY <1>4, <2>1, RequestFacts, LoseMoves
  <2>3. /\ userSlots' \in [Users -> SUBSET Requests] /\ userSlots'[u] = userSlots[u] \ {r}
        /\ \A v \in Users \ {u} : userSlots'[v] = userSlots[v]
    BY <1>1, <1>4
  <2>4. RedisTyped
    BY <1>1, <1>2, <1>4, <2>3 DEF TypeOK, RedisTyped
  <2>5. UserSlotStep(r)
    BY <1>1, <1>4, <2>3 DEF UserSlotStep, SlotStep
  <2>6. Only(r) /\ AccountSlotStep(r) /\ LocksKept(r)
    BY <1>1, <2>2, SlotsAlone DEF Moves
  <2>7. AccountChosen(r)' /\ HasSlot(r)' /\ HasLock(r)'
    BY <1>1, <2>1, <2>2, RequestFacts DEF Sound, AccountChosen, HasSlot, HasLock, Moves
  <2>8. HasUserSlot(r)' /\ NoStraySlot(r)'
    BY <1>2, <1>4, <2>2 DEF HasUserSlot, NoStraySlot, Moves
  <2>9. QED
    BY <1>2, <1>4, <2>1, <2>4, <2>5, <2>6, <2>7, <2>8, StepKeeps DEF Sound
<1>5. QED
  BY <1>3, <1>4 DEF ExpireUserSlot

(* A slot of an account that expires under its request is marked as lost   *)
(* there.                                                                  *)
LEMMA ExpireSlotStep ==
  ASSUME GatewayInv, NEW a \in Accounts, ExpireSlot(a), setting' = setting
  PROVE  GatewayInv'
<1>1. /\ TypeOK /\ slots \in [Accounts -> SUBSET Requests] /\ orphans \in [Accounts -> Nat]
      /\ userOrphans \in [Users -> Nat] /\ wait \in [Users -> Nat] /\ accountWait \in [Accounts -> Nat]
      /\ UNCHANGED <<userSlots, userOrphans, wait, accountWait, lock, starting>> /\ (Fault \/ NoFault)
  BY DEF GatewayInv, TypeOK, ExpireSlot
<1>2. /\ faults \in Nat /\ faults' \in {faults, faults + 1} /\ faults' \in 0 .. MaxFaults
      /\ Fault => faults' # 0
  BY <1>1, FaultCounts
<1>3. CASE /\ orphans[a] > 0 /\ orphans' = [orphans EXCEPT ![a] = @ - 1]
           /\ UNCHANGED <<req, slots>>
  <2>1. /\ orphans' \in [Accounts -> Nat] /\ \A b \in Accounts : orphans'[b] <= orphans[b]
    BY <1>1, <1>3
  <2>2. RedisTyped
    BY <1>1, <1>2, <1>3, <2>1 DEF TypeOK, RedisTyped
  <2>3. /\ \A b \in Accounts : accountWait'[b] <= accountWait[b]
        /\ \A v \in Users : userOrphans'[v] <= userOrphans[v] /\ wait'[v] <= wait[v]
    BY <1>1
  <2>4. QED
    BY <1>1, <1>2, <1>3, <2>1, <2>2, <2>3, RedisStep
<1>4. ASSUME NEW r \in slots[a], slots' = [slots EXCEPT ![a] = @ \ {r}],
             Lose(r, "account"), UNCHANGED orphans, Fault
      PROVE  GatewayInv'
  <2>1. r \in Requests /\ "account" \in Resources
    BY <1>1, <1>4 DEF Resources
  <2>2. Moves(r, req[r].pc, req[r].counted, req[r].account, req[r].locked, req[r].lost \cup {"account"})
    BY <1>4, <2>1, RequestFacts, LoseMoves
  <2>3. /\ slots' \in [Accounts -> SUBSET Requests] /\ slots'[a] = slots[a] \ {r}
        /\ \A b \in Accounts \ {a} : slots'[b] = slots[b]
    BY <1>1, <1>4
  <2>4. RedisTyped
    BY <1>1, <1>2, <1>4, <2>3 DEF TypeOK, RedisTyped
  <2>5. AccountSlotStep(r)
    BY <1>1, <1>4, <2>3 DEF AccountSlotStep, SlotStep
  <2>6. Only(r) /\ UserSlotStep(r) /\ LocksKept(r)
    BY <1>1, <2>2, SlotsAlone DEF Moves
  <2>7. AccountChosen(r)' /\ HasUserSlot(r)' /\ HasLock(r)'
    BY <1>1, <2>1, <2>2, RequestFacts DEF Sound, AccountChosen, HasUserSlot, HasLock, Moves
  <2>8. HasSlot(r)' /\ NoStraySlot(r)'
    BY <1>2, <1>4, <2>2 DEF HasSlot, NoStraySlot, Moves
  <2>9. QED
    BY <1>1, <1>2, <1>4, <2>1, <2>4, <2>5, <2>6, <2>7, <2>8, StepKeeps DEF Sound
<1>5. QED
  BY <1>3, <1>4 DEF ExpireSlot

(* A serial lock that expires under its request is marked as lost there.   *)
LEMMA ExpireLockStep ==
  ASSUME GatewayInv, NEW a \in Accounts, ExpireLock(a), setting' = setting
  PROVE  GatewayInv'
<1>1. /\ TypeOK /\ lock \in [Accounts -> Requests \cup {None, Orphan}] /\ orphans \in [Accounts -> Nat]
      /\ userOrphans \in [Users -> Nat] /\ wait \in [Users -> Nat] /\ accountWait \in [Accounts -> Nat]
      /\ UNCHANGED <<userSlots, userOrphans, slots, orphans, wait, accountWait, starting>>
      /\ lock[a] # None /\ lock' = [lock EXCEPT ![a] = None] /\ (Fault \/ NoFault)
  BY DEF GatewayInv, TypeOK, ExpireLock
<1>2. /\ faults \in Nat /\ faults' \in {faults, faults + 1} /\ faults' \in 0 .. MaxFaults
      /\ Fault => faults' # 0
  BY <1>1, FaultCounts
<1>3. /\ lock' \in [Accounts -> Requests \cup {None, Orphan}] /\ lock'[a] = None
      /\ \A b \in Accounts \ {a} : lock'[b] = lock[b]
  BY <1>1
<1>4. RedisTyped
  BY <1>1, <1>2, <1>3 DEF TypeOK, RedisTyped
<1>5. CASE lock[a] = Orphan /\ UNCHANGED req
  <2>1. \A b \in Accounts : lock[b] \in Requests => lock'[b] = lock[b]
    BY <1>3, <1>5, GatewayAssumption
  <2>2. /\ \A b \in Accounts : orphans'[b] <= orphans[b] /\ accountWait'[b] <= accountWait[b]
        /\ \A v \in Users : userOrphans'[v] <= userOrphans[v] /\ wait'[v] <= wait[v]
    BY <1>1
  <2>3. QED
    BY <1>1, <1>2, <1>4, <1>5, <2>1, <2>2, RedisStep
<1>6. CASE lock[a] # Orphan /\ Lose(lock[a], "lock") /\ Fault
  <2>1. PICK r \in Requests : r = lock[a]
    BY <1>1, <1>6
  <2>2. Lose(r, "lock") /\ "lock" \in Resources
    BY <1>6, <2>1 DEF Resources
  <2>3. LocksKept(r)
    BY <1>3, <2>1 DEF LocksKept
  <2>4. Moves(r, req[r].pc, req[r].counted, req[r].account, req[r].locked, req[r].lost \cup {"lock"})
    BY <2>1, <2>2, RequestFacts, LoseMoves
  <2>5. Only(r) /\ AccountSlotStep(r) /\ UserSlotStep(r)
    BY <1>1, <2>4, SlotsAlone DEF Moves
  <2>6. AccountChosen(r)' /\ HasSlot(r)' /\ HasUserSlot(r)' /\ HasLock(r)'
    BY <1>1, <2>1, <2>4, RequestFacts DEF Sound, AccountChosen, HasSlot, HasUserSlot, HasLock, Moves
  <2>7. NoStraySlot(r)'
    BY <1>2, <1>6 DEF NoStraySlot
  <2>8. faults' # 0
    BY <1>2, <1>6
  <2>9. Sound(r)'
    BY <2>6, <2>7 DEF Sound
  <2>10. QED
    BY <1>2, <1>4, <2>1, <2>3, <2>5, <2>8, <2>9, StepKeeps
<1>7. QED
  BY <1>5, <1>6 DEF ExpireLock

(* Counters that expire, or are removed by a process that starts, fall     *)
(* short at most.                                                          *)
LEMMA CountersStep ==
  ASSUME GatewayInv, setting' = setting, ExpireCounters \/ \E p \in Processes : CleanupCounters(p)
  PROVE  GatewayInv'
<1>1. /\ TypeOK /\ faults \in 0 .. MaxFaults /\ faults \in Nat
      /\ orphans \in [Accounts -> Nat] /\ userOrphans \in [Users -> Nat]
      /\ wait \in [Users -> Nat] /\ accountWait \in [Accounts -> Nat]
      /\ starting \in [Processes -> SUBSET Patterns]
      /\ UNCHANGED <<req, userSlots, userOrphans, slots, orphans, lock, faults>>
  BY GatewayAssumption DEF GatewayInv, TypeOK, ExpireCounters, CleanupCounters
<1>2. /\ \A u \in Users : wait[u] \in Nat
      /\ \A a \in Accounts : accountWait[a] \in Nat
  BY <1>1
<1>3. wait' \in [Users -> Nat] /\ \A u \in Users : wait'[u] <= wait[u]
  <2>1. wait' = wait \/ wait' = [u \in Users |-> 0]
    BY DEF ExpireCounters, CleanupCounters
  <2>2. QED
    BY <1>1, <1>2, <2>1
<1>4. accountWait' \in [Accounts -> Nat] /\ \A a \in Accounts : accountWait'[a] <= accountWait[a]
  <2>1. accountWait' = accountWait \/ accountWait' = [a \in Accounts |-> 0]
    BY DEF ExpireCounters, CleanupCounters
  <2>2. QED
    BY <1>1, <1>2, <2>1
<1>5. starting' \in [Processes -> SUBSET Patterns]
  BY <1>1 DEF ExpireCounters, CleanupCounters, Patterns
<1>6. RedisTyped
  BY <1>1, <1>3, <1>4, <1>5 DEF TypeOK, RedisTyped
<1>7. /\ \A a \in Accounts : orphans'[a] <= orphans[a] /\ lock'[a] = lock[a]
      /\ \A u \in Users : userOrphans'[u] <= userOrphans[u]
      /\ faults' \in {faults, faults + 1}
  BY <1>1
<1>8. QED
  BY <1>1, <1>3, <1>4, <1>6, <1>7, RedisStep

(* A cleanup that fails removes nothing.                                   *)
LEMMA CleanupFailsStep ==
  ASSUME GatewayInv, NEW p \in Processes, CleanupFails(p), setting' = setting
  PROVE  GatewayInv'
<1>1. /\ TypeOK /\ Fault
      /\ orphans \in [Accounts -> Nat] /\ userOrphans \in [Users -> Nat]
      /\ wait \in [Users -> Nat] /\ accountWait \in [Accounts -> Nat]
      /\ starting \in [Processes -> SUBSET Patterns] /\ starting' = [starting EXCEPT ![p] = {}]
      /\ UNCHANGED <<req, userSlots, userOrphans, slots, orphans, wait, accountWait, lock>>
  BY DEF GatewayInv, TypeOK, CleanupFails, redis
<1>2. faults' \in {faults, faults + 1} /\ faults' \in 0 .. MaxFaults
  BY <1>1, FaultCounts
<1>3. starting' \in [Processes -> SUBSET Patterns]
  BY <1>1
<1>4. RedisTyped
  BY <1>1, <1>2, <1>3 DEF TypeOK, RedisTyped
<1>5. /\ \A a \in Accounts : /\ orphans'[a] <= orphans[a] /\ lock'[a] = lock[a]
                             /\ accountWait'[a] <= accountWait[a]
      /\ \A u \in Users : userOrphans'[u] <= userOrphans[u] /\ wait'[u] <= wait[u]
  BY <1>1
<1>6. QED
  BY <1>1, <1>2, <1>4, <1>5, RedisStep

(* The requests whose slots are removed under them.                        *)
Marked(S, x) == [q \in Requests |-> IF q \in S THEN [req[q] EXCEPT !.lost = @ \cup {x}] ELSE req[q]]

(* Marking changes what is lost and nothing else.                          *)
LEMMA MarkMoves ==
  ASSUME req \in [Requests -> Request], NEW x \in Resources, NEW S, req' = Marked(S, x)
  PROVE  /\ req' \in [Requests -> Request]
         /\ \A q \in Requests :
               /\ req'[q].pc = req[q].pc /\ req'[q].connected = req[q].connected
               /\ req'[q].counted = req[q].counted /\ req'[q].account = req[q].account
               /\ req'[q].locked = req[q].locked
               /\ req'[q].lost = IF q \in S THEN req[q].lost \cup {x} ELSE req[q].lost
<1>1. ASSUME NEW q \in Requests
      PROVE  /\ req'[q] \in Request
             /\ req'[q].pc = req[q].pc /\ req'[q].connected = req[q].connected
             /\ req'[q].counted = req[q].counted /\ req'[q].account = req[q].account
             /\ req'[q].locked = req[q].locked
             /\ req'[q].lost = IF q \in S THEN req[q].lost \cup {x} ELSE req[q].lost
  <2>1. req[q] \in Request /\ req[q].lost \cup {x} \in SUBSET Resources
    BY RequestType
  <2>2. CASE q \in S
    <3> DEFINE l == req[q].lost \cup {x}
    <3>1. req'[q] = [req[q] EXCEPT !.lost = l]
      BY <2>1, <2>2 DEF Request, Marked
    <3> HIDE DEF l
    <3>2. /\ req'[q] \in Request
          /\ req'[q].pc = req[q].pc /\ req'[q].connected = req[q].connected
          /\ req'[q].counted = req[q].counted /\ req'[q].account = req[q].account
          /\ req'[q].locked = req[q].locked /\ req'[q].lost = l
      BY <2>1, <3>1 DEF Request, Resources, l
    <3>3. QED
      BY <2>2, <3>2 DEF l
  <2>3. CASE q \notin S
    BY <2>1, <2>3 DEF Marked
  <2>4. QED
    BY <2>2, <2>3
<1>2. req' \in [Requests -> Request]
  BY <1>1 DEF Marked
<1>3. QED
  BY <1>1, <1>2

(* No slots fit any limit.                                                 *)
LEMMA NothingFits ==
  ASSUME NEW limit \in Nat
  PROVE  Fits({}, 0, limit)
BY FS_EmptySet DEF Fits

(* A process that starts removes the slots of all, and whoever had one has *)
(* lost it.                                                                *)
LEMMA CleanupSlotsStep ==
  ASSUME GatewayInv, NEW p \in Processes, CleanupSlots(p), setting' = setting
  PROVE  GatewayInv'
<1>1. /\ TypeOK /\ req \in [Requests -> Request] /\ faults \in 0 .. MaxFaults
      /\ userSlots \in [Users -> SUBSET Requests] /\ slots \in [Accounts -> SUBSET Requests]
      /\ orphans \in [Accounts -> Nat] /\ userOrphans \in [Users -> Nat]
      /\ wait \in [Users -> Nat] /\ accountWait \in [Accounts -> Nat]
      /\ starting \in [Processes -> SUBSET Patterns]
      /\ UNCHANGED <<wait, accountWait, lock, faults>>
      /\ setting.accountLimit \in Nat /\ setting.userLimit \in Nat
  BY SlotTypes DEF GatewayInv, TypeOK, CleanupSlots
<1>2. /\ \A a \in Accounts : accountWait'[a] <= accountWait[a]
      /\ \A u \in Users : wait'[u] <= wait[u]
  BY <1>1
<1>3. \A r \in Requests : /\ AccountChosen(r) /\ HasSlot(r) /\ HasUserSlot(r) /\ HasLock(r) /\ NoStraySlot(r)
                          /\ UserOf[r] \in Users
  BY GatewayAssumption DEF GatewayInv, Sound
<1>4. starting' \in [Processes -> SUBSET Patterns]
  <2>1. starting[p] \in SUBSET Patterns
    BY <1>1
  <2>2. starting' = [starting EXCEPT ![p] = @ \ {"account"}] \/ starting' = [starting EXCEPT ![p] = @ \ {"user"}]
    BY DEF CleanupSlots
  <2>3. QED
    BY <1>1, <2>1, <2>2
<1>5. CASE /\ req' = [r \in Requests |-> IF \E a \in Accounts : r \in slots[a]
                                        THEN [req[r] EXCEPT !.lost = @ \cup {"account"}] ELSE req[r]]
           /\ slots' = [a \in Accounts |-> {}] /\ orphans' = [a \in Accounts |-> 0]
           /\ UNCHANGED <<userSlots, userOrphans>>
  <2> DEFINE S == {r \in Requests : \E a \in Accounts : r \in slots[a]}
  <2>1. req' = Marked(S, "account")
    BY <1>5 DEF Marked
  <2>2. \A a \in Accounts, q \in Requests : q \in slots[a] => q \in S
    OBVIOUS
  <2> HIDE DEF S
  <2>3. /\ req' \in [Requests -> Request]
        /\ \A q \in Requests :
              /\ req'[q].pc = req[q].pc /\ req'[q].connected = req[q].connected
              /\ req'[q].counted = req[q].counted /\ req'[q].account = req[q].account
              /\ req'[q].locked = req[q].locked
              /\ req'[q].lost = IF q \in S THEN req[q].lost \cup {"account"} ELSE req[q].lost
    <3>1. "account" \in Resources
      BY DEF Resources
    <3>2. QED
      BY <1>1, <2>1, <3>1, MarkMoves
  <2>4. slots' \in [Accounts -> SUBSET Requests] /\ orphans' \in [Accounts -> Nat]
    BY <1>5
  <2>5. RedisTyped
    BY <1>1, <1>4, <1>5, <2>4 DEF TypeOK, RedisTyped
  <2>6. TypeOK'
    BY <1>1, <2>3, <2>5, TypeFrame
  <2>7. ASSUME NEW r \in Requests
        PROVE  Sound(r)'
    <3>1. AccountChosen(r)' /\ HasLock(r)' /\ HasUserSlot(r)'
      BY <1>1, <1>3, <1>5, <2>3 DEF AccountChosen, HasLock, HasUserSlot
    <3>2. HasSlot(r)'
      BY <1>3, <2>2, <2>3, LabelFacts DEF AccountChosen, HasSlot
    <3>3. NoStraySlot(r)'
      BY <1>1, <1>3, <1>5, <2>3 DEF NoStraySlot
    <3>4. QED
      BY <3>1, <3>2, <3>3 DEF Sound
  <2>8. AccountsFit'
    BY <1>1, <1>5, NothingFits DEF AccountsFit
  <2>9. UsersFit' /\ NoUserOrphan'
    BY <1>1, <1>5 DEF GatewayInv, UsersFit, NoUserOrphan, Fits
  <2>10. CountersDoNotLeak'
    BY <1>1, <1>2, <2>3, <2>5, CountersFall DEF GatewayInv
  <2>11. QED
    BY <2>6, <2>7, <2>8, <2>9, <2>10 DEF GatewayInv
<1>6. CASE /\ req' = [r \in Requests |-> IF \E u \in Users : r \in userSlots[u]
                                        THEN [req[r] EXCEPT !.lost = @ \cup {"user"}] ELSE req[r]]
           /\ userSlots' = [u \in Users |-> {}] /\ userOrphans' = [u \in Users |-> 0]
           /\ UNCHANGED <<slots, orphans>>
  <2> DEFINE S == {r \in Requests : \E u \in Users : r \in userSlots[u]}
  <2>1. req' = Marked(S, "user")
    BY <1>6 DEF Marked
  <2>2. \A u \in Users, q \in Requests : q \in userSlots[u] => q \in S
    OBVIOUS
  <2> HIDE DEF S
  <2>3. /\ req' \in [Requests -> Request]
        /\ \A q \in Requests :
              /\ req'[q].pc = req[q].pc /\ req'[q].connected = req[q].connected
              /\ req'[q].counted = req[q].counted /\ req'[q].account = req[q].account
              /\ req'[q].locked = req[q].locked
              /\ req'[q].lost = IF q \in S THEN req[q].lost \cup {"user"} ELSE req[q].lost
    <3>1. "user" \in Resources
      BY DEF Resources
    <3>2. QED
      BY <1>1, <2>1, <3>1, MarkMoves
  <2>4. userSlots' \in [Users -> SUBSET Requests] /\ userOrphans' \in [Users -> Nat]
    BY <1>6
  <2>5. RedisTyped
    BY <1>1, <1>4, <1>6, <2>4 DEF TypeOK, RedisTyped
  <2>6. TypeOK'
    BY <1>1, <2>3, <2>5, TypeFrame
  <2>7. ASSUME NEW r \in Requests
        PROVE  Sound(r)'
    <3>1. AccountChosen(r)' /\ HasLock(r)' /\ HasSlot(r)'
      BY <1>1, <1>3, <1>6, <2>3 DEF AccountChosen, HasLock, HasSlot
    <3>2. HasUserSlot(r)'
      BY <1>3, <2>2, <2>3 DEF HasUserSlot
    <3>3. NoStraySlot(r)'
      BY <1>1, <1>3, <1>6, <2>3 DEF NoStraySlot
    <3>4. QED
      BY <3>1, <3>2, <3>3 DEF Sound
  <2>8. UsersFit'
    BY <1>1, <1>6, NothingFits DEF UsersFit
  <2>9. AccountsFit' /\ NoUserOrphan'
    BY <1>1, <1>6 DEF GatewayInv, AccountsFit, NoUserOrphan, Fits
  <2>10. CountersDoNotLeak'
    BY <1>1, <1>2, <2>3, <2>5, CountersFall DEF GatewayInv
  <2>11. QED
    BY <2>6, <2>7, <2>8, <2>9, <2>10 DEF GatewayInv
<1>7. QED
  BY <1>5, <1>6 DEF CleanupSlots

(* The slots of the requests that end with their process become orphans.   *)
LEMMA CrashStep ==
  ASSUME GatewayInv, NEW p \in Processes, Crash(p), setting' = setting
  PROVE  GatewayInv'
<1> DEFINE S == Serving(p)
<1>1. /\ TypeOK /\ req \in [Requests -> Request] /\ setting \in Settings
      /\ userSlots \in [Users -> SUBSET Requests] /\ slots \in [Accounts -> SUBSET Requests]
      /\ orphans \in [Accounts -> Nat] /\ userOrphans \in [Users -> Nat]
      /\ lock \in [Accounts -> Requests \cup {None, Orphan}]
      /\ starting \in [Processes -> SUBSET Patterns]
      /\ setting.accountLimit \in Nat /\ setting.userLimit \in Nat
  BY SlotTypes DEF GatewayInv, TypeOK
<1>2. /\ starting' = [starting EXCEPT ![p] = Patterns]
      /\ req' = [r \in Requests |-> IF r \in S THEN Blank("done", req[r].connected) ELSE req[r]]
      /\ userOrphans' = [u \in Users |-> userOrphans[u] + Cardinality(userSlots[u] \cap S)]
      /\ userSlots' = [u \in Users |-> userSlots[u] \ S]
      /\ orphans' = [a \in Accounts |-> orphans[a] + Cardinality(slots[a] \cap S)]
      /\ slots' = [a \in Accounts |-> slots[a] \ S]
      /\ lock' = [a \in Accounts |-> IF lock[a] \in S THEN Orphan ELSE lock[a]]
      /\ UNCHANGED <<wait, accountWait>> /\ Fault
  BY DEF Crash
<1>3. \A r \in Requests : /\ AccountChosen(r) /\ HasSlot(r) /\ HasUserSlot(r) /\ HasLock(r)
                          /\ UserOf[r] \in Users
  BY GatewayAssumption DEF GatewayInv, Sound
<1> HIDE DEF S
<1>4. faults' \in 0 .. MaxFaults /\ faults' # 0
  BY <1>1, <1>2, FaultCounts
<1>5. \A a \in Accounts : /\ Fits(slots[a] \ S, orphans[a] + Cardinality(slots[a] \cap S), setting.accountLimit)
                          /\ orphans[a] + Cardinality(slots[a] \cap S) \in Nat
  BY <1>1, SlotTypes, SlotsOrphaned DEF GatewayInv, AccountsFit
<1>6. \A u \in Users : /\ Fits(userSlots[u] \ S, userOrphans[u] + Cardinality(userSlots[u] \cap S), setting.userLimit)
                       /\ userOrphans[u] + Cardinality(userSlots[u] \cap S) \in Nat
  BY <1>1, SlotTypes, SlotsOrphaned DEF GatewayInv, UsersFit
<1>7. RedisTyped
  <2>1. orphans' \in [Accounts -> Nat] /\ userOrphans' \in [Users -> Nat]
    BY <1>2, <1>5, <1>6
  <2>2. slots' \in [Accounts -> SUBSET Requests] /\ userSlots' \in [Users -> SUBSET Requests]
    BY <1>1, <1>2
  <2>3. lock' \in [Accounts -> Requests \cup {None, Orphan}]
    BY <1>1, <1>2
  <2>4. starting' \in [Processes -> SUBSET Patterns]
    BY <1>1, <1>2
  <2>5. QED
    BY <1>1, <1>2, <1>4, <2>1, <2>2, <2>3, <2>4 DEF TypeOK, RedisTyped
<1>8. ASSUME NEW r \in Requests
      PROVE  /\ req'[r] \in Request
             /\ r \in S => req'[r].pc = "done" /\ req'[r].locked = FALSE
             /\ r \notin S => req'[r] = req[r]
  <2>1. "done" \in Labels /\ req[r].connected \in BOOLEAN
    BY <1>1, RequestType, LabelFacts
  <2>2. /\ Blank("done", req[r].connected) \in Request
        /\ Blank("done", req[r].connected).pc = "done"
        /\ Blank("done", req[r].connected).locked = FALSE
    BY <1>1, <2>1, BlankType
  <2>3. QED
    BY <1>1, <1>2, <2>2
<1>9. TypeOK'
  <2>1. req' \in [Requests -> Request]
    BY <1>2, <1>8
  <2>2. QED
    BY <1>1, <1>7, <2>1, TypeFrame
<1>10. ASSUME NEW r \in Requests
       PROVE  Sound(r)'
  <2>1. NoStraySlot(r)'
    BY <1>4 DEF NoStraySlot
  <2>2. CASE r \in S
    BY <1>8, <2>1, <2>2, LabelFacts DEF Sound, AccountChosen, HasSlot, HasUserSlot, HasLock
  <2>3. CASE r \notin S
    <3>1. req'[r] = req[r]
      BY <1>8, <2>3
    <3>2. AccountChosen(r)' /\ HasSlot(r)'
      BY <1>2, <1>3, <2>3, <3>1, LabelFacts DEF AccountChosen, HasSlot
    <3>3. HasUserSlot(r)'
      BY <1>2, <1>3, <2>3, <3>1 DEF HasUserSlot
    <3>4. HasLock(r)'
      BY <1>2, <1>3, <2>3, <3>1, LabelFacts DEF AccountChosen, HasLock
    <3>5. QED
      BY <2>1, <3>2, <3>3, <3>4 DEF Sound
  <2>4. QED
    BY <2>2, <2>3
<1>11. AccountsFit' /\ UsersFit'
  BY <1>2, <1>5, <1>6 DEF AccountsFit, UsersFit, Fits
<1>12. NoUserOrphan' /\ CountersDoNotLeak'
  BY <1>4 DEF NoUserOrphan, CountersDoNotLeak
<1>13. QED
  BY <1>9, <1>10, <1>11, <1>12 DEF GatewayInv

-----------------------------------------------------------------------------
(* The invariant                                                           *)

(* Without requests all keys are empty.                                    *)
LEMMA InitInv == Init => GatewayInv
<1>1. SUFFICES ASSUME Init
               PROVE  GatewayInv
  OBVIOUS
<1>2. setting \in Settings /\ faults = 0 /\ MaxFaults \in Nat
  BY <1>1, GatewayAssumption DEF Init
<1>3. \A r \in Requests :
        /\ req[r] \in Request /\ req[r].pc = "new" /\ req[r].counted = FALSE /\ req[r].locked = FALSE
  <2>1. "new" \in Labels
    BY LabelFacts
  <2>2. \A r \in Requests : req[r] = Blank("new", TRUE)
    BY <1>1 DEF Init
  <2>3. QED
    BY <1>2, <2>1, <2>2, BlankType
<1>4. TypeOK
  <2>1. req \in [Requests -> Request]
    BY <1>1, <1>3 DEF Init
  <2>2. starting \in [Processes -> SUBSET Patterns]
    BY <1>1 DEF Init
  <2>3. faults \in 0 .. MaxFaults
    BY <1>2
  <2>4. QED
    BY <1>1, <2>1, <2>2, <2>3 DEF Init, TypeOK
<1>5. \A r \in Requests : Sound(r)
  BY <1>1, <1>3, LabelFacts DEF Init, Sound, AccountChosen, HasSlot, HasUserSlot, HasLock, NoStraySlot
<1>6. setting.accountLimit \in Nat /\ setting.userLimit \in Nat
  BY <1>4, SlotTypes
<1>7. AccountsFit /\ UsersFit
  BY <1>1, <1>6, NothingFits DEF Init, AccountsFit, UsersFit
<1>8. NoUserOrphan
  BY <1>1 DEF Init, NoUserOrphan
<1>9. CountersDoNotLeak
  <2>1. /\ \A u \in Users : IsFiniteSet(Queue(u)) /\ wait[u] = 0
        /\ \A a \in Accounts : IsFiniteSet(AccountQueue(a)) /\ accountWait[a] = 0
    BY <1>1, GatewayAssumption, FS_Subset DEF Queue, AccountQueue, Init
  <2>2. /\ \A u \in Users : wait[u] <= Cardinality(Queue(u))
        /\ \A a \in Accounts : accountWait[a] <= Cardinality(AccountQueue(a))
    BY <2>1, FS_CardinalityType
  <2>3. QED
    BY <2>2, CountersAreQueues
<1>10. QED
  BY <1>4, <1>5, <1>7, <1>8, <1>9 DEF GatewayInv

(* Nothing changes in a stuttering step.                                   *)
LEMMA StutterInv == ASSUME GatewayInv, UNCHANGED vars PROVE GatewayInv'
<1>1. /\ TypeOK
      /\ orphans \in [Accounts -> Nat] /\ userOrphans \in [Users -> Nat]
      /\ wait \in [Users -> Nat] /\ accountWait \in [Accounts -> Nat]
      /\ UNCHANGED <<req, userSlots, userOrphans, slots, orphans, wait, accountWait, lock, starting>>
      /\ setting' = setting /\ faults' = faults
  BY DEF GatewayInv, TypeOK, vars, state, redis
<1>2. RedisTyped
  BY <1>1 DEF TypeOK, RedisTyped
<1>3. /\ \A a \in Accounts : /\ orphans'[a] <= orphans[a] /\ lock'[a] = lock[a]
                             /\ accountWait'[a] <= accountWait[a]
      /\ \A u \in Users : userOrphans'[u] <= userOrphans[u] /\ wait'[u] <= wait[u]
      /\ faults' \in {faults, faults + 1}
  BY <1>1
<1>4. QED
  BY <1>1, <1>2, <1>3, RedisStep

(* Every step of a request keeps the invariant.                            *)
LEMMA StepInv ==
  ASSUME GatewayInv, NEW r \in Requests, Step(r), setting' = setting
  PROVE  GatewayInv'
<1>1. CASE IncrementWaitCount(r)
  BY <1>1, IncrementStep
<1>2. CASE AcquireUserSlot(r)
  BY <1>2, AcquireUserStep
<1>3. CASE DecWait(r) \/ ExitDec(r)
  BY <1>3, DecWaitStep
<1>4. CASE CheckBilling(r)
  BY <1>4, BillingStep
<1>5. CASE Return(r)
  BY <1>5, ReturnStep
<1>6. ASSUME NEW a \in Accounts, SelectAcquired(r, a)
      PROVE  GatewayInv'
  BY <1>6, AcquiredStep
<1>7. ASSUME NEW a \in Accounts, SelectWait(r, a)
      PROVE  GatewayInv'
  BY <1>7, PlanStep
<1>8. CASE SelectNone(r)
  BY <1>8, NoneStep
<1>9. CASE Hydrate(r)
  BY <1>9, HydrateStep
<1>10. CASE IncrementAccountWaitCount(r)
  BY <1>10, IncrementAccountStep
<1>11. CASE AcquireAccountSlot(r)
  BY <1>11, AcquireAccountStep
<1>12. CASE AccountDec(r)
  BY <1>12, AccountDecStep
<1>13. CASE AcquireLock(r)
  BY <1>13, AcquireLockStep
<1>14. CASE QueueRelease(r)
  BY <1>14, QueueReleaseStep
<1>15. CASE ForwardEnds(r)
  BY <1>15, ForwardEndsStep
<1>16. QED
  BY <1>1, <1>2, <1>3, <1>4, <1>5, <1>6, <1>7, <1>8, <1>9, <1>10, <1>11, <1>12, <1>13, <1>14, <1>15
     DEF Step

(* Every step of the system keeps the invariant.                           *)
LEMMA NextInv == ASSUME GatewayInv, Next PROVE GatewayInv'
<1>1. setting' = setting
  BY DEF Next
<1>2. ASSUME NEW r \in Requests, Step(r)
      PROVE  GatewayInv'
  BY <1>1, <1>2, StepInv
<1>3. ASSUME NEW r \in Requests, Disconnect(r)
      PROVE  GatewayInv'
  BY <1>1, <1>3, DisconnectStep
<1>4. ASSUME NEW r \in Requests, AlreadyDone(r)
      PROVE  GatewayInv'
  BY <1>1, <1>4, AlreadyDoneStep
<1>5. ASSUME NEW r \in Requests, NEW a \in Accounts, SelectFails(r, a)
      PROVE  GatewayInv'
  BY <1>1, <1>5, SelectFailsStep
<1>6. CASE Expire
  <2>1. ASSUME NEW u \in Users, ExpireUserSlot(u)
        PROVE  GatewayInv'
    BY <1>1, <2>1, ExpireUserSlotStep
  <2>2. ASSUME NEW a \in Accounts, ExpireSlot(a)
        PROVE  GatewayInv'
    BY <1>1, <2>2, ExpireSlotStep
  <2>3. ASSUME NEW a \in Accounts, ExpireLock(a)
        PROVE  GatewayInv'
    BY <1>1, <2>3, ExpireLockStep
  <2>4. CASE ExpireCounters
    BY <1>1, <2>4, CountersStep
  <2>5. QED
    BY <1>6, <2>1, <2>2, <2>3, <2>4 DEF Expire
<1>7. ASSUME NEW p \in Processes, Crash(p)
      PROVE  GatewayInv'
  BY <1>1, <1>7, CrashStep
<1>8. ASSUME NEW p \in Processes, Startup(p)
      PROVE  GatewayInv'
  <2>1. CASE CleanupSlots(p)
    BY <1>1, <2>1, CleanupSlotsStep
  <2>2. CASE CleanupCounters(p)
    BY <1>1, <2>2, CountersStep
  <2>3. CASE CleanupFails(p)
    BY <1>1, <2>3, CleanupFailsStep
  <2>4. QED
    BY <1>8, <2>1, <2>2, <2>3 DEF Startup
<1>9. QED
  BY <1>2, <1>3, <1>4, <1>5, <1>6, <1>7, <1>8 DEF Next

(* The inductive invariant of the request's life.                          *)
THEOREM GatewayInvariance == Spec => []GatewayInv
<1>1. GatewayInv /\ [Next]_vars => GatewayInv'
  BY NextInv, StutterInv
<1>2. QED
  BY <1>1, InitInv, PTL DEF Spec

-----------------------------------------------------------------------------
(* What follows from it                                                    *)

(* The state of requests and Redis keys has its type.                      *)
THEOREM GatewayTypeCorrect == Spec => []TypeOK
<1>1. GatewayInv => TypeOK
  BY DEF GatewayInv
<1>2. QED
  BY <1>1, GatewayInvariance, PTL

(* Some of a set are without a slot, and the others are in one that fits.  *)
LEMMA CoveredFits ==
  ASSUME NEW R, NEW U, NEW S, NEW n \in Nat, NEW limit \in Nat,
         IsFiniteSet(R), IsFiniteSet(S), R \ U \subseteq S, Fits(S, n, limit)
  PROVE  Cardinality(R) <= limit + Cardinality(R \cap U)
<1>1. Cardinality(R \ U) <= Cardinality(S) /\ Cardinality(R \ U) \in Nat /\ Cardinality(S) \in Nat
  BY FS_Subset, FS_CardinalityType
<1>2. IsFiniteSet(R \cap U) /\ Cardinality(R \ U) = Cardinality(R) - Cardinality(R \cap U)
  BY FS_Intersection, FS_Difference
<1>3. Cardinality(R) \in Nat /\ Cardinality(R \cap U) \in Nat
  BY <1>2, FS_CardinalityType
<1>4. QED
  BY <1>1, <1>2, <1>3 DEF Fits

(* Over all processes, failovers, failed calls and crashes, an account or  *)
(* a user has more requests under way than its limit only by as many as    *)
(* run without the slot they had, because their client left, the slot      *)
(* outlived its TTL or a starting process removed it: whoever has not lost *)
(* his slot is entered, and slots and orphans together never outnumber the *)
(* limit, since the script that adds one finds room for it.                *)
THEOREM LimitsAreKept == Spec => []WithinLimits
<1>1. GatewayInv => WithinLimits
  <2>1. SUFFICES ASSUME GatewayInv
                 PROVE  WithinLimits
    OBVIOUS
  <2>2. /\ setting.accountLimit \in Nat /\ setting.userLimit \in Nat
        /\ \A a \in Accounts : IsFiniteSet(slots[a]) /\ orphans[a] \in Nat
        /\ \A u \in Users : IsFiniteSet(userSlots[u]) /\ userOrphans[u] \in Nat
    BY <2>1, SlotTypes DEF GatewayInv
  <2>3. ASSUME NEW a \in Accounts
        PROVE  Cardinality(Running(a)) <=
                 setting.accountLimit + Cardinality(Running(a) \cap Uncovered("account"))
    <3>1. Running(a) \ Uncovered("account") \subseteq slots[a]
      BY <2>1 DEF GatewayInv, Sound, HasSlot, Running, Uncovered
    <3>2. IsFiniteSet(Running(a))
      BY GatewayAssumption, FS_Subset DEF Running
    <3>3. Fits(slots[a], orphans[a], setting.accountLimit)
      BY <2>1 DEF GatewayInv, AccountsFit
    <3>4. QED
      BY <2>2, <3>1, <3>2, <3>3, CoveredFits
  <2>4. ASSUME NEW u \in Users
        PROVE  Cardinality(RunningFor(u)) <=
                 setting.userLimit + Cardinality(RunningFor(u) \cap Uncovered("user"))
    <3>1. RunningFor(u) \ Uncovered("user") \subseteq userSlots[u]
      BY <2>1 DEF GatewayInv, Sound, HasUserSlot, RunningFor, Uncovered
    <3>2. IsFiniteSet(RunningFor(u))
      BY GatewayAssumption, FS_Subset DEF RunningFor
    <3>3. Fits(userSlots[u], userOrphans[u], setting.userLimit)
      BY <2>1 DEF GatewayInv, UsersFit
    <3>4. QED
      BY <2>2, <3>1, <3>2, <3>3, CoveredFits
  <2>5. QED
    BY <2>3, <2>4 DEF WithinLimits
<1>2. QED
  BY <1>1, GatewayInvariance, PTL

(* The serial lock of an account excludes: of the requests that hold it    *)
(* and have not lost it to its TTL there is one at most, since releasing   *)
(* compares the owner and expiry is seen by the holder.                    *)
THEOREM SerialLockExcludes == Spec => []SerialLockExclusive
<1>1. GatewayInv => SerialLockExclusive
  <2>1. SUFFICES ASSUME GatewayInv, NEW a \in Accounts
                 PROVE  Cardinality({r \in Requests : /\ req[r].account = a /\ req[r].pc = "forward"
                                                      /\ req[r].locked /\ "lock" \notin req[r].lost}) <= 1
    BY DEF SerialLockExclusive
  <2> DEFINE H == {r \in Requests : /\ req[r].account = a /\ req[r].pc = "forward"
                                    /\ req[r].locked /\ "lock" \notin req[r].lost}
  <2>2. H \subseteq {lock[a]}
    BY <2>1 DEF GatewayInv, Sound, HasLock
  <2> HIDE DEF H
  <2>3. IsFiniteSet({lock[a]}) /\ Cardinality({lock[a]}) = 1
    BY FS_Singleton
  <2>4. Cardinality(H) <= Cardinality({lock[a]})
    BY <2>2, <2>3, FS_Subset
  <2>5. QED
    BY <2>3, <2>4 DEF H
<1>2. QED
  BY <1>1, GatewayInvariance, PTL

(* While no call fails and no process crashes, no queue counter is above   *)
(* the number of requests that wait: each of them takes its count back,    *)
(* whichever way its wait ends.                                            *)
THEOREM CountersAreTakenBack == Spec => []CountersDoNotLeak
<1>1. GatewayInv => CountersDoNotLeak
  BY DEF GatewayInv
<1>2. QED
  BY <1>1, GatewayInvariance, PTL

(* While no call fails and no process crashes, the slots that reach the    *)
(* handler are given back by the request that got them, whichever way it   *)
(* ends and whenever its client leaves.                                    *)
THEOREM SlotsAreGivenBack == Spec => []HandedSlotsReturn
<1>1. GatewayInv => HandedSlotsReturn
  <2>1. SUFFICES ASSUME GatewayInv, faults = 0
                 PROVE  HandedSlotsReturn
    BY DEF HandedSlotsReturn
  <2>2. userSlots \in [Users -> SUBSET Requests] /\ slots \in [Accounts -> SUBSET Requests]
    BY <2>1 DEF GatewayInv, TypeOK
  <2>3. /\ \A u \in Users : userOrphans[u] = 0 /\ \A r \in userSlots[u] : req[r].pc \in HoldsUser
        /\ \A a \in Accounts : \A r \in slots[a] : req[r].pc \in HoldsAccount /\ req[r].account = a
    BY <2>1, <2>2 DEF GatewayInv, NoUserOrphan, Sound, NoStraySlot
  <2>4. QED
    BY <2>3 DEF HandedSlotsReturn
<1>2. QED
  BY <1>1, GatewayInvariance, PTL

=============================================================================
