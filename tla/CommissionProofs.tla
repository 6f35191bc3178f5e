--------------------------- MODULE CommissionProofs --------------------------
(***************************************************************************)
(* Proofs about Commission, for every number of tiers, every rule, any     *)
(* number of requests, amounts and failures: what splits and logs were     *)
(* paid, what the commission balances are, and how the splits of an order  *)
(* divide the highest rate of the rule it was completed under.             *)
(***************************************************************************)
EXTENDS Commission, FiniteSetTheorems, WellFoundedInduction, TLAPS

One(b) == IF b THEN 1 ELSE 0

(* The fulfilment has tiers left to write only while it is at its splits.  *)
TodoWhileSplitting == step # "splits" \/ order # "RECHARGING" => todo = {}

(* Workers are where their kind can be, and remember what they need.       *)
WorkersKnow ==
    \A w \in Workers :
        /\ pc[w] = "splitWrite" => w # Job /\ who[w] \in Tiers /\ level[w] \in Levels
        /\ pc[w] = "transferWrite" => w # Job /\ who[w] \in Users
        /\ pc[w] = "clawbackWrite" => seen[w] \in {"pending", "settled"}

(* The levels at which a tier has a pending row.                           *)
PendingLevels(rows, t) == {l \in Levels : rows[<<t, l>>] = "pending"}

(* A tier is paid once for each row that was written, and an attempt       *)
(* writes one row of it.                                                   *)
SplitsAccounted ==
    /\ attempts # 0
    /\ \A t \in Tiers :
          splitPaid[t] + Cardinality(PendingLevels(split, t)) + One(t \in todo) <= attempts
    /\ \A t \in Tiers, l \in Levels : split[<<t, l>>] = "settled" => splitPaid[t] # 0

(* After the splits every tier of the plan has its row, and in it the      *)
(* amount of the plan.                                                     *)
SplitsFollowPlan ==
    /\ todo \subseteq Plans(rates)
    /\ order # "FAILED" /\ (step # "ended" \/ order # "RECHARGING") =>
           \A t \in Plans(rates) :
              \/ t \in todo
              \/ /\ split[Row(rates, t)] # "none"
                 /\ share[Row(rates, t)] = CommissionAmount(rates, t)

(* In the first attempt there are no rows but those of its rule, and a     *)
(* settlement has read the amount it still finds.                          *)
FirstRowsStand ==
    attempts = 1 =>
        /\ \A t \in Tiers, l \in Levels : split[<<t, l>>] # "none" => l = Level(rates, t)
        /\ \A w \in Workers : pc[w] = "splitWrite" =>
              /\ split[<<who[w], level[w]>>] # "none"
              /\ amount[w] = share[<<who[w], level[w]>>]

(* The job acts on orders that were completed.                             *)
JobFollowsOrder ==
    pc[Job] \in {"settle", "settleWrite", "clawback", "clawbackWrite"} =>
        order \notin {"RECHARGING", "FAILED"}

CommissionInv ==
    /\ TypeOK
    /\ TodoWhileSplitting /\ WorkersKnow
    /\ SplitsAccounted /\ SplitsFollowPlan /\ FirstRowsStand
    /\ LogTellsPaid /\ BalanceReconciles
    /\ JobFollowsOrder

-----------------------------------------------------------------------------
(* Finite sets have minimal subsets, which is what an induction over them  *)
(* comes to: a least set for which something fails leads nowhere.          *)
LEMMA MinimalSubset ==
  ASSUME NEW S, IsFiniteSet(S), NEW F, F \subseteq SUBSET S, F # {}
  PROVE  \E T \in F : \A U \in F : U \subseteq T => U = T
<1>1. IsWellFoundedOn(StrictSubsetOrdering(S), SUBSET S)
  BY FS_StrictSubsetOrderingWellFounded, FS_FiniteSubsetsOfFinite
<1>2. PICK T \in F : \A U \in F : ~(<<U, T>> \in StrictSubsetOrdering(S))
  BY <1>1, WFMin
<1>3. QED
  BY <1>2 DEF StrictSubsetOrdering

(* A finite set of numbers has a least element.                            *)
LEMMA MinOf ==
  ASSUME NEW S, IsFiniteSet(S), S # {}, \A x \in S : x \in Int
  PROVE  Min(S) \in S /\ \A y \in S : Min(S) <= y
<1> DEFINE Least(T) == \E x \in T : \A y \in T : x <= y
           F == {T \in SUBSET S : T # {} /\ ~Least(T)}
<1>1. Least(S)
  <2>1. SUFFICES ASSUME F # {}
                 PROVE  FALSE
    OBVIOUS
  <2>2. PICK T \in F : \A U \in F : U \subseteq T => U = T
    <3>1. F \subseteq SUBSET S
      OBVIOUS
    <3> HIDE DEF F
    <3>2. QED
      BY <2>1, <3>1, MinimalSubset
  <2>3. PICK a \in T : TRUE
    OBVIOUS
  <2>4. T \ {a} \notin F
    BY <2>2, <2>3
  <2>5. CASE T = {a}
    BY <2>2, <2>5
  <2>6. CASE T # {a}
    <3>1. PICK x \in T \ {a} : \A y \in T \ {a} : x <= y
      BY <2>3, <2>4, <2>6
    <3>2. (\A y \in T : x <= y) \/ (\A y \in T : a <= y)
      BY <2>3, <3>1
    <3>3. QED
      BY <2>2, <2>3, <3>1, <3>2
  <2>7. QED
    BY <2>5, <2>6
<1>2. QED
  BY <1>1 DEF Min

(* Among finitely many rates, and zero, there is a highest.                *)
LEMMA MaxRate ==
  ASSUME NEW D, IsFiniteSet(D), NEW f, \A s \in D : f[s] \in Nat
  PROVE  LET R == {f[s] : s \in D} \cup {0}
         IN  Max(R) \in R /\ Max(R) \in Nat /\ \A y \in R : y <= Max(R)
<1> DEFINE R(T) == {f[s] : s \in T} \cup {0}
           Greatest(T) == \E x \in R(T) : \A y \in R(T) : x >= y
           F == {T \in SUBSET D : ~Greatest(T)}
<1>1. Greatest(D)
  <2>1. SUFFICES ASSUME F # {}
                 PROVE  FALSE
    OBVIOUS
  <2>2. PICK T \in F : \A U \in F : U \subseteq T => U = T
    <3>1. F \subseteq SUBSET D
      OBVIOUS
    <3> HIDE DEF F
    <3>2. QED
      BY <2>1, <3>1, MinimalSubset
  <2>3. CASE T = {}
    BY <2>2, <2>3
  <2>4. CASE T # {}
    <3>1. PICK a \in T : TRUE
      BY <2>4
    <3>2. Greatest(T \ {a})
      <4>1. T \ {a} \notin F
        BY <2>2, <3>1
      <4> HIDE DEF Greatest
      <4>2. QED
        BY <2>2, <4>1
    <3>3. PICK x \in R(T \ {a}) : \A y \in R(T \ {a}) : x >= y
      BY <3>2
    <3>4. x \in Nat /\ f[a] \in Nat /\ R(T) = R(T \ {a}) \cup {f[a]}
      BY <3>1, <3>3
    <3>5. R(T) \subseteq Nat
      OBVIOUS
    <3>6. (\A y \in R(T) : x >= y) \/ (\A y \in R(T) : f[a] >= y)
      BY <3>3, <3>4, <3>5
    <3>7. x \in R(T) /\ f[a] \in R(T)
      BY <3>3, <3>4
    <3>8. QED
      BY <2>2, <3>6, <3>7
  <2>5. QED
    BY <2>3, <2>4
<1>2. R(D) \subseteq Nat
  OBVIOUS
<1> HIDE DEF R
<1>3. Max(R(D)) \in R(D) /\ \A y \in R(D) : Max(R(D)) >= y
  BY <1>1 DEF Max
<1>4. QED
  BY <1>2, <1>3 DEF R

(* What a tier takes is a natural number, positive if the tier is planned. *)
LEMMA AmountType ==
  ASSUME NEW r \in [Tiers -> Nat], NEW t \in Tiers
  PROVE  /\ LowerTierRate(r, t) \in Nat
         /\ CommissionAmount(r, t) \in Nat
<1>1. r[t] \in Nat /\ IsFiniteSet(Tiers) /\ DiffMode \in BOOLEAN
  BY CommissionAssumption
<1>2. LowerTierRate(r, t) \in Nat
  <2> DEFINE D == {u \in Tiers : u < t}
  <2>1. IsFiniteSet(D)
    BY <1>1, FS_Subset
  <2>2. \A s \in D : r[s] \in Nat
    BY CommissionAssumption
  <2> HIDE DEF D
  <2>3. Max({r[s] : s \in D} \cup {0}) \in Nat
    BY <2>1, <2>2, MaxRate
  <2>4. QED
    BY <2>3 DEF LowerTierRate, D
<1>3. ASSUME NEW n \in Int
      PROVE  Max({n, 0}) \in Nat
  <2>1. \E x \in {n, 0} : \A y \in {n, 0} : x >= y
    BY <1>3
  <2>2. Max({n, 0}) \in {n, 0} /\ Max({n, 0}) >= 0
    BY <2>1 DEF Max
  <2>3. QED
    BY <2>2
<1>4. QED
  BY <1>1, <1>2, <1>3 DEF CommissionAmount

(* The row of a tier is one of the rows there can be.                      *)
LEMMA RowType ==
  ASSUME NEW r, NEW t \in Tiers
  PROVE  Level(r, t) \in Levels /\ Row(r, t) = <<t, Level(r, t)>> /\ Row(r, t) \in Rows
<1> DEFINE D == {s \in Tiers : s < t /\ r[s] > 0}
<1>1. IsFiniteSet(Tiers) /\ Tiers \subseteq Nat
  BY CommissionAssumption
<1>2. D \subseteq Tiers \ {t}
  BY <1>1
<1>3. /\ IsFiniteSet(Tiers \ {t}) /\ Cardinality(Tiers \ {t}) = Cardinality(Tiers) - 1
      /\ Cardinality(Tiers) \in Nat
  BY <1>1, FS_RemoveElement, FS_CardinalityType
<1>4. Cardinality(D) \in Nat /\ Cardinality(D) <= Cardinality(Tiers \ {t})
  <2> HIDE DEF D
  <2>1. QED
    BY <1>2, <1>3, FS_Subset, FS_CardinalityType
<1>5. Level(r, t) = Cardinality(D) + 1
  BY DEF Level
<1> HIDE DEF D
<1>6. Level(r, t) \in Levels
  BY <1>3, <1>4, <1>5 DEF Levels
<1>7. QED
  BY <1>6 DEF Row, Rows

(* Different tiers have different rows.                                    *)
LEMMA RowsApart ==
  ASSUME NEW r, NEW t \in Tiers, NEW u \in Tiers, t # u
  PROVE  Row(r, t) # Row(r, u)
BY DEF Row

(* A row is given by its tier and its level.                               *)
LEMMA RowOf ==
  /\ \A t \in Tiers, m \in Levels : <<t, m>> \in Rows
  /\ \A t, m, u, l : <<t, m>> = <<u, l>> <=> t = u /\ m = l
BY DEF Rows

(* A set grows by at most the element it is given.                         *)
LEMMA AddAtMostOne ==
  ASSUME NEW P, IsFiniteSet(P), NEW l
  PROVE  Cardinality(P \cup {l}) <= Cardinality(P) + 1
<1>1. Cardinality(P) \in Nat
  BY FS_CardinalityType
<1>2. CASE l \in P
  <2>1. P \cup {l} = P
    BY <1>2
  <2>2. QED
    BY <1>1, <2>1
<1>3. CASE l \notin P
  BY <1>1, <1>3, FS_AddElement
<1>4. QED
  BY <1>2, <1>3

-----------------------------------------------------------------------------
(* The steps                                                               *)

(* The next tier is one of those to do.                                    *)
LEMMA NextTier ==
  ASSUME TypeOK, todo # {}
  PROVE  Min(todo) \in todo /\ Min(todo) \in Tiers
<1>1. IsFiniteSet(Tiers) /\ \A t \in Tiers : t \in Int
  BY CommissionAssumption
<1>2. todo \subseteq Tiers
  BY DEF TypeOK
<1>3. IsFiniteSet(todo)
  BY <1>1, <1>2, FS_Subset
<1>4. QED
  BY <1>1, <1>2, <1>3, MinOf

(* The failures are counted up to their bound.                             *)
LEMMA FaultsType ==
  ASSUME TypeOK, Fault \/ NoFault
  PROVE  faults' \in 0 .. MaxFaults
BY CommissionAssumption DEF TypeOK, Fault, NoFault

(* Type correctness.                                                       *)
LEMMA TypeStep ==
  ASSUME TypeOK, WorkersKnow, [Next]_vars
  PROVE  TypeOK'
<1>0. /\ Inviter \in Users /\ Tiers \subseteq Users /\ LogAmount \in Int /\ Transfers \subseteq Nat
      /\ Job \in Workers /\ \A w \in Workers : w # Job => w \in Requests
  BY CommissionAssumption DEF Users, Workers
<1> USE CommissionAssumption, <1>0
    DEF TypeOK, WorkersKnow, OrderStatuses, Refundable, Refunded, LogStatuses, Labels
<1>1. CASE UpsertSplit
  <2>1. CASE Fail /\ UNCHANGED <<split, share>>
    BY <1>1, <2>1 DEF UpsertSplit, Fail, Fault, logVars, queue, money, worker
  <2>2. CASE /\ split' = [split EXCEPT ![Row(rates, Min(todo))] = "pending"]
             /\ share' = [share EXCEPT ![Row(rates, Min(todo))] = CommissionAmount(rates, Min(todo))]
             /\ todo' = todo \ {Min(todo)}
             /\ UNCHANGED <<rates, order, attempts, step>> /\ NoFault
    <3>1. Min(todo) \in Tiers /\ rates \in [Tiers -> Nat]
      BY <1>1, NextTier DEF UpsertSplit
    <3>2. CommissionAmount(rates, Min(todo)) \in Nat
      BY <3>1, AmountType
    <3>3. split' \in [Rows -> {"none", "pending", "settled"}] /\ share' \in [Rows -> Nat]
      BY <2>2, <3>2
    <3>4. QED
      BY <1>1, <2>2, <3>3 DEF UpsertSplit, NoFault, logVars, queue, money, worker
  <2>3. QED
    BY <1>1, <2>1, <2>2 DEF UpsertSplit
<1>2. CASE SplitsRecorded
  BY <1>2 DEF SplitsRecorded, logVars, queue, splitVars, money, worker
<1>3. CASE RecordPendingCommission
  <2>1. log' \in LogStatuses /\ order' \in OrderStatuses /\ step' \in {"ended", "complete"}
        /\ todo' \subseteq Tiers
    BY <1>3 DEF RecordPendingCommission, CreatePending, Fail
  <2>2. UNCHANGED <<rates, attempts>> /\ (Fault \/ NoFault)
    BY <1>3 DEF RecordPendingCommission, Fail
  <2>3. QED
    BY <1>3, <2>1, <2>2, FaultsType DEF RecordPendingCommission, queue, splitVars, money, worker
<1>4. CASE MarkCompleted
  <2>1. order' \in OrderStatuses /\ step' = "ended"
        /\ todo' \subseteq Tiers
    BY <1>4 DEF MarkCompleted, Fail
  <2>2. UNCHANGED <<rates, attempts>> /\ (Fault \/ NoFault)
    BY <1>4 DEF MarkCompleted, Fail
  <2>3. QED
    BY <1>4, <2>1, <2>2, FaultsType DEF MarkCompleted, logVars, queue, splitVars, money, worker
<1>5. CASE CrashFulfillment
  BY <1>5 DEF CrashFulfillment, Fault, logVars, queue, splitVars, money, worker
<1>6. CASE RetryFulfillment
  BY <1>6 DEF RetryFulfillment, logVars, queue, splitVars, money, worker, Plans
<1>7. CASE RefundOrder
  BY <1>7 DEF RefundOrder, logVars, queue, splitVars, money, worker
<1>8. CASE JobConditions
  <2>0. frozen' = FALSE \/ frozen' = frozen
    BY <1>8 DEF JobConditions, FreezeEnds, SetAutoSettlement, OlderDecided
  <2>1. switch' \in {"on", "off"} /\ ahead' \in Nat
    BY <1>8 DEF JobConditions, FreezeEnds, SetAutoSettlement, OlderDecided, queue
  <2>2. UNCHANGED <<log, paid, clawed, overtaken, orderVars, splitVars, money, worker, faults>>
    BY <1>8 DEF JobConditions, FreezeEnds, SetAutoSettlement, OlderDecided
  <2>3. QED
    BY <2>0, <2>1, <2>2 DEF orderVars, splitVars, money, worker
<1>9. CASE RunOnce
  BY <1>9 DEF RunOnce, Goto, At, orderVars, logVars, queue, splitVars, money
<1>10. CASE ProcessOne
  BY <1>10 DEF ProcessOne, Goto, Finish, At, orderVars, logVars, queue, splitVars, money
<1>11. CASE ReadOrder
  BY <1>11 DEF ReadOrder, Decision, Goto, Finish, At, orderVars, logVars, queue, splitVars, money
<1>12. CASE ClawbackRead
  BY <1>12 DEF ClawbackRead, Finish, At, orderVars, logVars, queue, splitVars, money
<1>13. CASE ClawbackWrite
  <2>1. log' \in LogStatuses /\ clawed' \in Nat /\ transferred' = transferred
    BY <1>13 DEF ClawbackWrite, ClawbackEffect, AddCommission, money
  <2>2. commission' \in [Users -> Int]
    BY <1>13 DEF ClawbackWrite, ClawbackEffect, AddCommission, money
  <2>3. overtaken' \in BOOLEAN
    BY <1>13 DEF ClawbackWrite
  <2>4. QED
    BY <1>13, <2>1, <2>2, <2>3 DEF ClawbackWrite, Finish, queue, orderVars, splitVars
<1>14. ASSUME NEW w \in Workers, SettleRead(w)
       PROVE  TypeOK'
  BY <1>14 DEF SettleRead, Goto, Finish, At, orderVars, logVars, queue, splitVars, money
<1>15. ASSUME NEW w \in Workers, SettleWrite(w)
       PROVE  TypeOK'
  BY <1>15 DEF SettleWrite, queue, AddCommission, Finish, At, orderVars, splitVars
<1>16. ASSUME NEW w \in Workers, NEW t \in Tiers, NEW l \in Levels, SplitRead(w, t, l)
       PROVE  TypeOK'
  <2>1. <<t, l>> \in Rows /\ share[<<t, l>>] \in Nat /\ l \in Nat
    BY DEF Rows, Levels
  <2>2. QED
    BY <1>16, <2>1 DEF SplitRead, At, orderVars, logVars, queue, splitVars, money
<1>17. ASSUME NEW w \in Workers, SplitWrite(w)
       PROVE  TypeOK'
  <2> DEFINE k == <<who[w], level[w]>>
  <2>1. who[w] \in Tiers /\ amount[w] \in Nat
    BY <1>17 DEF SplitWrite, At
  <2>2. CASE ~SplitIsPending(k)
    BY <1>17, <2>2 DEF SplitWrite, Finish, orderVars, logVars, queue, splitVars, money
  <2>3. CASE SplitIsPending(k)
    <3>1. split' \in [Rows -> {"none", "pending", "settled"}] /\ share' = share
      BY <1>17, <2>3 DEF SplitWrite
    <3>2. splitPaid' \in [Tiers -> Nat] /\ commission' \in [Users -> Int] /\ transferred' = transferred
      BY <1>17, <2>1, <2>3 DEF SplitWrite, AddCommission
    <3>3. QED
      BY <1>17, <3>1, <3>2 DEF SplitWrite, Finish, orderVars, logVars, queue
  <2>4. QED
    BY <2>2, <2>3
<1>18. ASSUME NEW w \in Workers, NEW v \in Users, NEW n \in Transfers, TransferRead(w, v, n)
       PROVE  TypeOK'
  BY <1>18 DEF TransferRead, Covers, At, orderVars, logVars, queue, splitVars, money
<1>19. ASSUME NEW w \in Workers, TransferWrite(w)
       PROVE  TypeOK'
  <2>1. who[w] \in Users /\ amount[w] \in Nat /\ w \in Requests
    BY <1>19 DEF TransferWrite, At
  <2>2. commission[who[w]] \in Int /\ transferred[who[w]] \in Nat
    BY <2>1
  <2>3. commission' \in [Users -> Int] /\ transferred' \in [Users -> Nat]
    BY <1>19, <2>1, <2>2 DEF TransferWrite
  <2>4. QED
    BY <1>19, <2>3 DEF TransferWrite, Finish, orderVars, logVars, queue, splitVars
<1>20. ASSUME NEW w \in Workers, Rollback(w)
       PROVE  TypeOK'
  BY <1>20 DEF Rollback, Fault, Finish, orderVars, logVars, queue, splitVars, money
<1>21. CASE UNCHANGED vars
  BY <1>21 DEF vars, orderVars, logVars, queue, splitVars, money, worker
<1>22. QED
  BY <1>1, <1>2, <1>3, <1>4, <1>5, <1>6, <1>7, <1>8, <1>9, <1>10, <1>11, <1>12, <1>13, <1>14, <1>15, <1>16, <1>17, <1>18, <1>19, <1>20, <1>21
     DEF Next, Fulfillment, JobStep, Transaction

(* Where the fulfilment and the job are.                                   *)
LEMMA ShapeStep ==
  ASSUME CommissionInv, [Next]_vars
  PROVE  (TodoWhileSplitting /\ JobFollowsOrder)'
<1> USE CommissionAssumption DEF CommissionInv, TypeOK, TodoWhileSplitting, JobFollowsOrder, WorkersKnow, Refundable, Refunded, Workers
<1>1. CASE UpsertSplit
  BY <1>1 DEF UpsertSplit, Fail, Fault, NoFault, logVars, money, worker
<1>2. CASE SplitsRecorded
  BY <1>2 DEF SplitsRecorded, logVars, splitVars, money, worker
<1>3. CASE RecordPendingCommission
  BY <1>3 DEF RecordPendingCommission, CreatePending, Fail, Fault, NoFault, splitVars, money, worker
<1>4. CASE MarkCompleted
  BY <1>4 DEF MarkCompleted, Fail, Fault, NoFault, logVars, splitVars, money, worker
<1>5. CASE CrashFulfillment
  BY <1>5 DEF CrashFulfillment, Fault, logVars, splitVars, money, worker
<1>6. CASE RetryFulfillment
  BY <1>6 DEF RetryFulfillment, logVars, splitVars, money, worker
<1>7. CASE RefundOrder
  BY <1>7 DEF RefundOrder, logVars, splitVars, money, worker
<1>8. CASE JobConditions
  BY <1>8 DEF JobConditions, FreezeEnds, SetAutoSettlement, OlderDecided, orderVars, splitVars, money, worker
<1>9. CASE RunOnce
  BY <1>9 DEF RunOnce, Goto, At, orderVars, logVars, splitVars, money
<1>10. CASE ProcessOne
  BY <1>10 DEF ProcessOne, Goto, Finish, At, orderVars, logVars, splitVars, money
<1>11. CASE ReadOrder
  BY <1>11 DEF ReadOrder, Decision, Goto, Finish, At, orderVars, logVars, splitVars, money
<1>12. CASE ClawbackRead
  BY <1>12 DEF ClawbackRead, Finish, At, orderVars, logVars, splitVars, money
<1>13. CASE ClawbackWrite
  BY <1>13 DEF ClawbackWrite, ClawbackEffect, AddCommission, Finish, At, orderVars, splitVars
<1>14. ASSUME NEW w \in Workers, SettleRead(w)
       PROVE  (TodoWhileSplitting /\ JobFollowsOrder)'
  BY <1>14 DEF SettleRead, Goto, Finish, At, orderVars, logVars, splitVars, money
<1>15. ASSUME NEW w \in Workers, SettleWrite(w)
       PROVE  (TodoWhileSplitting /\ JobFollowsOrder)'
  BY <1>15 DEF SettleWrite, AddCommission, Finish, At, orderVars, splitVars
<1>16. ASSUME NEW w \in Workers, NEW t \in Tiers, NEW l \in Levels, SplitRead(w, t, l)
       PROVE  (TodoWhileSplitting /\ JobFollowsOrder)'
  BY <1>16 DEF SplitRead, At, orderVars, logVars, splitVars, money
<1>17. ASSUME NEW w \in Workers, SplitWrite(w)
       PROVE  (TodoWhileSplitting /\ JobFollowsOrder)'
  BY <1>17 DEF SplitWrite, SplitIsPending, AddCommission, Finish, At, orderVars, logVars, splitVars
<1>18. ASSUME NEW w \in Workers, NEW v \in Users, NEW n \in Transfers, TransferRead(w, v, n)
       PROVE  (TodoWhileSplitting /\ JobFollowsOrder)'
  BY <1>18 DEF TransferRead, Covers, At, orderVars, logVars, splitVars, money
<1>19. ASSUME NEW w \in Workers, TransferWrite(w)
       PROVE  (TodoWhileSplitting /\ JobFollowsOrder)'
  BY <1>19 DEF TransferWrite, Finish, At, orderVars, logVars, splitVars
<1>20. ASSUME NEW w \in Workers, Rollback(w)
       PROVE  (TodoWhileSplitting /\ JobFollowsOrder)'
  BY <1>20 DEF Rollback, Fault, Finish, orderVars, logVars, splitVars, money
<1>21. CASE UNCHANGED vars
  BY <1>21 DEF vars, orderVars, logVars, splitVars, money, worker
<1>22. QED
  BY <1>1, <1>2, <1>3, <1>4, <1>5, <1>6, <1>7, <1>8, <1>9, <1>10, <1>11, <1>12, <1>13, <1>14, <1>15, <1>16, <1>17, <1>18, <1>19, <1>20, <1>21
     DEF Next, Fulfillment, JobStep, Transaction

(* No step takes from a transaction what it read.                          *)
LEMMA KnowStep ==
  ASSUME CommissionInv, [Next]_vars
  PROVE  WorkersKnow'
<1>0. /\ Job \in Workers
      /\ Users = Tiers \cup {Inviter}
  BY DEF Workers, Users
<1> USE CommissionAssumption, <1>0 DEF CommissionInv, TypeOK, WorkersKnow
<1>1. CASE UpsertSplit
  BY <1>1 DEF UpsertSplit, Fail, Fault, NoFault, logVars, money, worker
<1>2. CASE SplitsRecorded
  BY <1>2 DEF SplitsRecorded, logVars, splitVars, money, worker
<1>3. CASE RecordPendingCommission
  BY <1>3 DEF RecordPendingCommission, CreatePending, Fail, Fault, NoFault, splitVars, money, worker
<1>4. CASE MarkCompleted
  BY <1>4 DEF MarkCompleted, Fail, Fault, NoFault, logVars, splitVars, money, worker
<1>5. CASE CrashFulfillment
  BY <1>5 DEF CrashFulfillment, Fault, logVars, splitVars, money, worker
<1>6. CASE RetryFulfillment
  BY <1>6 DEF RetryFulfillment, logVars, splitVars, money, worker
<1>7. CASE RefundOrder
  BY <1>7 DEF RefundOrder, logVars, splitVars, money, worker
<1>8. CASE JobConditions
  BY <1>8 DEF JobConditions, FreezeEnds, SetAutoSettlement, OlderDecided, orderVars, splitVars, money, worker
<1>9. CASE RunOnce
  BY <1>9 DEF RunOnce, Goto, At, orderVars, logVars, splitVars, money
<1>10. CASE ProcessOne
  BY <1>10 DEF ProcessOne, Goto, Finish, At, orderVars, logVars, splitVars, money
<1>11. CASE ReadOrder
  BY <1>11 DEF ReadOrder, Decision, Goto, Finish, At, orderVars, logVars, splitVars, money
<1>12. CASE ClawbackRead
  BY <1>12 DEF ClawbackRead, Finish, At, orderVars, logVars, splitVars, money
<1>13. CASE ClawbackWrite
  BY <1>13 DEF ClawbackWrite, ClawbackEffect, AddCommission, Finish, At, orderVars, splitVars
<1>14. ASSUME NEW w \in Workers, SettleRead(w)
       PROVE  WorkersKnow'
  BY <1>14 DEF SettleRead, Goto, Finish, At, orderVars, logVars, splitVars, money
<1>15. ASSUME NEW w \in Workers, SettleWrite(w)
       PROVE  WorkersKnow'
  BY <1>15 DEF SettleWrite, AddCommission, Finish, At, orderVars, splitVars
<1>16. ASSUME NEW w \in Workers, NEW t \in Tiers, NEW l \in Levels, SplitRead(w, t, l)
       PROVE  WorkersKnow'
  BY <1>16 DEF SplitRead, At, orderVars, logVars, splitVars, money
<1>17. ASSUME NEW w \in Workers, SplitWrite(w)
       PROVE  WorkersKnow'
  BY <1>17 DEF SplitWrite, SplitIsPending, AddCommission, Finish, At, orderVars, logVars, splitVars
<1>18. ASSUME NEW w \in Workers, NEW v \in Users, NEW n \in Transfers, TransferRead(w, v, n)
       PROVE  WorkersKnow'
  BY <1>18 DEF TransferRead, Covers, At, orderVars, logVars, splitVars, money
<1>19. ASSUME NEW w \in Workers, TransferWrite(w)
       PROVE  WorkersKnow'
  BY <1>19 DEF TransferWrite, Finish, At, orderVars, logVars, splitVars
<1>20. ASSUME NEW w \in Workers, Rollback(w)
       PROVE  WorkersKnow'
  BY <1>20 DEF Rollback, Fault, Finish, orderVars, logVars, splitVars, money
<1>21. CASE UNCHANGED vars
  BY <1>21 DEF vars, orderVars, logVars, splitVars, money, worker
<1>22. QED
  BY <1>1, <1>2, <1>3, <1>4, <1>5, <1>6, <1>7, <1>8, <1>9, <1>10, <1>11, <1>12, <1>13, <1>14, <1>15, <1>16, <1>17, <1>18, <1>19, <1>20, <1>21
     DEF Next, Fulfillment, JobStep, Transaction

(* The pending rows of a tier can be counted.                              *)
LEMMA PendingType ==
  \A rows, t : /\ IsFiniteSet(PendingLevels(rows, t))
              /\ Cardinality(PendingLevels(rows, t)) \in Nat
<1>1. Cardinality(Tiers) \in Nat
  BY CommissionAssumption, FS_CardinalityType
<1>2. IsFiniteSet(Levels)
  BY <1>1, FS_Interval DEF Levels
<1>3. \A rows, t : PendingLevels(rows, t) \subseteq Levels
  BY DEF PendingLevels
<1>4. QED
  BY <1>2, <1>3, FS_Subset, FS_CardinalityType

(* Leaving tiers out, or none, changes no account.                         *)
LEMMA AccountKept ==
  ASSUME CommissionInv, UNCHANGED <<split, splitPaid, attempts>>, todo' \subseteq todo
  PROVE  SplitsAccounted'
<1>1. ASSUME NEW t \in Tiers
      PROVE  splitPaid[t] + Cardinality(PendingLevels(split, t)) + One(t \in todo') <= attempts
  <2>1. /\ splitPaid[t] \in Nat /\ attempts \in Nat
        /\ Cardinality(PendingLevels(split, t)) \in Nat
    BY PendingType DEF CommissionInv, TypeOK
  <2>2. splitPaid[t] + Cardinality(PendingLevels(split, t)) + One(t \in todo) <= attempts
    BY DEF CommissionInv, SplitsAccounted
  <2>3. One(t \in todo') \in Nat /\ One(t \in todo) \in Nat /\ One(t \in todo') <= One(t \in todo)
    BY DEF One
  <2>4. QED
    BY <2>1, <2>2, <2>3
<1>2. attempts # 0 /\ \A t \in Tiers, l \in Levels : split[<<t, l>>] = "settled" => splitPaid[t] # 0
  BY DEF CommissionInv, SplitsAccounted
<1>3. QED
  BY <1>1, <1>2 DEF SplitsAccounted

(* The splits: written once an attempt, paid once a writing.               *)
LEMMA AccountStep ==
  ASSUME CommissionInv, [Next]_vars
  PROVE  SplitsAccounted'
<1> USE CommissionAssumption DEF CommissionInv, TypeOK, SplitsAccounted, One
<1>1. CASE UpsertSplit
  <2>1. CASE UNCHANGED <<split, share>> /\ Fail
    BY <1>1, <2>1, AccountKept DEF UpsertSplit, Fail
  <2>2. CASE /\ split' = [split EXCEPT ![Row(rates, Min(todo))] = "pending"]
             /\ todo' = todo \ {Min(todo)}
             /\ UNCHANGED <<rates, order, attempts, step>>
    <3> DEFINE u == Min(todo)
               l == Level(rates, u)
    <3>1. u \in todo /\ u \in Tiers
      BY <1>1, NextTier DEF UpsertSplit
    <3>2. l \in Levels /\ Row(rates, u) = <<u, l>>
      BY <3>1, RowType
    <3>3. \A t \in Tiers, m \in Levels :
            split'[<<t, m>>] = IF t = u /\ m = l THEN "pending" ELSE split[<<t, m>>]
      <4>1. \A j \in Rows : split'[j] = IF j = <<u, l>> THEN "pending" ELSE split[j]
        BY <2>2, <3>2
      <4> HIDE DEF u, l
      <4>2. ASSUME NEW t \in Tiers, NEW m \in Levels
            PROVE  split'[<<t, m>>] = IF t = u /\ m = l THEN "pending" ELSE split[<<t, m>>]
        <5>1. <<t, m>> \in Rows /\ (<<t, m>> = <<u, l>> <=> t = u /\ m = l)
          BY RowOf
        <5>2. split'[<<t, m>>] = IF <<t, m>> = <<u, l>> THEN "pending" ELSE split[<<t, m>>]
          BY <4>1, <5>1
        <5>3. QED
          BY <5>1, <5>2
      <4>3. QED
        BY <4>2
    <3> HIDE DEF u, l
    <3>4. \A t \in Tiers : t # u => PendingLevels(split', t) = PendingLevels(split, t)
      BY <3>3 DEF PendingLevels
    <3>5. PendingLevels(split', u) = PendingLevels(split, u) \cup {l}
      BY <3>1, <3>2, <3>3 DEF PendingLevels
    <3>6. Cardinality(PendingLevels(split', u)) <= Cardinality(PendingLevels(split, u)) + 1
      BY <3>5, PendingType, AddAtMostOne
    <3>7. splitPaid' = splitPaid /\ todo' = todo \ {u} /\ attempts' = attempts
      BY <1>1, <2>2 DEF UpsertSplit, u
    <3>8. \A t \in Tiers, m \in Levels : split'[<<t, m>>] = "settled" => split[<<t, m>>] = "settled"
      BY <3>3
    <3>9. ASSUME NEW t \in Tiers
          PROVE  splitPaid'[t] + Cardinality(PendingLevels(split', t)) + One(t \in todo') <= attempts'
      <4>1. /\ splitPaid[t] \in Nat /\ attempts \in Nat
            /\ Cardinality(PendingLevels(split, t)) \in Nat /\ Cardinality(PendingLevels(split', t)) \in Nat
            /\ splitPaid[t] + Cardinality(PendingLevels(split, t)) + One(t \in todo) <= attempts
        BY PendingType
      <4>2. CASE t = u
        BY <3>1, <3>6, <3>7, <4>1, <4>2
      <4>3. CASE t # u
        BY <3>4, <3>7, <4>1, <4>3
      <4>4. QED
        BY <4>2, <4>3
    <3>10. QED
      BY <3>7, <3>8, <3>9
  <2>3. QED
    BY <1>1, <2>1, <2>2 DEF UpsertSplit
<1>2. CASE SplitsRecorded
  BY <1>2, AccountKept DEF SplitsRecorded, splitVars
<1>3. CASE RecordPendingCommission
  <2>1. UNCHANGED <<split, splitPaid, attempts>> /\ todo' \subseteq todo
    BY <1>3 DEF RecordPendingCommission, Fail, splitVars
  <2>2. QED
    BY <2>1, AccountKept
<1>4. CASE MarkCompleted
  <2>1. UNCHANGED <<split, splitPaid, attempts>> /\ todo' \subseteq todo
    BY <1>4 DEF MarkCompleted, Fail, splitVars
  <2>2. QED
    BY <2>1, AccountKept
<1>5. CASE CrashFulfillment
  BY <1>5, AccountKept DEF CrashFulfillment, splitVars
<1>6. CASE RetryFulfillment
  <2>1. ASSUME NEW t \in Tiers
        PROVE  splitPaid[t] + Cardinality(PendingLevels(split, t)) + 1 <= attempts + 1
    BY <1>6, PendingType DEF RetryFulfillment, TodoWhileSplitting
  <2>2. UNCHANGED <<split, splitPaid>> /\ attempts' = attempts + 1
    BY <1>6 DEF RetryFulfillment, splitVars
  <2>3. QED
    BY <2>1, <2>2, PendingType
<1>7. CASE RefundOrder
  BY <1>7 DEF RefundOrder, logVars, splitVars, money, worker
<1>8. CASE JobConditions
  BY <1>8 DEF JobConditions, FreezeEnds, SetAutoSettlement, OlderDecided, orderVars, splitVars, money, worker
<1>9. CASE RunOnce
  BY <1>9 DEF RunOnce, Goto, At, orderVars, logVars, splitVars, money
<1>10. CASE ProcessOne
  BY <1>10 DEF ProcessOne, Goto, Finish, At, orderVars, logVars, splitVars, money
<1>11. CASE ReadOrder
  BY <1>11 DEF ReadOrder, Decision, Goto, Finish, At, orderVars, logVars, splitVars, money
<1>12. CASE ClawbackRead
  BY <1>12 DEF ClawbackRead, Finish, At, orderVars, logVars, splitVars, money
<1>13. CASE ClawbackWrite
  BY <1>13 DEF ClawbackWrite, ClawbackEffect, AddCommission, Finish, At, orderVars, splitVars
<1>14. ASSUME NEW w \in Workers, SettleRead(w)
       PROVE  SplitsAccounted'
  BY <1>14 DEF SettleRead, Goto, Finish, At, orderVars, logVars, splitVars, money
<1>15. ASSUME NEW w \in Workers, SettleWrite(w)
       PROVE  SplitsAccounted'
  BY <1>15 DEF SettleWrite, AddCommission, Finish, At, orderVars, splitVars
<1>16. ASSUME NEW w \in Workers, NEW t \in Tiers, NEW l \in Levels, SplitRead(w, t, l)
       PROVE  SplitsAccounted'
  BY <1>16 DEF SplitRead, At, orderVars, logVars, splitVars, money
<1>17. ASSUME NEW w \in Workers, SplitWrite(w)
       PROVE  SplitsAccounted'
  <2> DEFINE u == who[w]
             l == level[w]
  <2>0. u \in Tiers /\ l \in Levels /\ UNCHANGED <<attempts, todo>>
    BY <1>17 DEF SplitWrite, At, WorkersKnow, orderVars
  <2>1. CASE ~SplitIsPending(<<u, l>>)
    BY <1>17, <2>0, <2>1 DEF SplitWrite, splitVars
  <2>2. CASE SplitIsPending(<<u, l>>)
    <3>1. /\ split[<<u, l>>] = "pending"
          /\ \A t \in Tiers, m \in Levels :
                split'[<<t, m>>] = IF t = u /\ m = l THEN "settled" ELSE split[<<t, m>>]
      <4>1. split[<<u, l>>] = "pending" /\ split' = [split EXCEPT ![<<u, l>>] = "settled"]
        BY <1>17, <2>2 DEF SplitWrite, SplitIsPending
      <4>2. \A j \in Rows : split'[j] = IF j = <<u, l>> THEN "settled" ELSE split[j]
        BY <4>1
      <4>3. QED
        BY <4>1, <4>2, RowOf
    <3>2. \A t \in Tiers : splitPaid'[t] = IF t = u THEN splitPaid[t] + 1 ELSE splitPaid[t]
      BY <1>17, <2>0, <2>2 DEF SplitWrite
    <3> HIDE DEF u, l
    <3>3. \A t \in Tiers : t # u => PendingLevels(split', t) = PendingLevels(split, t)
      BY <3>1 DEF PendingLevels
    <3>4. PendingLevels(split', u) = PendingLevels(split, u) \ {l} /\ l \in PendingLevels(split, u)
      BY <2>0, <3>1 DEF PendingLevels
    <3>5. Cardinality(PendingLevels(split', u)) = Cardinality(PendingLevels(split, u)) - 1
      <4> DEFINE P == PendingLevels(split, u)
      <4>1. IsFiniteSet(P) /\ l \in P /\ PendingLevels(split', u) = P \ {l}
        BY <3>4, PendingType
      <4> HIDE DEF P
      <4>2. Cardinality(P \ {l}) = Cardinality(P) - 1
        BY <4>1, FS_RemoveElement
      <4>3. QED
        BY <4>1, <4>2 DEF P
    <3>6. ASSUME NEW t \in Tiers
          PROVE  /\ splitPaid'[t] + Cardinality(PendingLevels(split', t)) + One(t \in todo') <= attempts'
                 /\ \A m \in Levels : split'[<<t, m>>] = "settled" => splitPaid'[t] # 0
      <4>1. /\ splitPaid[t] \in Nat /\ attempts \in Nat
            /\ Cardinality(PendingLevels(split, t)) \in Nat
            /\ splitPaid[t] + Cardinality(PendingLevels(split, t)) + One(t \in todo) <= attempts
            /\ \A m \in Levels : split[<<t, m>>] = "settled" => splitPaid[t] # 0
        BY PendingType
      <4>2. CASE t = u
        BY <2>0, <3>2, <3>5, <4>1, <4>2
      <4>3. CASE t # u
        BY <2>0, <3>1, <3>2, <3>3, <4>1, <4>3
      <4>4. QED
        BY <4>2, <4>3
    <3>7. QED
      BY <2>0, <3>6
  <2>3. QED
    BY <2>1, <2>2
<1>18. ASSUME NEW w \in Workers, NEW v \in Users, NEW n \in Transfers, TransferRead(w, v, n)
       PROVE  SplitsAccounted'
  BY <1>18 DEF TransferRead, Covers, At, orderVars, logVars, splitVars, money
<1>19. ASSUME NEW w \in Workers, TransferWrite(w)
       PROVE  SplitsAccounted'
  BY <1>19 DEF TransferWrite, Finish, At, orderVars, logVars, splitVars
<1>20. ASSUME NEW w \in Workers, Rollback(w)
       PROVE  SplitsAccounted'
  BY <1>20 DEF Rollback, Fault, Finish, orderVars, logVars, splitVars, money
<1>21. CASE UNCHANGED vars
  BY <1>21 DEF vars, orderVars, logVars, splitVars, money, worker
<1>22. QED
  BY <1>1, <1>2, <1>3, <1>4, <1>5, <1>6, <1>7, <1>8, <1>9, <1>10, <1>11, <1>12, <1>13, <1>14, <1>15, <1>16, <1>17, <1>18, <1>19, <1>20, <1>21
     DEF Next, Fulfillment, JobStep, Transaction

(* The splits: those of the plan.                                          *)
LEMMA PlanStep ==
  ASSUME CommissionInv, [Next]_vars
  PROVE  SplitsFollowPlan'
<1> USE CommissionAssumption DEF CommissionInv, TypeOK, SplitsFollowPlan, TodoWhileSplitting
<1>1. CASE UpsertSplit
  <2>1. CASE UNCHANGED <<split, share>> /\ Fail
    BY <1>1, <2>1 DEF UpsertSplit, Fail
  <2>2. CASE /\ split' = [split EXCEPT ![Row(rates, Min(todo))] = "pending"]
             /\ share' = [share EXCEPT ![Row(rates, Min(todo))] = CommissionAmount(rates, Min(todo))]
             /\ todo' = todo \ {Min(todo)}
             /\ UNCHANGED <<rates, order, attempts, step>>
    <3>1. Min(todo) \in todo /\ Min(todo) \in Tiers
      BY <1>1, NextTier DEF UpsertSplit
    <3>2. Plans(rates) \subseteq Tiers
      BY DEF Plans
    <3>3. /\ \A t \in Tiers : Row(rates, t) \in Rows
          /\ \A t \in Tiers : t # Min(todo) => Row(rates, t) # Row(rates, Min(todo))
      <4>1. \A t \in Tiers : Row(rates, t) \in Rows
        BY RowType
      <4>2. \A t \in Tiers : t # Min(todo) => Row(rates, t) # Row(rates, Min(todo))
        BY <3>1, RowsApart
      <4>3. QED
        BY <4>1, <4>2
    <3>4. \A t \in Tiers :
            /\ split'[Row(rates, t)] = IF t = Min(todo) THEN "pending" ELSE split[Row(rates, t)]
            /\ share'[Row(rates, t)] = IF t = Min(todo) THEN CommissionAmount(rates, t)
                                       ELSE share[Row(rates, t)]
      BY <2>2, <3>1, <3>3
    <3>5. QED
      <4>1. \A t \in Plans(rates) :
              \/ t \in todo'
              \/ /\ split'[Row(rates, t)] # "none"
                 /\ share'[Row(rates, t)] = CommissionAmount(rates, t)
        BY <1>1, <2>2, <3>1, <3>2, <3>4 DEF UpsertSplit
      <4>2. todo' \subseteq Plans(rates) /\ rates' = rates
        BY <2>2
      <4>3. QED
        BY <4>1, <4>2
  <2>3. QED
    BY <1>1, <2>1, <2>2 DEF UpsertSplit
<1>2. CASE SplitsRecorded
  BY <1>2 DEF SplitsRecorded, logVars, splitVars, money, worker
<1>3. CASE RecordPendingCommission
  BY <1>3 DEF RecordPendingCommission, CreatePending, Fail, Fault, NoFault, splitVars, money, worker
<1>4. CASE MarkCompleted
  BY <1>4 DEF MarkCompleted, Fail, Fault, NoFault, logVars, splitVars, money, worker
<1>5. CASE CrashFulfillment
  BY <1>5 DEF CrashFulfillment, Fault, logVars, splitVars, money, worker
<1>6. CASE RetryFulfillment
  BY <1>6 DEF RetryFulfillment, logVars, splitVars, money, worker, Plans
<1>7. CASE RefundOrder
  BY <1>7 DEF RefundOrder, logVars, splitVars, money, worker, Refundable, Refunded
<1>8. CASE JobConditions
  BY <1>8 DEF JobConditions, FreezeEnds, SetAutoSettlement, OlderDecided, orderVars, splitVars, money, worker
<1>9. CASE RunOnce
  BY <1>9 DEF RunOnce, Goto, At, orderVars, logVars, splitVars, money
<1>10. CASE ProcessOne
  BY <1>10 DEF ProcessOne, Goto, Finish, At, orderVars, logVars, splitVars, money
<1>11. CASE ReadOrder
  BY <1>11 DEF ReadOrder, Decision, Goto, Finish, At, orderVars, logVars, splitVars, money
<1>12. CASE ClawbackRead
  BY <1>12 DEF ClawbackRead, Finish, At, orderVars, logVars, splitVars, money
<1>13. CASE ClawbackWrite
  BY <1>13 DEF ClawbackWrite, ClawbackEffect, AddCommission, Finish, At, orderVars, splitVars
<1>14. ASSUME NEW w \in Workers, SettleRead(w)
       PROVE  SplitsFollowPlan'
  BY <1>14 DEF SettleRead, Goto, Finish, At, orderVars, logVars, splitVars, money
<1>15. ASSUME NEW w \in Workers, SettleWrite(w)
       PROVE  SplitsFollowPlan'
  BY <1>15 DEF SettleWrite, AddCommission, Finish, At, orderVars, splitVars
<1>16. ASSUME NEW w \in Workers, NEW t \in Tiers, NEW l \in Levels, SplitRead(w, t, l)
       PROVE  SplitsFollowPlan'
  BY <1>16 DEF SplitRead, At, orderVars, logVars, splitVars, money
<1>17. ASSUME NEW w \in Workers, SplitWrite(w)
       PROVE  SplitsFollowPlan'
  <2>1. \A k \in Rows : split[k] # "none" => split'[k] # "none"
    BY <1>17 DEF SplitWrite, splitVars
  <2>2. UNCHANGED <<rates, order, step, todo, share>>
    BY <1>17 DEF SplitWrite, orderVars, splitVars
  <2>3. Plans(rates) \subseteq Tiers /\ \A t \in Tiers : Row(rates, t) \in Rows
    BY RowType DEF Plans
  <2>4. QED
    BY <2>1, <2>2, <2>3
<1>18. ASSUME NEW w \in Workers, NEW v \in Users, NEW n \in Transfers, TransferRead(w, v, n)
       PROVE  SplitsFollowPlan'
  BY <1>18 DEF TransferRead, Covers, At, orderVars, logVars, splitVars, money
<1>19. ASSUME NEW w \in Workers, TransferWrite(w)
       PROVE  SplitsFollowPlan'
  BY <1>19 DEF TransferWrite, Finish, At, orderVars, logVars, splitVars
<1>20. ASSUME NEW w \in Workers, Rollback(w)
       PROVE  SplitsFollowPlan'
  BY <1>20 DEF Rollback, Fault, Finish, orderVars, logVars, splitVars, money
<1>21. CASE UNCHANGED vars
  BY <1>21 DEF vars, orderVars, logVars, splitVars, money, worker
<1>22. QED
  BY <1>1, <1>2, <1>3, <1>4, <1>5, <1>6, <1>7, <1>8, <1>9, <1>10, <1>11, <1>12, <1>13, <1>14, <1>15, <1>16, <1>17, <1>18, <1>19, <1>20, <1>21
     DEF Next, Fulfillment, JobStep, Transaction

(* In the first attempt a tier that is still to do has no row.             *)
LEMMA TodoIsUnwritten ==
  ASSUME CommissionInv, attempts = 1, NEW t \in todo, NEW l \in Levels
  PROVE  split[<<t, l>>] = "none"
<1>1. /\ t \in Tiers /\ split \in [Rows -> {"none", "pending", "settled"}]
      /\ <<t, l>> \in Rows /\ splitPaid[t] \in Nat
  BY DEF CommissionInv, TypeOK, Rows
<1>2. splitPaid[t] + Cardinality(PendingLevels(split, t)) + One(t \in todo) <= 1
  BY <1>1 DEF CommissionInv, SplitsAccounted
<1>3. splitPaid[t] = 0 /\ Cardinality(PendingLevels(split, t)) = 0
  BY <1>1, <1>2, PendingType DEF One
<1>4. PendingLevels(split, t) = {}
  BY <1>3, PendingType, FS_EmptySet
<1>5. split[<<t, l>>] # "pending"
  BY <1>4 DEF PendingLevels
<1>6. split[<<t, l>>] # "settled"
  BY <1>1, <1>3 DEF CommissionInv, SplitsAccounted
<1>7. QED
  BY <1>1, <1>5, <1>6

(* The first attempt writes each row once, so that what a settlement read  *)
(* of it stands.                                                           *)
LEMMA FirstStep ==
  ASSUME CommissionInv, [Next]_vars
  PROVE  FirstRowsStand'
<1>0. /\ Job \in Workers
      /\ Users = Tiers \cup {Inviter}
  BY DEF Workers, Users
<1> USE CommissionAssumption, <1>0 DEF CommissionInv, TypeOK, WorkersKnow, FirstRowsStand
<1>1. CASE UpsertSplit
  <2>1. CASE UNCHANGED <<split, share>> /\ Fail
    BY <1>1, <2>1 DEF UpsertSplit, Fail, worker
  <2>2. CASE /\ split' = [split EXCEPT ![Row(rates, Min(todo))] = "pending"]
             /\ share' = [share EXCEPT ![Row(rates, Min(todo))] = CommissionAmount(rates, Min(todo))]
             /\ UNCHANGED <<rates, order, attempts, step>>
    <3> DEFINE u == Min(todo)
               l == Level(rates, u)
    <3>1. u \in todo /\ u \in Tiers
      BY <1>1, NextTier DEF UpsertSplit
    <3>2. l \in Levels /\ Row(rates, u) = <<u, l>>
      BY <3>1, RowType
    <3>3. \A t \in Tiers, m \in Levels :
            /\ split'[<<t, m>>] = IF t = u /\ m = l THEN "pending" ELSE split[<<t, m>>]
            /\ ~(t = u /\ m = l) => share'[<<t, m>>] = share[<<t, m>>]
      <4>1. \A j \in Rows :
              /\ split'[j] = IF j = <<u, l>> THEN "pending" ELSE split[j]
              /\ j # <<u, l>> => share'[j] = share[j]
        BY <2>2, <3>2
      <4>2. QED
        BY <4>1, RowOf
    <3>4. UNCHANGED <<pc, who, level, amount>>
      BY <1>1 DEF UpsertSplit, worker
    <3>5. attempts = 1 => split[<<u, l>>] = "none"
      BY <3>1, <3>2, TodoIsUnwritten
    <3>6. \A t \in Tiers, m \in Levels : split'[<<t, m>>] # "none" /\ attempts = 1 => m = Level(rates, t)
      BY <3>3
    <3> HIDE DEF u, l
    <3>7. ASSUME attempts = 1, NEW w \in Workers, pc[w] = "splitWrite"
          PROVE  /\ split'[<<who[w], level[w]>>] # "none"
                 /\ amount[w] = share'[<<who[w], level[w]>>]
      <4>1. who[w] \in Tiers /\ level[w] \in Levels /\ split[<<who[w], level[w]>>] # "none"
            /\ amount[w] = share[<<who[w], level[w]>>]
        BY <3>7
      <4>2. ~(who[w] = u /\ level[w] = l)
        BY <3>5, <3>7, <4>1
      <4>3. /\ split'[<<who[w], level[w]>>] = split[<<who[w], level[w]>>]
            /\ share'[<<who[w], level[w]>>] = share[<<who[w], level[w]>>]
        <5> DEFINE a == who[w]
                   b == level[w]
        <5>1. a \in Tiers /\ b \in Levels /\ ~(a = u /\ b = l)
          BY <4>1, <4>2
        <5> HIDE DEF a, b
        <5>2. split'[<<a, b>>] = split[<<a, b>>] /\ share'[<<a, b>>] = share[<<a, b>>]
          BY <3>3, <5>1
        <5>3. QED
          BY <5>2 DEF a, b
      <4>4. QED
        BY <4>1, <4>3
    <3>8. QED
      BY <2>2, <3>4, <3>6, <3>7
  <2>3. QED
    BY <1>1, <2>1, <2>2 DEF UpsertSplit
<1>2. CASE SplitsRecorded
  BY <1>2 DEF SplitsRecorded, logVars, splitVars, money, worker
<1>3. CASE RecordPendingCommission
  BY <1>3 DEF RecordPendingCommission, CreatePending, Fail, Fault, NoFault, splitVars, money, worker
<1>4. CASE MarkCompleted
  BY <1>4 DEF MarkCompleted, Fail, Fault, NoFault, logVars, splitVars, money, worker
<1>5. CASE CrashFulfillment
  BY <1>5 DEF CrashFulfillment, Fault, logVars, splitVars, money, worker
<1>6. CASE RetryFulfillment
  BY <1>6 DEF RetryFulfillment, SplitsAccounted
<1>7. CASE RefundOrder
  BY <1>7 DEF RefundOrder, logVars, splitVars, money, worker
<1>8. CASE JobConditions
  BY <1>8 DEF JobConditions, FreezeEnds, SetAutoSettlement, OlderDecided, orderVars, splitVars, money, worker
<1>9. CASE RunOnce
  BY <1>9 DEF RunOnce, Goto, At, orderVars, logVars, splitVars, money
<1>10. CASE ProcessOne
  BY <1>10 DEF ProcessOne, Goto, Finish, At, orderVars, logVars, splitVars, money
<1>11. CASE ReadOrder
  BY <1>11 DEF ReadOrder, Decision, Goto, Finish, At, orderVars, logVars, splitVars, money
<1>12. CASE ClawbackRead
  BY <1>12 DEF ClawbackRead, Finish, At, orderVars, logVars, splitVars, money
<1>13. CASE ClawbackWrite
  BY <1>13 DEF ClawbackWrite, ClawbackEffect, AddCommission, Finish, At, orderVars, splitVars
<1>14. ASSUME NEW w \in Workers, SettleRead(w)
       PROVE  FirstRowsStand'
  BY <1>14 DEF SettleRead, Goto, Finish, At, orderVars, logVars, splitVars, money
<1>15. ASSUME NEW w \in Workers, SettleWrite(w)
       PROVE  FirstRowsStand'
  BY <1>15 DEF SettleWrite, AddCommission, Finish, At, orderVars, splitVars
<1>16. ASSUME NEW w \in Workers, NEW t \in Tiers, NEW l \in Levels, SplitRead(w, t, l)
       PROVE  FirstRowsStand'
  BY <1>16 DEF SplitRead, At, orderVars, logVars, splitVars, money
<1>17. ASSUME NEW w \in Workers, SplitWrite(w)
       PROVE  FirstRowsStand'
  <2>1. \A t \in Tiers, l \in Levels : split'[<<t, l>>] # "none" <=> split[<<t, l>>] # "none"
    <3> DEFINE k == <<who[w], level[w]>>
    <3>1. CASE ~SplitIsPending(k)
      BY <1>17, <3>1 DEF SplitWrite, splitVars
    <3>2. CASE SplitIsPending(k)
      <4>1. split[k] = "pending" /\ split' = [split EXCEPT ![k] = "settled"]
        BY <1>17, <3>2 DEF SplitWrite, SplitIsPending
      <4> HIDE DEF k
      <4>2. \A j \in Rows : split'[j] # "none" <=> split[j] # "none"
        BY <4>1
      <4>3. \A t \in Tiers, l \in Levels : <<t, l>> \in Rows
        BY DEF Rows
      <4>4. QED
        BY <4>2, <4>3
    <3>3. QED
      BY <3>1, <3>2
  <2>2. UNCHANGED <<rates, attempts, share>>
    BY <1>17 DEF SplitWrite, orderVars, splitVars
  <2>3. \A v \in Workers : pc'[v] = "splitWrite" =>
            pc[v] = "splitWrite" /\ who'[v] = who[v] /\ level'[v] = level[v] /\ amount'[v] = amount[v]
    BY <1>17 DEF SplitWrite, Finish
  <2>4. ASSUME attempts = 1, NEW v \in Workers, pc'[v] = "splitWrite"
        PROVE  /\ split'[<<who'[v], level'[v]>>] # "none"
               /\ amount'[v] = share[<<who'[v], level'[v]>>]
    <3>1. /\ pc[v] = "splitWrite" /\ who[v] \in Tiers /\ level[v] \in Levels
          /\ who'[v] = who[v] /\ level'[v] = level[v] /\ amount'[v] = amount[v]
      BY <2>3, <2>4
    <3>2. split[<<who[v], level[v]>>] # "none" /\ amount[v] = share[<<who[v], level[v]>>]
      BY <2>4, <3>1
    <3> HIDE DEF CommissionInv, TypeOK, FirstRowsStand
    <3>3. split'[<<who[v], level[v]>>] # "none"
      BY <2>1, <3>1, <3>2
    <3>4. QED
      BY <3>1, <3>2, <3>3
  <2>5. QED
    BY <2>1, <2>2, <2>4
<1>18. ASSUME NEW w \in Workers, NEW v \in Users, NEW n \in Transfers, TransferRead(w, v, n)
       PROVE  FirstRowsStand'
  BY <1>18 DEF TransferRead, Covers, At, orderVars, logVars, splitVars, money
<1>19. ASSUME NEW w \in Workers, TransferWrite(w)
       PROVE  FirstRowsStand'
  BY <1>19 DEF TransferWrite, Finish, At, orderVars, logVars, splitVars
<1>20. ASSUME NEW w \in Workers, Rollback(w)
       PROVE  FirstRowsStand'
  BY <1>20 DEF Rollback, Fault, Finish, orderVars, logVars, splitVars, money
<1>21. CASE UNCHANGED vars
  BY <1>21 DEF vars, orderVars, logVars, splitVars, money, worker
<1>22. QED
  BY <1>1, <1>2, <1>3, <1>4, <1>5, <1>6, <1>7, <1>8, <1>9, <1>10, <1>11, <1>12, <1>13, <1>14, <1>15, <1>16, <1>17, <1>18, <1>19, <1>20, <1>21
     DEF Next, Fulfillment, JobStep, Transaction

(* The log and what was paid for it.                                       *)
LEMMA LogStep ==
  ASSUME CommissionInv, [Next]_vars
  PROVE  LogTellsPaid'
<1> USE CommissionAssumption DEF CommissionInv, TypeOK, LogTellsPaid, LogStatuses
<1>1. CASE UpsertSplit
  BY <1>1 DEF UpsertSplit, Fail, Fault, NoFault, logVars, money, worker
<1>2. CASE SplitsRecorded
  BY <1>2 DEF SplitsRecorded, logVars, splitVars, money, worker
<1>3. CASE RecordPendingCommission
  BY <1>3 DEF RecordPendingCommission, CreatePending, Fail, Fault, NoFault, splitVars, money, worker
<1>4. CASE MarkCompleted
  BY <1>4 DEF MarkCompleted, Fail, Fault, NoFault, logVars, splitVars, money, worker
<1>5. CASE CrashFulfillment
  BY <1>5 DEF CrashFulfillment, Fault, logVars, splitVars, money, worker
<1>6. CASE RetryFulfillment
  BY <1>6 DEF RetryFulfillment, logVars, splitVars, money, worker
<1>7. CASE RefundOrder
  BY <1>7 DEF RefundOrder, logVars, splitVars, money, worker
<1>8. CASE JobConditions
  BY <1>8 DEF JobConditions, FreezeEnds, SetAutoSettlement, OlderDecided, orderVars, splitVars, money, worker
<1>9. CASE RunOnce
  BY <1>9 DEF RunOnce, Goto, At, orderVars, logVars, splitVars, money
<1>10. CASE ProcessOne
  BY <1>10 DEF ProcessOne, Goto, Finish, At, orderVars, logVars, splitVars, money
<1>11. CASE ReadOrder
  BY <1>11 DEF ReadOrder, Decision, Goto, Finish, At, orderVars, logVars, splitVars, money
<1>12. CASE ClawbackRead
  BY <1>12 DEF ClawbackRead, Finish, At, orderVars, logVars, splitVars, money
<1>13. CASE ClawbackWrite
  <2>1. ~overtaken' => ~overtaken /\ log = seen[Job]
    BY <1>13 DEF ClawbackWrite
  <2>2. seen[Job] \in {"pending", "settled"}
    BY <1>13 DEF ClawbackWrite, At, WorkersKnow, Workers
  <2>3. CASE seen[Job] = "pending"
    BY <1>13, <2>1, <2>3 DEF ClawbackWrite, ClawbackEffect
  <2>4. CASE seen[Job] = "settled"
    BY <1>13, <2>1, <2>4 DEF ClawbackWrite, ClawbackEffect
  <2>5. QED
    BY <2>2, <2>3, <2>4
<1>14. ASSUME NEW w \in Workers, SettleRead(w)
       PROVE  LogTellsPaid'
  BY <1>14 DEF SettleRead, Goto, Finish, At, orderVars, logVars, splitVars, money
<1>15. ASSUME NEW w \in Workers, SettleWrite(w)
       PROVE  LogTellsPaid'
  <2>1. ~overtaken' => ~overtaken /\ log = "pending"
    BY <1>15 DEF SettleWrite
  <2>2. log' = "settled" /\ paid' = paid + 1 /\ clawed' = clawed
    BY <1>15 DEF SettleWrite
  <2>3. QED
    BY <2>1, <2>2
<1>16. ASSUME NEW w \in Workers, NEW t \in Tiers, NEW l \in Levels, SplitRead(w, t, l)
       PROVE  LogTellsPaid'
  BY <1>16 DEF SplitRead, At, orderVars, logVars, splitVars, money
<1>17. ASSUME NEW w \in Workers, SplitWrite(w)
       PROVE  LogTellsPaid'
  BY <1>17 DEF SplitWrite, SplitIsPending, AddCommission, Finish, At, orderVars, logVars, splitVars
<1>18. ASSUME NEW w \in Workers, NEW v \in Users, NEW n \in Transfers, TransferRead(w, v, n)
       PROVE  LogTellsPaid'
  BY <1>18 DEF TransferRead, Covers, At, orderVars, logVars, splitVars, money
<1>19. ASSUME NEW w \in Workers, TransferWrite(w)
       PROVE  LogTellsPaid'
  BY <1>19 DEF TransferWrite, Finish, At, orderVars, logVars, splitVars
<1>20. ASSUME NEW w \in Workers, Rollback(w)
       PROVE  LogTellsPaid'
  BY <1>20 DEF Rollback, Fault, Finish, orderVars, logVars, splitVars, money
<1>21. CASE UNCHANGED vars
  BY <1>21 DEF vars, orderVars, logVars, splitVars, money, worker
<1>22. QED
  BY <1>1, <1>2, <1>3, <1>4, <1>5, <1>6, <1>7, <1>8, <1>9, <1>10, <1>11, <1>12, <1>13, <1>14, <1>15, <1>16, <1>17, <1>18, <1>19, <1>20, <1>21
     DEF Next, Fulfillment, JobStep, Transaction

(* The balances.  A user's share changes with what he is paid.             *)
LEMMA ShareType ==
  ASSUME TypeOK, NEW u \in Users
  PROVE  SettledShare(u) \in Int /\ commission[u] \in Int /\ transferred[u] \in Int
<1>1. u \in Tiers => share[Row(rates, u)] \in Int
  BY RowType DEF TypeOK
<1>2. QED
  BY <1>1, CommissionAssumption DEF TypeOK, SettledShare

(* A settlement changes log and balance together, and so do clawback and   *)
(* transfer: BalanceReconciles is kept unless a write overtook a check.    *)
LEMMA BalanceStep ==
  ASSUME CommissionInv, [Next]_vars
  PROVE  BalanceReconciles'
<1> USE CommissionAssumption DEF CommissionInv, TypeOK
<1> SUFFICES ASSUME ~overtaken', attempts' = 1, NEW u \in Users
             PROVE  commission'[u] = SettledShare(u)' - transferred'[u]
  BY DEF BalanceReconciles
<1>1. ASSUME /\ ~overtaken /\ attempts = 1
             /\ UNCHANGED <<rates, commission, transferred>>
             /\ log' = "settled" <=> log = "settled"
             /\ u \in Tiers => (split'[Row(rates, u)] = "settled" <=> split[Row(rates, u)] = "settled")
             /\ u \in Tiers /\ split[Row(rates, u)] = "settled" =>
                   share'[Row(rates, u)] = share[Row(rates, u)]
      PROVE  commission'[u] = SettledShare(u)' - transferred'[u]
  BY <1>1 DEF BalanceReconciles, SettledShare
<1>2. CASE UpsertSplit
  <2>1. /\ \A k \in Rows : split'[k] = "settled" <=> split[k] = "settled"
        /\ \A k \in Rows : split[k] = "settled" => share'[k] = share[k]
    <3>1. CASE UNCHANGED <<split, share>>
      BY <3>1
    <3>2. CASE /\ split' = [split EXCEPT ![Row(rates, Min(todo))] = "pending"]
               /\ share' = [share EXCEPT ![Row(rates, Min(todo))] = CommissionAmount(rates, Min(todo))]
      <4>1. Min(todo) \in todo /\ Min(todo) \in Tiers /\ attempts = 1
        BY <1>2, NextTier DEF UpsertSplit, Fail
      <4>2. split[Row(rates, Min(todo))] = "none"
        <5>1. Row(rates, Min(todo)) = <<Min(todo), Level(rates, Min(todo))>>
          BY <4>1, RowType
        <5>2. split[<<Min(todo), Level(rates, Min(todo))>>] = "none"
          BY <4>1, RowType, TodoIsUnwritten
        <5>3. QED
          BY <5>1, <5>2
      <4>3. QED
        BY <3>2, <4>2
    <3>3. QED
      BY <1>2, <3>1, <3>2 DEF UpsertSplit
  <2>2. u \in Tiers => Row(rates, u) \in Rows
    BY RowType
  <2>3. QED
    BY <1>1, <1>2, <2>1, <2>2 DEF UpsertSplit, Fail, logVars, money
<1>3. CASE SplitsRecorded
  BY <1>1, <1>3 DEF SplitsRecorded, logVars, splitVars, money, worker
<1>4. CASE RecordPendingCommission
  BY <1>1, <1>4 DEF RecordPendingCommission, CreatePending, Fail, Fault, NoFault, splitVars, money, worker
<1>5. CASE MarkCompleted
  BY <1>1, <1>5 DEF MarkCompleted, Fail, Fault, NoFault, logVars, splitVars, money, worker
<1>6. CASE CrashFulfillment
  BY <1>1, <1>6 DEF CrashFulfillment, Fault, logVars, splitVars, money, worker
<1>7. CASE RetryFulfillment
  BY <1>7 DEF RetryFulfillment, SplitsAccounted
<1>8. CASE RefundOrder
  BY <1>1, <1>8 DEF RefundOrder, logVars, splitVars, money, worker
<1>9. CASE JobConditions
  BY <1>1, <1>9 DEF JobConditions, FreezeEnds, SetAutoSettlement, OlderDecided, orderVars, splitVars, money, worker
<1>10. CASE RunOnce
  BY <1>1, <1>10 DEF RunOnce, Goto, At, orderVars, logVars, splitVars, money
<1>11. CASE ProcessOne
  BY <1>1, <1>11 DEF ProcessOne, Goto, Finish, At, orderVars, logVars, splitVars, money
<1>12. CASE ReadOrder
  BY <1>1, <1>12 DEF ReadOrder, Decision, Goto, Finish, At, orderVars, logVars, splitVars, money
<1>13. CASE ClawbackRead
  BY <1>1, <1>13 DEF ClawbackRead, Finish, At, orderVars, logVars, splitVars, money
<1>14. CASE ClawbackWrite
  <2>1. ~overtaken /\ log = seen[Job] /\ attempts = 1
    BY <1>14 DEF ClawbackWrite, orderVars
  <2>2. CASE seen[Job] = "pending"
    BY <1>1, <1>14, <2>1, <2>2 DEF ClawbackWrite, ClawbackEffect, money, orderVars, splitVars
  <2>3. CASE seen[Job] # "pending"
    <3>1. log = "settled" /\ log' = "reversed"
      BY <1>14, <2>1, <2>3 DEF ClawbackWrite, ClawbackEffect, At, WorkersKnow, Workers
    <3>2. commission' = [commission EXCEPT ![Inviter] = @ - LogAmount] /\ transferred' = transferred
      BY <1>14, <2>3 DEF ClawbackWrite, ClawbackEffect, AddCommission
    <3>3. UNCHANGED <<rates, split, share>>
      BY <1>14 DEF ClawbackWrite, orderVars, splitVars
    <3>4. commission[u] = SettledShare(u) - transferred[u]
      BY <2>1 DEF BalanceReconciles
    <3>5. SettledShare(u)' = IF u = Inviter THEN SettledShare(u) - LogAmount ELSE SettledShare(u)
      BY <3>1, <3>3, ShareType, RowType DEF SettledShare
    <3>6. QED
      BY <3>2, <3>4, <3>5, ShareType
  <2>4. QED
    BY <2>2, <2>3
<1>15. ASSUME NEW w \in Workers, SettleRead(w)
       PROVE  commission'[u] = SettledShare(u)' - transferred'[u]
  BY <1>1, <1>15 DEF SettleRead, Goto, Finish, At, orderVars, logVars, splitVars, money
<1>16. ASSUME NEW w \in Workers, SettleWrite(w)
       PROVE  commission'[u] = SettledShare(u)' - transferred'[u]
  <2>1. ~overtaken /\ log = "pending" /\ attempts = 1
    BY <1>16 DEF SettleWrite, orderVars
  <2>2. log' = "settled" /\ UNCHANGED <<rates, split, share>>
    BY <1>16 DEF SettleWrite, orderVars, splitVars
  <2>3. commission' = [commission EXCEPT ![Inviter] = @ + LogAmount] /\ transferred' = transferred
    BY <1>16 DEF SettleWrite, AddCommission
  <2>4. commission[u] = SettledShare(u) - transferred[u]
    BY <2>1 DEF BalanceReconciles
  <2>5. SettledShare(u)' = IF u = Inviter THEN SettledShare(u) + LogAmount ELSE SettledShare(u)
    BY <2>1, <2>2, ShareType, RowType DEF SettledShare
  <2>6. QED
    BY <2>3, <2>4, <2>5, ShareType
<1>17. ASSUME NEW w \in Workers, NEW t \in Tiers, NEW l \in Levels, SplitRead(w, t, l)
       PROVE  commission'[u] = SettledShare(u)' - transferred'[u]
  BY <1>1, <1>17 DEF SplitRead, At, orderVars, logVars, splitVars, money
<1>18. ASSUME NEW w \in Workers, SplitWrite(w)
       PROVE  commission'[u] = SettledShare(u)' - transferred'[u]
  <2> DEFINE t == who[w]
             n == amount[w]
             k == <<t, level[w]>>
  <2>0. t \in Tiers /\ level[w] \in Levels /\ attempts = 1 /\ UNCHANGED <<rates, log, overtaken>>
    BY <1>18 DEF SplitWrite, At, WorkersKnow, orderVars, logVars
  <2>1. k = Row(rates, t) /\ k \in Rows /\ n = share[k]
    <3>1. split[k] # "none" /\ n = share[k]
      BY <1>18, <2>0 DEF SplitWrite, At, FirstRowsStand
    <3>2. level[w] = Level(rates, t)
      BY <2>0, <3>1 DEF FirstRowsStand
    <3>3. Row(rates, t) = <<t, Level(rates, t)>> /\ Row(rates, t) \in Rows
      BY <2>0, RowType
    <3>4. QED
      BY <3>1, <3>2, <3>3
  <2>2. CASE ~SplitIsPending(k)
    BY <1>1, <1>18, <2>0, <2>2 DEF SplitWrite, splitVars, money
  <2>3. CASE SplitIsPending(k)
    <3>1. split[k] = "pending" /\ split' = [split EXCEPT ![k] = "settled"] /\ share' = share
      BY <1>18, <2>3 DEF SplitWrite, SplitIsPending
    <3>2. commission' = [commission EXCEPT ![t] = @ + n] /\ transferred' = transferred
      BY <1>18, <2>3 DEF SplitWrite, AddCommission
    <3>3. commission[u] = SettledShare(u) - transferred[u]
      BY <2>0 DEF BalanceReconciles
    <3>4. n \in Int
      OBVIOUS
    <3>5. \A v \in Tiers : Row(rates, v) \in Rows /\ (v # t => Row(rates, v) # k)
      <4>1. \A v \in Tiers : Row(rates, v) \in Rows
        BY RowType
      <4>2. \A v \in Tiers : v # t => Row(rates, v) # k
        BY <2>0, <2>1, RowsApart
      <4>3. QED
        BY <4>1, <4>2
    <3> HIDE DEF k, n, t
    <3>6. SettledShare(u)' = IF u = t THEN SettledShare(u) + n ELSE SettledShare(u)
      <4>1. CASE u = t
        BY <2>0, <2>1, <3>1, <3>4, <4>1 DEF SettledShare
      <4>2. CASE u # t
        BY <2>0, <3>1, <3>5, <4>2 DEF SettledShare
      <4>3. QED
        BY <4>1, <4>2
    <3>7. QED
      BY <3>2, <3>3, <3>4, <3>6, ShareType
  <2>4. QED
    BY <2>2, <2>3
<1>19. ASSUME NEW w \in Workers, NEW v \in Users, NEW n \in Transfers, TransferRead(w, v, n)
       PROVE  commission'[u] = SettledShare(u)' - transferred'[u]
  BY <1>1, <1>19 DEF TransferRead, Covers, At, orderVars, logVars, splitVars, money
<1>20. ASSUME NEW w \in Workers, TransferWrite(w)
       PROVE  commission'[u] = SettledShare(u)' - transferred'[u]
  <2>1. who[w] \in Users /\ amount[w] \in Int
    BY <1>20 DEF TransferWrite, At, WorkersKnow
  <2>2. SettledShare(u)' = SettledShare(u) /\ commission[u] = SettledShare(u) - transferred[u]
    BY <1>20 DEF TransferWrite, orderVars, logVars, splitVars, SettledShare, BalanceReconciles
  <2>3. QED
    BY <1>20, <2>1, <2>2, ShareType DEF TransferWrite
<1>21. ASSUME NEW w \in Workers, Rollback(w)
       PROVE  commission'[u] = SettledShare(u)' - transferred'[u]
  BY <1>1, <1>21 DEF Rollback, Fault, Finish, orderVars, logVars, splitVars, money
<1>22. CASE UNCHANGED vars
  BY <1>1, <1>22 DEF vars, orderVars, logVars, splitVars, money, worker
<1>23. QED
  BY <1>2, <1>3, <1>4, <1>5, <1>6, <1>7, <1>8, <1>9, <1>10, <1>11, <1>12, <1>13, <1>14, <1>15, <1>16, <1>17, <1>18, <1>19, <1>20, <1>21, <1>22
     DEF Next, Fulfillment, JobStep, Transaction

-----------------------------------------------------------------------------
(* The theorems                                                            *)

(* Before the first write all tables are empty.                            *)
LEMMA CommissionInit == Init => CommissionInv
<1> SUFFICES ASSUME Init
             PROVE  CommissionInv
  OBVIOUS
<1> USE CommissionAssumption DEF Init
<1>1. TypeOK
  <2>1. /\ rates \in Rules /\ order \in OrderStatuses /\ attempts \in Nat
        /\ step \in {"splits", "log", "complete", "ended"} /\ todo \subseteq Tiers
    BY DEF Plans, OrderStatuses
  <2>2. /\ log \in LogStatuses /\ frozen \in BOOLEAN /\ overtaken \in BOOLEAN
        /\ paid \in Nat /\ clawed \in Nat /\ switch \in {"on", "off"}
    BY DEF LogStatuses
  <2>0. ahead \in Nat
    OBVIOUS
  <2>3. /\ split \in [Rows -> {"none", "pending", "settled"}] /\ share \in [Rows -> Nat]
        /\ splitPaid \in [Tiers -> Nat]
        /\ commission \in [Users -> Int] /\ transferred \in [Users -> Nat]
    OBVIOUS
  <2>4. /\ pc \in [Workers -> Labels] /\ seen \in [Workers -> LogStatuses]
        /\ who \in [Workers -> Users \cup {0}] /\ amount \in [Workers -> Nat]
        /\ level \in [Workers -> Nat]
    BY DEF LogStatuses, Labels
  <2>5. faults \in 0 .. MaxFaults
    OBVIOUS
  <2>6. QED
    BY <2>0, <2>1, <2>2, <2>3, <2>4, <2>5 DEF TypeOK
<1>2. TodoWhileSplitting /\ WorkersKnow /\ JobFollowsOrder
  BY DEF TodoWhileSplitting, WorkersKnow, JobFollowsOrder, Workers
<1>3. SplitsAccounted /\ SplitsFollowPlan /\ FirstRowsStand
  <2>1. \A t \in Tiers, l \in Levels : split[<<t, l>>] = "none"
    BY DEF Rows
  <2>2. \A t \in Tiers : Cardinality(PendingLevels(split, t)) = 0
    <3>1. \A t \in Tiers : PendingLevels(split, t) = {}
      BY <2>1 DEF PendingLevels
    <3>2. QED
      BY <3>1, FS_EmptySet
  <2>3. SplitsAccounted
    BY <2>1, <2>2 DEF SplitsAccounted, One
  <2>4. QED
    BY <2>1, <2>3 DEF SplitsFollowPlan, FirstRowsStand
<1>4. LogTellsPaid /\ BalanceReconciles
  <2>1. \A t \in Tiers : split[Row(rates, t)] = "none"
    BY RowType
  <2>2. \A u \in Users : SettledShare(u) = 0 /\ commission[u] = 0 /\ transferred[u] = 0
    <3>1. \A u \in Users : SettledShare(u) = 0 + 0
      <4> HIDE DEF Init
      <4>1. log = "none"
        BY DEF Init
      <4>2. QED
        BY <2>1, <4>1 DEF SettledShare
    <3>2. QED
      BY <3>1
  <2>3. QED
    BY <2>2 DEF LogTellsPaid, BalanceReconciles
<1>5. QED
  BY <1>1, <1>2, <1>3, <1>4 DEF CommissionInv

(* CommissionInv is an invariant of every instance of the specification.   *)
THEOREM CommissionInvariance == Spec => []CommissionInv
<1>1. CommissionInv /\ [Next]_vars => CommissionInv'
  BY TypeStep, ShapeStep, KnowStep, AccountStep, PlanStep, FirstStep, LogStep, BalanceStep
     DEF CommissionInv
<1>2. QED
  BY <1>1, CommissionInit, PTL DEF Spec

(* The tables and the transactions keep their types.                       *)
THEOREM CommissionTypeCorrect == Spec => []TypeOK
<1>1. CommissionInv => TypeOK
  BY DEF CommissionInv
<1>2. QED
  BY <1>1, CommissionInvariance, PTL

(* No split is paid more often than the fulfilment was attempted, however  *)
(* many settlements of it run at a time.                                   *)
THEOREM SplitsArePaidOnce == Spec => []SplitPaidOncePerAttempt
<1>1. CommissionInv => SplitPaidOncePerAttempt
  <2> SUFFICES ASSUME CommissionInv, NEW t \in Tiers
               PROVE  splitPaid[t] <= attempts
    BY DEF SplitPaidOncePerAttempt
  <2>1. splitPaid[t] \in Nat /\ attempts \in Nat
    BY DEF CommissionInv, TypeOK
  <2>2. splitPaid[t] + Cardinality(PendingLevels(split, t)) + One(t \in todo) <= attempts
    BY DEF CommissionInv, SplitsAccounted
  <2>3. QED
    BY <2>1, <2>2, PendingType DEF One
<1>2. QED
  BY <1>1, CommissionInvariance, PTL

(* The log tells what the inviter was paid unless a write overtook the     *)
(* check of another transaction.                                           *)
THEOREM LogIsTrue == Spec => []LogTellsPaid
<1>1. CommissionInv => LogTellsPaid
  BY DEF CommissionInv
<1>2. QED
  BY <1>1, CommissionInvariance, PTL

(* Every commission balance is what the user's settled logs and transfers  *)
(* come to, under the same proviso and as long as nothing was retried.     *)
THEOREM BalancesReconcile == Spec => []BalanceReconciles
<1>1. CommissionInv => BalanceReconciles
  BY DEF CommissionInv
<1>2. QED
  BY <1>1, CommissionInvariance, PTL

(* The job pays only for an order that it found completed and that has not *)
(* gone back to its fulfilment since.                                      *)
THEOREM JobPaysForCompletedOrders == Spec => JobPaysCompleted
<1>1. CommissionInv /\ [Next]_vars
        => [At(Job, "settleWrite") /\ paid' > paid /\ pc'[Job] # pc[Job]
              => order \notin {"RECHARGING", "FAILED"}]_vars
  BY DEF CommissionInv, JobFollowsOrder, At
<1>2. QED
  BY <1>1, CommissionInvariance, PTL DEF Spec, JobPaysCompleted

-----------------------------------------------------------------------------
(* The splits of a completed order                                         *)

(* The share of the order that tier t is paid: from the highest rate below *)
(* it, by its amount.                                                      *)
Pays(t, k) ==
    /\ LowerTierRate(rates, t) < k
    /\ k <= LowerTierRate(rates, t) + CommissionAmount(rates, t)

Top == Max({rates[t] : t \in Tiers} \cup {0})

(* The tier has its row of the rule, with an amount in it.                 *)
Written(t) == t \in Plans(rates) /\ split[Row(rates, t)] # "none"

(* Each unit of the highest rate, and none above it, is in the share of    *)
(* one split log of the rule and of one only, whose amount is that share.  *)
SplitsTileTopRate ==
    DiffMode /\ order = "COMPLETED" =>
        /\ \A t \in Plans(rates) : share[Row(rates, t)] = CommissionAmount(rates, t)
        /\ \A k \in Nat \ {0} :
              /\ k <= Top <=> \E t \in Tiers : Written(t) /\ Pays(t, k)
              /\ \A s, t \in Tiers :
                    Written(s) /\ Written(t) /\ Pays(s, k) /\ Pays(t, k) => s = t

(* A tier is paid what its rate has above the rates of the lower tiers.    *)
LEMMA Shares ==
  ASSUME TypeOK, DiffMode, NEW t \in Tiers, NEW k \in Nat
  PROVE  /\ Pays(t, k) <=> LowerTierRate(rates, t) < k /\ k <= rates[t]
         /\ \A s \in Tiers : s < t => rates[s] <= LowerTierRate(rates, t)
         /\ LowerTierRate(rates, t) = 0
               \/ \E s \in Tiers : s < t /\ LowerTierRate(rates, t) = rates[s]
<1> DEFINE D == {u \in Tiers : u < t}
           L == LowerTierRate(rates, t)
<1>1. rates \in [Tiers -> Nat]
  BY CommissionAssumption DEF TypeOK
<1>2. L = Max({rates[s] : s \in D} \cup {0})
  BY DEF LowerTierRate
<1>3. IsFiniteSet(D)
  BY CommissionAssumption, FS_Subset
<1>4. \A s \in D : rates[s] \in Nat
  BY <1>1
<1>5. /\ L \in {rates[s] : s \in D} \cup {0}
      /\ \A y \in {rates[s] : s \in D} \cup {0} : y <= L
  <2> HIDE DEF D, L
  <2>1. QED
    BY <1>2, <1>3, <1>4, MaxRate
<1>6. L \in Nat /\ rates[t] \in Nat
  BY <1>1, AmountType
<1>7. CommissionAmount(rates, t) = Max({rates[t] - L, 0})
  BY DEF CommissionAmount
<1>8. Max({rates[t] - L, 0}) = IF rates[t] > L THEN rates[t] - L ELSE 0
  <2> DEFINE n == rates[t] - L
  <2>1. n \in Int
    BY <1>6
  <2> HIDE DEF n
  <2>2. \E x \in {n, 0} : \A y \in {n, 0} : x >= y
    BY <2>1
  <2>3. Max({n, 0}) \in {n, 0} /\ Max({n, 0}) >= 0 /\ Max({n, 0}) >= n
    BY <2>2 DEF Max
  <2>4. Max({n, 0}) = IF n > 0 THEN n ELSE 0
    BY <2>1, <2>3
  <2>5. n > 0 <=> rates[t] > L
    BY <1>6 DEF n
  <2>6. QED
    BY <2>4, <2>5 DEF n
<1>9. Pays(t, k) <=> L < k /\ k <= rates[t]
  <2> HIDE DEF L
  <2>1. Pays(t, k) <=> L < k /\ k <= L + (IF rates[t] > L THEN rates[t] - L ELSE 0)
    BY <1>7, <1>8 DEF Pays, L
  <2>2. QED
    BY <1>6, <2>1
<1>10. QED
  BY <1>5, <1>9

(* The shares of the tiers are those of the highest rate, and do not       *)
(* overlap: unit k is in that of the lowest tier whose rate reaches k.     *)
LEMMA Tiling ==
  ASSUME TypeOK, DiffMode, NEW k \in Nat \ {0}
  PROVE  /\ k <= Top <=> \E t \in Tiers : Pays(t, k)
         /\ \A s, t \in Tiers : Pays(s, k) /\ Pays(t, k) => s = t
<1>1. rates \in [Tiers -> Nat]
  BY CommissionAssumption DEF TypeOK
<1>2. /\ IsFiniteSet(Tiers) /\ Tiers \subseteq Nat
      /\ \A t \in Tiers : rates[t] \in Nat /\ LowerTierRate(rates, t) \in Nat
  BY <1>1, AmountType, CommissionAssumption
<1>3. Top \in {rates[s] : s \in Tiers} \cup {0} /\ \A s \in Tiers : rates[s] <= Top
  BY <1>2, MaxRate DEF Top
<1>4. ASSUME k <= Top
      PROVE  \E t \in Tiers : Pays(t, k)
  <2> DEFINE High == {u \in Tiers : k <= rates[u]}
  <2>1. High # {}
    BY <1>2, <1>3, <1>4
  <2>2. IsFiniteSet(High) /\ \A x \in High : x \in Int
    BY <1>2, FS_Subset
  <2>3. Min(High) \in High /\ \A y \in High : Min(High) <= y
    <3> HIDE DEF High
    <3>1. QED
      BY <2>1, <2>2, MinOf
  <2>4. PICK t \in High : \A y \in High : t <= y
    BY <2>3
  <2>5. LowerTierRate(rates, t) < k
    <3>1. \A s \in Tiers : s < t => rates[s] < k
      BY <1>2, <2>4
    <3>2. QED
      BY <1>2, <3>1, Shares
  <2>6. QED
    BY <2>4, <2>5, Shares
<1>5. ASSUME NEW t \in Tiers, Pays(t, k)
      PROVE  k <= Top
  BY <1>2, <1>3, <1>5, Shares
<1>6. ASSUME NEW s \in Tiers, NEW t \in Tiers, Pays(s, k), Pays(t, k)
      PROVE  ~(s < t)
  BY <1>2, <1>6, Shares
<1>7. \A s, t \in Tiers : Pays(s, k) /\ Pays(t, k) => s = t
  BY <1>2, <1>6
<1>8. QED
  BY <1>4, <1>5, <1>7

(* After completion every tier with a share has its split log, with that   *)
(* share in it.                                                            *)
LEMMA SharesAreSplit ==
  ASSUME CommissionInv, order = "COMPLETED"
  PROVE  /\ \A t \in Tiers : Written(t) <=> CommissionAmount(rates, t) > 0
         /\ \A t \in Plans(rates) : share[Row(rates, t)] = CommissionAmount(rates, t)
<1>1. \A t \in Plans(rates) : /\ split[Row(rates, t)] # "none"
                              /\ share[Row(rates, t)] = CommissionAmount(rates, t)
  BY DEF CommissionInv, SplitsFollowPlan, TodoWhileSplitting
<1>2. QED
  BY <1>1 DEF Plans, Written

(* Only a tier with a share is paid a unit.                                *)
LEMMA PaidHasShare ==
  ASSUME TypeOK, NEW t \in Tiers, NEW k \in Nat, Pays(t, k)
  PROVE  CommissionAmount(rates, t) > 0
<1>1. LowerTierRate(rates, t) \in Nat /\ CommissionAmount(rates, t) \in Nat
  <2>1. rates \in [Tiers -> Nat] /\ t \in Tiers
    BY CommissionAssumption DEF TypeOK
  <2>2. QED
    BY <2>1, AmountType
<1>2. QED
  BY <1>1 DEF Pays

(* buildCommissionSplitPlans and its upserts: the split logs of the rule   *)
(* that an order was completed under divide the highest target rate among  *)
(* the buyer's tiers, without a gap, without paying twice for a part, and  *)
(* without going beyond it, for any tiers and rates and after any number   *)
(* of partly written attempts under other rules.                           *)
THEOREM SplitsDivideTopRate == Spec => []SplitsTileTopRate
<1>1. ASSUME CommissionInv, DiffMode, order = "COMPLETED", NEW k \in Nat \ {0}
      PROVE  /\ k <= Top <=> \E t \in Tiers : Written(t) /\ Pays(t, k)
             /\ \A s, t \in Tiers : Pays(s, k) /\ Pays(t, k) => s = t
  <2>1. TypeOK
    BY <1>1 DEF CommissionInv
  <2>2. \A t \in Tiers : Pays(t, k) => Written(t)
    BY <1>1, <2>1, PaidHasShare, SharesAreSplit
  <2>3. QED
    BY <1>1, <2>1, <2>2, Tiling
<1>2. CommissionInv => SplitsTileTopRate
  BY <1>1, SharesAreSplit DEF SplitsTileTopRate
<1>3. QED
  BY <1>2, CommissionInvariance, PTL

-----------------------------------------------------------------------------
(* The sum of the splits                                                   *)

(* The units of the highest rate that a set of tiers is paid.              *)
Units(S) == {k \in 1 .. Top : \E t \in S : Pays(t, k)}

(* A tier is paid as many units as its amount says, and tiers are paid     *)
(* different ones.                                                         *)
LEMMA UnitsAdd ==
  ASSUME TypeOK, DiffMode, NEW S \in SUBSET Tiers, NEW t \in S
  PROVE  Cardinality(Units(S)) = CommissionAmount(rates, t) + Cardinality(Units(S \ {t}))
<1> DEFINE L == LowerTierRate(rates, t)
           A == CommissionAmount(rates, t)
<1>1. L \in Nat /\ A \in Nat
  <2>1. rates \in [Tiers -> Nat] /\ t \in Tiers
    BY CommissionAssumption DEF TypeOK
  <2>2. QED
    BY <2>1, AmountType
<1>2. Top \in Nat
  <2>1. IsFiniteSet(Tiers) /\ \A s \in Tiers : rates[s] \in Nat
    BY CommissionAssumption DEF TypeOK
  <2>2. QED
    BY <2>1, MaxRate DEF Top
<1>3. \A T : IsFiniteSet(Units(T)) /\ Cardinality(Units(T)) \in Nat
  <2>1. IsFiniteSet(1 .. Top)
    BY <1>2, FS_Interval
  <2>2. \A T : Units(T) \in SUBSET (1 .. Top)
    BY DEF Units
  <2>3. QED
    BY <2>1, <2>2, FS_Subset, FS_CardinalityType
<1>4. Units({t}) = (L + 1) .. (L + A)
  <2>1. ASSUME NEW k \in Nat, Pays(t, k)
        PROVE  k \in 1 .. Top
    <3>1. k # 0
      BY <1>1, <2>1 DEF Pays
    <3>2. QED
      BY <1>2, <2>1, <3>1, Tiling
  <2>2. \A k \in Nat : Pays(t, k) <=> k \in (L + 1) .. (L + A)
    BY <1>1 DEF Pays
  <2>3. \A k \in Units({t}) : k \in (L + 1) .. (L + A)
    BY <1>2, <2>2 DEF Units
  <2>4. \A k \in (L + 1) .. (L + A) : k \in Units({t})
    BY <1>1, <2>1, <2>2 DEF Units
  <2>5. QED
    BY <2>3, <2>4
<1>5. Cardinality(Units({t})) = A
  BY <1>1, <1>4, FS_Interval
<1>6. Units(S) = Units({t}) \cup Units(S \ {t})
  BY DEF Units
<1>7. Units({t}) \cap Units(S \ {t}) = {}
  <2>1. \A k \in 1 .. Top : k \in Nat \ {0}
    BY <1>2
  <2>2. QED
    BY <2>1, Tiling DEF Units
<1>8. Cardinality(Units(S)) = Cardinality(Units({t})) + Cardinality(Units(S \ {t}))
  <2> DEFINE X == Units({t})
             Y == Units(S \ {t})
  <2>1. /\ IsFiniteSet(X) /\ IsFiniteSet(Y) /\ X \cap Y = {}
        /\ Cardinality(X) \in Nat /\ Cardinality(Y) \in Nat
    BY <1>3, <1>7
  <2> HIDE DEF X, Y
  <2>2. Cardinality(X \cup Y) = Cardinality(X) + Cardinality(Y) - Cardinality(X \cap Y)
    BY <2>1, FS_Union
  <2>3. Cardinality(X \cup Y) = Cardinality(X) + Cardinality(Y)
    BY <2>1, <2>2, FS_EmptySet
  <2>4. QED
    BY <1>6, <2>3 DEF X, Y
<1>9. QED
  BY <1>5, <1>8

(* What a set of tiers is paid together.                                   *)
Paid(S) == MapThenSumSet(LAMBDA t : share[Row(rates, t)], S)

(* The sum is the number of units: both start from nothing and grow by a   *)
(* tier's amount, whichever tier the sum takes next.                       *)
LEMMA SumOfShares ==
  ASSUME TypeOK, DiffMode, NEW S \in SUBSET Tiers,
         \A t \in S : share[Row(rates, t)] = CommissionAmount(rates, t)
  PROVE  Paid(S) = Cardinality(Units(S))
<1> DEFINE Chosen(s) == CHOOSE x \in s : TRUE
           Body(g) == [s \in SUBSET S |->
                         IF s = {} THEN 0
                         ELSE share[Row(rates, Chosen(s))] + g[s \ {Chosen(s)}]]
           h == [s \in SUBSET S |-> Cardinality(Units(s))]
           iter == CHOOSE g : g = Body(g)
           F == {s \in SUBSET S : iter[s] # h[s]}
<1>1. Paid(S) = iter[S]
  BY DEF Paid, MapThenSumSet, MapThenFoldSet
<1>2. \A s \in SUBSET S : s # {} => Chosen(s) \in s
  OBVIOUS
<1>3. h = Body(h)
  <2>1. ASSUME NEW s \in SUBSET S
        PROVE  h[s] = Body(h)[s]
    <3>1. CASE s = {}
      <4>1. Units({}) = {}
        BY DEF Units
      <4>2. QED
        BY <3>1, <4>1, FS_EmptySet
    <3>2. CASE s # {}
      <4>1. Chosen(s) \in s /\ s \in SUBSET Tiers /\ s \ {Chosen(s)} \in SUBSET S
        BY <1>2, <3>2
      <4> HIDE DEF Chosen
      <4>2. Cardinality(Units(s))
              = share[Row(rates, Chosen(s))] + Cardinality(Units(s \ {Chosen(s)}))
        BY <4>1, UnitsAdd
      <4>3. QED
        BY <3>2, <4>1, <4>2
    <3>3. QED
      BY <3>1, <3>2
  <2>2. QED
    BY <2>1
<1>4. iter = Body(iter)
  <2> HIDE DEF Body, h
  <2>1. QED
    BY <1>3
<1> HIDE DEF iter
<1>5. F = {}
  <2>1. SUFFICES ASSUME F # {}
                 PROVE  FALSE
    OBVIOUS
  <2>2. IsFiniteSet(S)
    BY CommissionAssumption, FS_Subset
  <2>3. PICK s \in F : \A u \in F : u \subseteq s => u = s
    <3>1. F \subseteq SUBSET S
      OBVIOUS
    <3> HIDE DEF F
    <3>2. QED
      BY <2>1, <2>2, <3>1, MinimalSubset
  <2> DEFINE x == Chosen(s)
  <2>4. s # {}
    BY <1>3, <1>4, <2>3
  <2>5. x \in s /\ s \ {x} \in SUBSET S
    BY <1>2, <2>3, <2>4
  <2>6. /\ iter[s] = share[Row(rates, x)] + iter[s \ {x}]
        /\ h[s] = share[Row(rates, x)] + h[s \ {x}]
    <3>1. \A g : s # {} => Body(g)[s] = share[Row(rates, x)] + g[s \ {x}]
      BY <2>3
    <3> HIDE DEF Body, h, x
    <3>2. QED
      BY <1>3, <1>4, <2>4, <3>1
  <2>7. iter[s \ {x}] = h[s \ {x}]
    <3> HIDE DEF h, x
    <3>1. QED
      BY <2>3, <2>5
  <2>8. iter[s] # h[s]
    BY <2>3
  <2> HIDE DEF h, x
  <2>9. QED
    BY <2>6, <2>7, <2>8
<1>6. iter[S] = h[S]
  BY <1>5
<1>7. QED
  BY <1>1, <1>6

(* promotion_split_support.go: the split logs of the rule that an order    *)
(* was completed under add up to the highest target rate of the tiers.     *)
THEOREM SplitsAddUp == Spec => []SplitsMakeUpTopRate
<1>1. ASSUME CommissionInv, DiffMode, order = "COMPLETED"
      PROVE  Paid({t \in Plans(rates) : split[Row(rates, t)] # "none"}) = Top
  <2> DEFINE S == {t \in Plans(rates) : split[Row(rates, t)] # "none"}
  <2>1. TypeOK
    BY <1>1 DEF CommissionInv
  <2>2. Top \in Nat
    <3>1. IsFiniteSet(Tiers) /\ \A s \in Tiers : rates[s] \in Nat
      BY <2>1, CommissionAssumption DEF TypeOK
    <3>2. QED
      BY <3>1, MaxRate DEF Top
  <2>3. Units(S) = 1 .. Top
    <3>1. ASSUME NEW k \in 1 .. Top
          PROVE  \E t \in S : Pays(t, k)
      <4>1. k \in Nat \ {0} /\ k <= Top
        BY <2>2
      <4>2. PICK t \in Tiers : Pays(t, k)
        BY <1>1, <2>1, <4>1, Tiling
      <4>3. QED
        BY <1>1, <2>1, <4>1, <4>2, PaidHasShare, SharesAreSplit DEF Written
    <3>2. QED
      BY <3>1 DEF Units
  <2>4. Cardinality(1 .. Top) = Top
    BY <2>2, FS_Interval
  <2>5. Paid(S) = Cardinality(Units(S))
    <3>1. S \in SUBSET Tiers /\ \A t \in S : share[Row(rates, t)] = CommissionAmount(rates, t)
      BY <1>1, SharesAreSplit DEF Plans
    <3> HIDE DEF S
    <3>2. QED
      BY <1>1, <2>1, <3>1, SumOfShares
  <2>6. QED
    BY <2>3, <2>4, <2>5
<1>2. CommissionInv => SplitsMakeUpTopRate
  BY <1>1 DEF SplitsMakeUpTopRate, Paid, Top
<1>3. QED
  BY <1>2, CommissionInvariance, PTL

=============================================================================
