-------------------------- MODULE PaymentRefundProofs -----------------------
(***************************************************************************)
(* Proofs about PaymentRefund, for every amount, every wallet, every set   *)
(* of handlers and any number of failures: refunds of one order exclude    *)
(* each other, the provider accepts one refund, of the amount the order    *)
(* shows, until one of its answers is lost; a rollback is covered by a     *)
(* deduction, and the outcome is final.                                    *)
(***************************************************************************)
EXTENDS PaymentRefund, TLAPS

(* A refund asks the provider for a natural number of cents.               *)
LEMMA GatewayAmountIsNat ==
  ASSUME NEW a \in Nat
  PROVE  GatewayAmount(a) \in Nat
<1>1. 2 * Amount \in Nat \ {0}
  BY RefundAssumption
<1>2. 2 * PayAmount * a + Amount \in Nat
  BY RefundAssumption
<1>3. \A m \in Nat, n \in Nat \ {0} : m \div n \in Nat
  BY SMT
<1>4. QED
  BY <1>1, <1>2, <1>3, RefundAssumption DEF GatewayAmount

(* The steps of a handler keep every variable in its type.                 *)
LEMMA TypeStep ==
  ASSUME TypeOK, NEW w \in Workers, Step(w)
  PROVE  TypeOK'
<1> USE RefundAssumption DEF TypeOK, Statuses, Labels, Refunding
<1>1. CASE SetRequested(w)
  BY <1>1 DEF SetRequested, row, user, provider, worker, At, Goto, Finish, Spend, Fault, NoFault, history
<1>2. CASE PrepDeduct(w)
  BY <1>2 DEF PrepDeduct, row, user, provider, worker, At, Goto, Finish, Spend, Fault, NoFault, history, Plan, PlanNothing, BalanceToDeduct, Min2, GetActiveSubscription
<1>3. CASE Lock(w)
  BY <1>3 DEF Lock, row, user, provider, worker, At, Goto, Finish, Spend, Fault, NoFault, history, Lockable, Refundable
<1>4. CASE Deduct(w)
  BY <1>4 DEF Deduct, row, user, provider, worker, At, Goto, Finish, Spend, Fault, NoFault, history, DeductBalance, ShortenOrRevoke, SkipDeduction
<1>5. CASE GwRefund(w)
  <2>1. GatewayAmount(amount[w]) \in Nat
    BY GatewayAmountIsNat
  <2>2. QED
    BY <1>5, <2>1 DEF GwRefund, Accept, AnswerFault, row, user, provider, worker, At, Goto, Finish, Spend, Fault, NoFault, history
<1>6. CASE MarkRefundOk(w)
  BY <1>6 DEF MarkRefundOk, row, user, provider, worker, At, Goto, Finish, Spend, Fault, NoFault, history, FinalStatus, StatusFault
<1>7. CASE Rollback(w)
  BY <1>7 DEF Rollback, row, user, provider, worker, At, Goto, Finish, Spend, Fault, NoFault, history
<1>8. CASE RollbackLog(w)
  BY <1>8 DEF RollbackLog, row, user, provider, worker, At, Goto, Finish, Spend, Fault, NoFault, history
<1>9. CASE MarkRefundFailed(w)
  BY <1>9 DEF MarkRefundFailed, row, user, provider, worker, At, Goto, Finish, Spend, Fault, NoFault, history, StatusFault
<1>10. CASE RestoreStatus(w)
  BY <1>10 DEF RestoreStatus, row, user, provider, worker, At, Goto, Finish, Spend, Fault, NoFault, history, RestoredStatus, StatusFault
<1>11. QED
  BY <1>1, <1>2, <1>3, <1>4, <1>5, <1>6, <1>7, <1>8, <1>9, <1>10 DEF Step

(* So do the start of a handler, the use of the wallet and a crash.        *)
LEMMA TypeOther ==
  ASSUME TypeOK, NEW w \in Workers, Use \/ Begin(w) \/ Crash(w)
  PROVE  TypeOK'
<1> USE RefundAssumption DEF TypeOK, Statuses, Labels, Refunding
<1>1. CASE Use
  BY <1>1 DEF Use, row, provider, worker, history
<1>2. CASE RequestRefund(w)
  BY <1>2 DEF RequestRefund, row, user, provider, worker, At, Goto, Finish, Spend, Fault, NoFault, history
<1>3. ASSUME NEW amt \in RefundAmounts, NEW force \in BOOLEAN, NEW deduct \in BOOLEAN,
             PrepareRefund(w, amt, force, deduct)
      PROVE  TypeOK'
  BY <1>3 DEF PrepareRefund, row, user, provider, worker, At, Goto, Finish, Spend, Fault, NoFault, history
<1>4. CASE Crash(w)
  BY <1>4 DEF Crash, StatusFault, row, user, provider, worker, At, Goto, Finish, Spend, Fault, NoFault, history
<1>5. QED
  BY <1>1, <1>2, <1>3, <1>4 DEF Begin

(* Every reachable state is well typed.                                    *)
THEOREM RefundTypeCorrect == Spec => []TypeOK
<1>1. Init => TypeOK
  BY RefundAssumption DEF Init, TypeOK, Statuses, Labels
<1>2. TypeOK /\ [Next]_vars => TypeOK'
  <2>1. CASE UNCHANGED vars
    BY <2>1 DEF TypeOK, vars, row, user, provider, worker, history
  <2>2. CASE Use
    <3>1. CASE Workers = {}
      BY <2>2, <3>1 DEF Use, TypeOK, row, provider, worker, history
    <3>2. CASE Workers # {}
      BY <2>2, <3>2, TypeOther
    <3>3. QED
      BY <3>1, <3>2
  <2>3. CASE SettlePending
    BY <2>3 DEF SettlePending, TypeOK, row, user, worker, history
  <2>4. QED
    BY <2>1, <2>2, <2>3, TypeStep, TypeOther DEF Next
<1>3. QED
  BY <1>1, <1>2, PTL DEF Spec

-----------------------------------------------------------------------------
(* IndInv without the type invariant.                                      *)
Consistent ==
    /\ SingleRefunder
    /\ AcceptedOnce
    /\ RefundedIsAccepted
    /\ RollbackIsCovered
    /\ \A w \in Workers : RefunderInv(w)

(* A step of a handler keeps it.                                           *)
LEMMA ConsistentStep ==
  ASSUME TypeOK, TypeOK', Consistent, NEW w \in Workers, Step(w)
  PROVE  Consistent'
<1> USE RefundAssumption DEF TypeOK, Consistent, SingleRefunder, AcceptedOnce, RefundedIsAccepted, RollbackIsCovered, RefunderInv, Refunding, Refunded, Refundable, Statuses
<1>1. CASE SetRequested(w)
  <2>1. SingleRefunder'
    BY <1>1 DEF SetRequested, row, user, provider, worker, At, Goto, Finish, Spend, Fault, NoFault, history
  <2>2. AcceptedOnce' /\ RefundedIsAccepted' /\ RollbackIsCovered'
    BY <1>1 DEF SetRequested, row, user, provider, worker, At, Goto, Finish, Spend, Fault, NoFault, history, GatewayAmount
  <2>3. ASSUME NEW v \in Workers PROVE RefunderInv(v)'
    BY <1>1 DEF SetRequested, row, user, provider, worker, At, Goto, Finish, Spend, Fault, NoFault, history, GatewayAmount
  <2>4. QED
    BY <2>1, <2>2, <2>3 DEF Consistent
<1>2. CASE PrepDeduct(w)
  <2>1. SingleRefunder'
    BY <1>2 DEF PrepDeduct, row, user, provider, worker, At, Goto, Finish, Spend, Fault, NoFault, history, Plan, PlanNothing, BalanceToDeduct, Min2, GetActiveSubscription
  <2>2. AcceptedOnce' /\ RefundedIsAccepted' /\ RollbackIsCovered'
    BY <1>2 DEF PrepDeduct, row, user, provider, worker, At, Goto, Finish, Spend, Fault, NoFault, history, Plan, PlanNothing, BalanceToDeduct, Min2, GetActiveSubscription, GatewayAmount
  <2>3. ASSUME NEW v \in Workers PROVE RefunderInv(v)'
    BY <1>2 DEF PrepDeduct, row, user, provider, worker, At, Goto, Finish, Spend, Fault, NoFault, history, Plan, PlanNothing, BalanceToDeduct, Min2, GetActiveSubscription, GatewayAmount
  <2>4. QED
    BY <2>1, <2>2, <2>3 DEF Consistent
<1>3. CASE Lock(w)
  <2>1. SingleRefunder'
    BY <1>3 DEF Lock, row, user, provider, worker, At, Goto, Finish, Spend, Fault, NoFault, history, Lockable
  <2>2. AcceptedOnce' /\ RefundedIsAccepted' /\ RollbackIsCovered'
    BY <1>3 DEF Lock, row, user, provider, worker, At, Goto, Finish, Spend, Fault, NoFault, history, Lockable, GatewayAmount
  <2>3. ASSUME NEW v \in Workers PROVE RefunderInv(v)'
    BY <1>3 DEF Lock, row, user, provider, worker, At, Goto, Finish, Spend, Fault, NoFault, history, Lockable
  <2>4. QED
    BY <2>1, <2>2, <2>3 DEF Consistent
<1>4. CASE Deduct(w)
  <2>1. SingleRefunder'
    BY <1>4 DEF Deduct, row, user, provider, worker, At, Goto, Finish, Spend, Fault, NoFault, history, DeductBalance, ShortenOrRevoke, SkipDeduction
  <2>2. AcceptedOnce' /\ RefundedIsAccepted' /\ RollbackIsCovered'
    BY <1>4 DEF Deduct, row, user, provider, worker, At, Goto, Finish, Spend, Fault, NoFault, history, DeductBalance, ShortenOrRevoke, SkipDeduction, GatewayAmount
  <2>3. ASSUME NEW v \in Workers PROVE RefunderInv(v)'
    BY <1>4 DEF Deduct, row, user, provider, worker, At, Goto, Finish, Spend, Fault, NoFault, history, DeductBalance, ShortenOrRevoke, SkipDeduction, GatewayAmount
  <2>4. QED
    BY <2>1, <2>2, <2>3 DEF Consistent
<1>5. CASE GwRefund(w)
  <2>0. GatewayAmount(amount[w]) \in Nat
    BY GatewayAmountIsNat
  <2>1. SingleRefunder'
    BY <1>5 DEF GwRefund, Accept, AnswerFault, row, user, provider, worker, At, Goto, Finish, Spend, Fault, NoFault, history
  <2>2. AcceptedOnce' /\ RefundedIsAccepted' /\ RollbackIsCovered'
    BY <1>5, <2>0 DEF GwRefund, Accept, AnswerFault, row, user, provider, worker, At, Goto, Finish, Spend, Fault, NoFault, history, GatewayAmount
  <2>3. ASSUME NEW v \in Workers PROVE RefunderInv(v)'
    BY <1>5, <2>0 DEF GwRefund, Accept, AnswerFault, row, user, provider, worker, At, Goto, Finish, Spend, Fault, NoFault, history, GatewayAmount
  <2>4. QED
    BY <2>1, <2>2, <2>3 DEF Consistent
<1>6. CASE MarkRefundOk(w)
  <2>1. SingleRefunder'
    BY <1>6 DEF MarkRefundOk, row, user, provider, worker, At, Goto, Finish, Spend, Fault, NoFault, history, FinalStatus, StatusFault
  <2>2. AcceptedOnce' /\ RefundedIsAccepted' /\ RollbackIsCovered'
    <3>1. RefundedIsAccepted'
      <4>1. CASE status' = FinalStatus(amount[w]) /\ refundAmount' = amount[w]
        BY <1>6, <4>1 DEF MarkRefundOk, user, provider, At, NoFault, StatusFault, Spend, history
      <4>2. CASE UNCHANGED <<status, refundAmount>>
        BY <1>6, <4>2 DEF MarkRefundOk, user, provider, At, NoFault, StatusFault, Spend, history
      <4>3. QED
        BY <1>6, <4>1, <4>2 DEF MarkRefundOk
    <3>2. AcceptedOnce' /\ RollbackIsCovered'
      BY <1>6 DEF MarkRefundOk, user, provider, At, FinalStatus
    <3>3. QED
      BY <3>1, <3>2
  <2>3. ASSUME NEW v \in Workers PROVE RefunderInv(v)'
    BY <1>6 DEF MarkRefundOk, row, user, provider, worker, At, Goto, Finish, Spend, Fault, NoFault, history, FinalStatus, StatusFault, GatewayAmount
  <2>4. QED
    BY <2>1, <2>2, <2>3 DEF Consistent
<1>7. CASE Rollback(w)
  <2>1. SingleRefunder'
    BY <1>7 DEF Rollback, row, user, provider, worker, At, Goto, Finish, Spend, Fault, NoFault, history
  <2>2. AcceptedOnce' /\ RefundedIsAccepted' /\ RollbackIsCovered'
    BY <1>7 DEF Rollback, row, user, provider, worker, At, Goto, Finish, Spend, Fault, NoFault, history, GatewayAmount
  <2>3. ASSUME NEW v \in Workers PROVE RefunderInv(v)'
    BY <1>7 DEF Rollback, row, user, provider, worker, At, Goto, Finish, Spend, Fault, NoFault, history, GatewayAmount
  <2>4. QED
    BY <2>1, <2>2, <2>3 DEF Consistent
<1>8. CASE RollbackLog(w)
  <2>1. SingleRefunder'
    BY <1>8 DEF RollbackLog, row, user, provider, worker, At, Goto, Finish, Spend, Fault, NoFault, history
  <2>2. AcceptedOnce' /\ RefundedIsAccepted' /\ RollbackIsCovered'
    BY <1>8 DEF RollbackLog, row, user, provider, worker, At, Goto, Finish, Spend, Fault, NoFault, history, GatewayAmount
  <2>3. ASSUME NEW v \in Workers PROVE RefunderInv(v)'
    BY <1>8 DEF RollbackLog, row, user, provider, worker, At, Goto, Finish, Spend, Fault, NoFault, history, GatewayAmount
  <2>4. QED
    BY <2>1, <2>2, <2>3 DEF Consistent
<1>9. CASE MarkRefundFailed(w)
  <2>1. SingleRefunder'
    BY <1>9 DEF MarkRefundFailed, row, user, provider, worker, At, Goto, Finish, Spend, Fault, NoFault, history, StatusFault
  <2>2. AcceptedOnce' /\ RefundedIsAccepted' /\ RollbackIsCovered'
    BY <1>9 DEF MarkRefundFailed, row, user, provider, worker, At, Goto, Finish, Spend, Fault, NoFault, history, StatusFault, GatewayAmount
  <2>3. ASSUME NEW v \in Workers PROVE RefunderInv(v)'
    BY <1>9 DEF MarkRefundFailed, row, user, provider, worker, At, Goto, Finish, Spend, Fault, NoFault, history, StatusFault, GatewayAmount
  <2>4. QED
    BY <2>1, <2>2, <2>3 DEF Consistent
<1>10. CASE RestoreStatus(w)
  <2>1. SingleRefunder'
    BY <1>10 DEF RestoreStatus, row, user, provider, worker, At, Goto, Finish, Spend, Fault, NoFault, history, RestoredStatus, StatusFault
  <2>2. AcceptedOnce' /\ RefundedIsAccepted' /\ RollbackIsCovered'
    BY <1>10 DEF RestoreStatus, row, user, provider, worker, At, Goto, Finish, Spend, Fault, NoFault, history, RestoredStatus, StatusFault, GatewayAmount
  <2>3. ASSUME NEW v \in Workers PROVE RefunderInv(v)'
    BY <1>10 DEF RestoreStatus, row, user, provider, worker, At, Goto, Finish, Spend, Fault, NoFault, history, RestoredStatus, StatusFault, GatewayAmount
  <2>4. QED
    BY <2>1, <2>2, <2>3 DEF Consistent
<1>11. QED
  BY <1>1, <1>2, <1>3, <1>4, <1>5, <1>6, <1>7, <1>8, <1>9, <1>10 DEF Step

(* So do the start of a handler, the use of the wallet and a crash.        *)
LEMMA ConsistentOther ==
  ASSUME TypeOK, TypeOK', Consistent, NEW w \in Workers, Begin(w) \/ Crash(w)
  PROVE  Consistent'
<1> USE RefundAssumption DEF TypeOK, Consistent, SingleRefunder, AcceptedOnce, RefundedIsAccepted, RollbackIsCovered, RefunderInv, Refunding, Refunded, Refundable, Statuses
<1>1. CASE RequestRefund(w)
  BY <1>1 DEF RequestRefund, row, user, provider, worker, At, Goto, Finish, Spend, Fault, NoFault, history, GatewayAmount
<1>2. ASSUME NEW amt \in RefundAmounts, NEW force \in BOOLEAN, NEW deduct \in BOOLEAN,
             PrepareRefund(w, amt, force, deduct)
      PROVE  Consistent'
  BY <1>2 DEF PrepareRefund, row, user, provider, worker, At, Goto, Finish, Spend, Fault, NoFault, history, GatewayAmount
<1>3. CASE Crash(w)
  BY <1>3 DEF Crash, StatusFault, row, user, provider, worker, At, Goto, Finish, Spend, Fault, NoFault, history, GatewayAmount
<1>4. QED
  BY <1>1, <1>2, <1>3 DEF Begin

(* IndInv is inductive.                                                    *)
THEOREM RefundInvariance == Spec => []IndInv
<1>1. Init => Consistent
  BY RefundAssumption DEF Init, Refunding, Refunded, Consistent, SingleRefunder, AcceptedOnce, RefundedIsAccepted, RollbackIsCovered, RefunderInv
<1>2. TypeOK /\ TypeOK' /\ Consistent /\ [Next]_vars => Consistent'
  <2>1. CASE UNCHANGED vars
    BY <2>1 DEF Consistent, SingleRefunder, AcceptedOnce, RefundedIsAccepted, RollbackIsCovered, RefunderInv, vars, row, user, provider, worker, history, GatewayAmount
  <2>2. CASE Use \/ SettlePending
    BY <2>2 DEF Use, SettlePending, Consistent, SingleRefunder, AcceptedOnce, RefundedIsAccepted, RollbackIsCovered, RefunderInv, row, user, provider, worker, history, GatewayAmount
  <2>3. QED
    BY <2>1, <2>2, ConsistentStep, ConsistentOther DEF Next
<1>3. TypeOK /\ Consistent => IndInv
  BY DEF IndInv, Consistent
<1>4. QED
  BY <1>1, <1>2, <1>3, RefundTypeCorrect, PTL DEF Spec

-----------------------------------------------------------------------------

(* At most one administrator refunds the order at a time.                   *)
THEOREM RefundsExclude == Spec => []SingleRefunder
<1>1. IndInv => SingleRefunder
  BY DEF IndInv
<1>2. QED
  BY <1>1, RefundInvariance, PTL

(* After the provider accepted a refund the order is not refundable again, *)
(* until an answer of the provider is lost.                                *)
THEOREM RefundIsAcceptedOnce == Spec => []AcceptedOnce
<1>1. IndInv => AcceptedOnce
  BY DEF IndInv
<1>2. QED
  BY <1>1, RefundInvariance, PTL

(* For a refunded order the provider accepted the share of the payment it  *)
(* shows, until an answer of the provider is lost.                         *)
THEOREM RefundShowsWhatWasAccepted == Spec => []RefundedIsAccepted
<1>1. IndInv => RefundedIsAccepted
  BY DEF IndInv
<1>2. QED
  BY <1>1, RefundInvariance, PTL

(* No rollback gives the user more than was taken from him.                *)
THEOREM RollbacksAreCovered == Spec => []RollbackIsCovered
<1>1. IndInv => RollbackIsCovered
  BY DEF IndInv
<1>2. QED
  BY <1>1, RefundInvariance, PTL

(* REFUNDED and PARTIALLY_REFUNDED are final, although the handlers' last  *)
(* writes of the status are unconditional: their writer holds REFUNDING.   *)
THEOREM RefundsStay == Spec => RefundedIsFinal
<1>1. ASSUME IndInv, [Next]_vars, status \in Refunded
      PROVE  status' = status
  <2> USE <1>1 DEF IndInv, RefunderInv, Refunding, Refunded, Refundable, Lockable
  <2>1. CASE UNCHANGED vars \/ Use \/ SettlePending
    BY <2>1 DEF vars, Use, SettlePending, row
  <2>2. ASSUME NEW w \in Workers, Begin(w) \/ Crash(w)
        PROVE  status' = status
    BY <2>2 DEF Begin, RequestRefund, PrepareRefund, Crash, row
  <2>3. ASSUME NEW w \in Workers, Step(w)
        PROVE  status' = status
    BY <2>3 DEF Step, SetRequested, PrepDeduct, Lock, Deduct, GwRefund, MarkRefundOk,
       Rollback, RollbackLog, MarkRefundFailed, RestoreStatus, At, row
  <2>4. QED
    BY <2>1, <2>2, <2>3 DEF Next
<1>2. QED
  BY <1>1, RefundInvariance, PTL DEF Spec, RefundedIsFinal

-----------------------------------------------------------------------------
(* Refinement of RefundLedger                                              *)

(* A handler keeps the amount of its plan until it returns.                *)
LEMMA PlanIsKept ==
  ASSUME TypeOK, PlanInv, NEW w \in Workers, Begin(w) \/ Step(w) \/ Crash(w)
  PROVE  PlanInv'
<1> USE DEF TypeOK, PlanInv, Refunding, At, Goto, Finish
<1>1. CASE Begin(w)
  BY <1>1 DEF Begin, RequestRefund, PrepareRefund
<1>2. CASE SetRequested(w) \/ MarkRefundOk(w) \/ MarkRefundFailed(w) \/ RestoreStatus(w) \/ Crash(w)
  BY <1>2 DEF SetRequested, MarkRefundOk, MarkRefundFailed, RestoreStatus, Crash
<1>3. CASE PrepDeduct(w)
  BY <1>3 DEF PrepDeduct, Plan, PlanNothing
<1>4. CASE Lock(w)
  BY <1>4 DEF Lock
<1>5. CASE Deduct(w)
  BY <1>5 DEF Deduct, SkipDeduction
<1>6. CASE GwRefund(w)
  BY <1>6 DEF GwRefund
<1>7. CASE Rollback(w) \/ RollbackLog(w)
  BY <1>7 DEF Rollback, RollbackLog
<1>8. QED
  BY <1>1, <1>2, <1>3, <1>4, <1>5, <1>6, <1>7 DEF Step

(* What the provider accepts is the share of the plan, for the first time. *)
LEMMA GwRefundIsAccepted ==
  ASSUME IndInv, PlanInv, lost = "no", NEW w \in Workers, GwRefund(w)
  PROVE  [Ledger!Next]_(Ledger!ledger)
<1>1. /\ pc[w] = "gwRefund" /\ status = "REFUNDING" /\ accepted = 0 /\ amount[w] \in RefundAmounts
      /\ UNCHANGED <<status, refundAmount, tradeNo>>
  BY DEF IndInv, PlanInv, RefunderInv, Refunding, GwRefund, At, row
<1>2. GatewayAmount(amount[w]) \in Nat
  BY GatewayAmountIsNat DEF IndInv, TypeOK
<1>3. CASE UNCHANGED accepted
  BY <1>1, <1>3 DEF Ledger!ledger
<1>4. CASE tradeNo = "present" /\ accepted' = accepted + GatewayAmount(amount[w])
  <2>1. accepted' = GatewayAmount(amount[w])
    BY <1>1, <1>2, <1>4
  <2>2. Ledger!Accept(amount[w])
    BY <1>1, <1>4, <2>1 DEF Ledger!Accept, Refunded
  <2>3. QED
    BY <1>1, <2>2 DEF Ledger!Next
<1>5. QED
  BY <1>3, <1>4 DEF GwRefund, Accept

(* What an order shows is the refund whose share was accepted.             *)
LEMMA MarkRefundOkShows ==
  ASSUME IndInv, PlanInv, lost = "no", NEW w \in Workers, MarkRefundOk(w)
  PROVE  [Ledger!Next]_(Ledger!ledger)
<1>1. /\ pc[w] = "markRefundOk" /\ status = "REFUNDING" /\ amount[w] \in RefundAmounts
      /\ tradeNo = "present" => accepted = GatewayAmount(amount[w])
      /\ UNCHANGED <<tradeNo, accepted>>
  BY DEF IndInv, PlanInv, RefunderInv, Refunding, MarkRefundOk, At, provider
<1>2. CASE UNCHANGED <<status, refundAmount>>
  BY <1>1, <1>2 DEF Ledger!ledger
<1>3. CASE status' = FinalStatus(amount[w]) /\ refundAmount' = amount[w]
  <2>1. status' \in Refunded /\ status \notin Refunded
    BY <1>1, <1>3 DEF FinalStatus, Refunded
  <2>2. Ledger!Show(amount[w])
    BY <1>1, <1>3, <2>1 DEF Ledger!Show
  <2>3. QED
    BY <1>1, <2>2 DEF Ledger!Next
<1>4. QED
  BY <1>2, <1>3 DEF MarkRefundOk

(* The other steps of a handler are not seen: they write the status of an  *)
(* order that shows no refund, and no outcome.                             *)
LEMMA OthersAreSilent ==
  ASSUME IndInv, NEW w \in Workers, Step(w), ~GwRefund(w), ~MarkRefundOk(w)
  PROVE  UNCHANGED Ledger!ledger
<1> USE DEF IndInv, RefunderInv, Refunding, Refunded, At, Ledger!ledger
<1>1. CASE SetRequested(w)
  BY <1>1 DEF SetRequested, provider
<1>2. CASE PrepDeduct(w) \/ Deduct(w) \/ Rollback(w)
  BY <1>2 DEF PrepDeduct, Deduct, Rollback, row, provider
<1>3. CASE Lock(w)
  BY <1>3 DEF Lock, Lockable, Refundable, provider
<1>4. CASE RollbackLog(w)
  BY <1>4 DEF RollbackLog, provider
<1>5. CASE MarkRefundFailed(w)
  BY <1>5 DEF MarkRefundFailed, provider
<1>6. CASE RestoreStatus(w)
  BY <1>6 DEF RestoreStatus, RestoredStatus, provider
<1>7. QED
  BY <1>1, <1>2, <1>3, <1>4, <1>5, <1>6 DEF Step

(* A lost answer stays lost.                                               *)
LEMMA LostIsKept ==
  ASSUME TypeOK, [Next]_vars, lost = "yes"
  PROVE  lost' = "yes"
<1>1. CASE UNCHANGED vars \/ Use \/ SettlePending
  BY <1>1 DEF vars, Use, SettlePending, history
<1>2. ASSUME NEW w \in Workers, Begin(w) \/ Crash(w) PROVE lost' = "yes"
  BY <1>2 DEF Begin, RequestRefund, PrepareRefund, Crash, Spend, Fault, StatusFault, history
<1>3. ASSUME NEW w \in Workers, Step(w) PROVE lost' = "yes"
  BY <1>3 DEF Step, SetRequested, PrepDeduct, Lock, Deduct, GwRefund, MarkRefundOk, Rollback,
     RollbackLog, MarkRefundFailed, RestoreStatus, Spend, Fault, NoFault, AnswerFault,
     StatusFault, history
<1>4. QED
  BY <1>1, <1>2, <1>3 DEF Next

(* Until an answer of the provider is lost, refunds implement the ledger:  *)
(* the provider accepts the share of one refund, once, and that is what    *)
(* the order shows, for all amounts, any number of handlers, failures and  *)
(* crashes.                                                                *)
THEOREM RefundRefinement == Spec => ImplementsRefundLedger
<1>1. Init => PlanInv /\ Ledger!Init
  BY DEF Init, PlanInv, Refunding, Refunded, Ledger!Init
<1>2. IndInv /\ PlanInv /\ [Next]_vars => PlanInv' /\ [lost' = "no" => Ledger!Next]_(Ledger!ledger)
  <2>1. SUFFICES ASSUME IndInv, PlanInv, [Next]_vars
                 PROVE  PlanInv' /\ (lost' = "no" => [Ledger!Next]_(Ledger!ledger))
    OBVIOUS
  <2>2. CASE Use \/ SettlePending \/ UNCHANGED vars
    BY <2>1, <2>2 DEF Use, SettlePending, vars, row, provider, worker, PlanInv, Ledger!ledger
  <2>3. ASSUME NEW w \in Workers, Begin(w) \/ Crash(w)
        PROVE  PlanInv' /\ [Ledger!Next]_(Ledger!ledger)
    <3>1. UNCHANGED <<row, provider>>
      BY <2>3 DEF Begin, RequestRefund, PrepareRefund, Crash
    <3>2. QED
      BY <2>1, <2>3, <3>1, PlanIsKept DEF IndInv, row, provider, Ledger!ledger
  <2>4. ASSUME NEW w \in Workers, Step(w)
        PROVE  PlanInv' /\ (lost' = "no" => [Ledger!Next]_(Ledger!ledger))
    <3>1. PlanInv'
      BY <2>1, <2>4, PlanIsKept DEF IndInv
    <3>2. ASSUME lost' = "no" PROVE [Ledger!Next]_(Ledger!ledger)
      <4>1. lost = "no"
        BY <2>1, <3>2, LostIsKept DEF IndInv, TypeOK
      <4>2. QED
        BY <2>1, <2>4, <4>1, GwRefundIsAccepted, MarkRefundOkShows, OthersAreSilent DEF IndInv
    <3>3. QED
      BY <3>1, <3>2
  <2>5. QED
    BY <2>1, <2>2, <2>3, <2>4 DEF Next
<1>3. QED
  BY <1>1, <1>2, RefundInvariance, PTL DEF Spec, ImplementsRefundLedger

=============================================================================
