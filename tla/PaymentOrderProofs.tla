------------------------- MODULE PaymentOrderProofs -------------------------
(***************************************************************************)
(* Proofs about PaymentOrder, for any set of orders and of handlers, any   *)
(* limits and any number of failures.  IndInv is inductive: the orders a   *)
(* handler stands on are described by where it stands (WorkerInv), the row,*)
(* the benefit and the payment of an order constrain each other (OrderInv),*)
(* and at most one handler creates and one fulfils an order.               *)
(***************************************************************************)
EXTENDS PaymentOrder, TLAPS

(* What confirmPayment does, with the report it decides on left out: it    *)
(* goes on only with a payment in the right amount, or with one of a silent*)
(* order.                                                                  *)
LEMMA ConfirmPaymentCases ==
  ASSUME NEW w \in Workers, ConfirmPayment(w)
  PROVE  /\ At(w, "confirmPayment")
         /\ UNCHANGED <<row, benefit>>
         /\ \/ /\ Goto(w, "toPaid") /\ NoFault /\ UNCHANGED provider
               /\ IsPaid(on[w]) => Covered(on[w])
            \/ Return(w, FALSE) /\ NoFault
            \/ Return(w, TRUE) /\ Fault
<1>1. CASE Return(w, TRUE) /\ Fault
  BY <1>1 DEF ConfirmPayment
<1>2. CASE ~(Return(w, TRUE) /\ Fault)
  <2>1. PICK reported \in Reports(on[w]) :
          \/ /\ AmountMatches(on[w], reported)
             /\ Goto(w, "toPaid") /\ NoFault /\ UNCHANGED provider
          \/ ~AmountMatches(on[w], reported) /\ Return(w, FALSE) /\ NoFault
    BY <1>2 DEF ConfirmPayment
  <2>2. AmountMatches(on[w], reported) /\ IsPaid(on[w]) => Covered(on[w])
    BY <2>1 DEF Reports, AmountMatches, IsPaid, Covered
  <2>3. QED
    BY <2>1, <2>2 DEF ConfirmPayment
<1>3. QED
  BY <1>1, <1>2

(* The steps of a handler keep every variable in its type.                 *)
LEMMA TypeStep ==
  ASSUME TypeOK, NEW w \in Workers, Step(w)
  PROVE  TypeOK'
<1> USE ConstantsAssumption
    DEF TypeOK, Labels, Operations, OrderStatuses, row, benefit, provider, worker, history,
        At, Goto, Finish, Return, Fault, NoFault
<1>1. CASE CheckLimits(w)
  BY <1>1 DEF CheckLimits
<1>2. CASE InsertOrder(w)
  BY <1>2 DEF InsertOrder, CAS
<1>3. CASE InvokeProvider(w)
  BY <1>3 DEF InvokeProvider
<1>4. CASE SavePayment(w)
  BY <1>4 DEF SavePayment
<1>5. CASE CreateFailed(w)
  BY <1>5 DEF CreateFailed, CAS
<1>6. CASE QueryOrder(w)
  BY <1>6 DEF QueryOrder, AfterCheckPaid, IsPaid
<1>7. CASE CancelPayment(w)
  BY <1>7 DEF CancelPayment, AfterCheckPaid
<1>8. CASE SetStatus(w)
  BY <1>8 DEF SetStatus, CAS, FinalStatus
<1>9. CASE ConfirmPayment(w)
  BY <1>9, ConfirmPaymentCases
<1>10. CASE ToPaid(w)
  BY <1>10 DEF ToPaid, Payable
<1>11. CASE AlreadyProcessed(w)
  BY <1>11 DEF AlreadyProcessed
<1>12. CASE ResetForRetry(w)
  BY <1>12 DEF ResetForRetry, CAS
<1>13. CASE ExecuteFulfillment(w)
  BY <1>13 DEF ExecuteFulfillment
<1>14. CASE Lock(w)
  BY <1>14 DEF Lock, CAS
<1>15. CASE DoBalance(w)
  BY <1>15 DEF DoBalance, ResolveRedeemAction
<1>16. CASE CreateCode(w)
  BY <1>16 DEF CreateCode
<1>17. CASE Redeem(w)
  BY <1>17 DEF Redeem, UseCode
<1>18. CASE DoSub(w)
  BY <1>18 DEF DoSub, HasAuditLog
<1>19. CASE Assign(w)
  BY <1>19 DEF Assign
<1>20. CASE RecordCommission(w)
  BY <1>20 DEF RecordCommission
<1>21. CASE MarkCompleted(w)
  BY <1>21 DEF MarkCompleted, CAS
<1>22. CASE AuditLog(w)
  BY <1>22 DEF AuditLog
<1>23. CASE MarkFailed(w)
  BY <1>23 DEF MarkFailed, CAS
<1>24. CASE DeleteCode(w)
  BY <1>24 DEF DeleteCode
<1>25. QED
  BY <1>1, <1>2, <1>3, <1>4, <1>5, <1>6, <1>7, <1>8, <1>9, <1>10, <1>11, <1>12, <1>13, <1>14, <1>15, <1>16, <1>17, <1>18, <1>19, <1>20, <1>21, <1>22, <1>23, <1>24 DEF Step

(* So do the steps that start a handler ...                                *)
LEMMA TypeBegin ==
  ASSUME TypeOK, NEW w \in Workers, NEW o \in Orders, Begin(w, o)
  PROVE  TypeOK'
<1> USE ConstantsAssumption
    DEF TypeOK, Labels, Operations, OrderStatuses, row, benefit, provider, worker, history,
        At, Start, Fault, NoFault
<1>1. CASE CreateOrder(w, o)
  BY <1>1 DEF CreateOrder
<1>2. CASE HandleNotify(w, o)
  BY <1>2 DEF HandleNotify
<1>3. CASE VerifyOrder(w, o)
  BY <1>3 DEF VerifyOrder
<1>4. CASE CancelOrder(w, o)
  BY <1>4 DEF CancelOrder
<1>5. CASE ExpireOrder(w, o)
  BY <1>5 DEF ExpireOrder
<1>6. CASE RetryFulfillment(w, o)
  BY <1>6 DEF RetryFulfillment
<1>7. CASE DeleteRedeemCode(w, o)
  BY <1>7 DEF DeleteRedeemCode
<1>8. QED
  BY <1>1, <1>2, <1>3, <1>4, <1>5, <1>6, <1>7 DEF Begin

(* ... the steps of the environment, and a crash.                          *)
LEMMA TypeEnvironment ==
  ASSUME TypeOK, NEW o \in Orders, Environment(o)
  PROVE  TypeOK'
<1> USE DEF TypeOK, row, benefit, provider, worker, history
<1>1. CASE Pay(o)
  BY <1>1 DEF Pay
<1>2. CASE RedeemByUser(o)
  BY <1>2 DEF RedeemByUser, UseCode
<1>3. CASE Timeout(o)
  BY <1>3 DEF Timeout
<1>4. CASE GraceElapses(o)
  BY <1>4 DEF GraceElapses
<1>5. QED
  BY <1>1, <1>2, <1>3, <1>4 DEF Environment

(* A crash makes its handler idle and changes no row.                      *)
LEMMA TypeCrash ==
  ASSUME TypeOK, NEW w \in Workers, Crash(w)
  PROVE  TypeOK'
BY ConstantsAssumption
   DEF TypeOK, Crash, Labels, Operations, row, benefit, provider, history, At, Finish, Fault

(* Every reachable state is well typed; in particular a handler that is    *)
(* not idle works on an existing order id and the fault budget is kept.    *)
THEOREM TypeCorrect == Spec => []TypeOK
<1>1. Init => TypeOK
  BY ConstantsAssumption DEF Init, TypeOK, Labels, Operations, OrderStatuses
<1>2. TypeOK /\ [Next]_vars => TypeOK'
  <2> SUFFICES ASSUME TypeOK, [Next]_vars PROVE TypeOK'
    OBVIOUS
  <2>1. ASSUME NEW w \in Workers, Step(w) PROVE TypeOK'
    BY <2>1, TypeStep
  <2>2. ASSUME NEW w \in Workers, Crash(w) PROVE TypeOK'
    BY <2>2, TypeCrash
  <2>3. ASSUME NEW w \in Workers, NEW o \in Orders, Begin(w, o) PROVE TypeOK'
    BY <2>3, TypeBegin
  <2>4. ASSUME NEW o \in Orders, Environment(o) PROVE TypeOK'
    BY <2>4, TypeEnvironment
  <2>5. CASE UNCHANGED vars
    BY <2>5 DEF vars, row, benefit, provider, worker, history, TypeOK
  <2>6. QED
    BY <2>1, <2>2, <2>3, <2>4, <2>5 DEF Next
<1>3. QED
  BY <1>1, <1>2, PTL DEF Spec

-----------------------------------------------------------------------------
(* The parts of IndInv beside the types.                                   *)
Consistent ==
    /\ \A o \in Orders : OrderInv(o)
    /\ \A w \in Workers : WorkerInv(w)
    /\ SingleFulfiller
    /\ SingleCreator

(* A step of a handler keeps them.                                         *)
LEMMA ConsistentStep ==
  ASSUME IndInv, TypeOK', NEW w \in Workers, Step(w)
  PROVE  Consistent'
<1> USE ConstantsAssumption
    DEF IndInv, TypeOK, OrderInv, IsPaid, Covered, WorkerInv, Creating, Fulfilling,
        row, benefit, provider, worker, history, At, Goto, Finish, Return, Fault, NoFault
<1>1. CASE CheckLimits(w)
  <2>1. \A p \in Orders : OrderInv(p)'
    BY <1>1 DEF CheckLimits, SingleCreator
  <2>2. \A v \in Workers : WorkerInv(v)'
    BY <1>1 DEF CheckLimits, SingleFulfiller, SingleCreator
  <2>3. SingleFulfiller' /\ SingleCreator'
    BY <1>1 DEF CheckLimits, SingleFulfiller, SingleCreator
  <2>4. QED
    BY <2>1, <2>2, <2>3 DEF Consistent
<1>2. CASE InsertOrder(w)
  <2>1. \A p \in Orders : OrderInv(p)'
    BY <1>2 DEF InsertOrder, CAS, SingleCreator
  <2>2. \A v \in Workers : WorkerInv(v)'
    BY <1>2 DEF InsertOrder, CAS, SingleFulfiller, SingleCreator
  <2>3. SingleFulfiller' /\ SingleCreator'
    BY <1>2 DEF InsertOrder, CAS, SingleFulfiller, SingleCreator
  <2>4. QED
    BY <2>1, <2>2, <2>3 DEF Consistent
<1>3. CASE InvokeProvider(w)
  <2>1. \A p \in Orders : OrderInv(p)'
    BY <1>3 DEF InvokeProvider, SingleCreator
  <2>2. \A v \in Workers : WorkerInv(v)'
    BY <1>3 DEF InvokeProvider, SingleFulfiller, SingleCreator
  <2>3. SingleFulfiller' /\ SingleCreator'
    BY <1>3 DEF InvokeProvider, SingleFulfiller, SingleCreator
  <2>4. QED
    BY <2>1, <2>2, <2>3 DEF Consistent
<1>4. CASE SavePayment(w)
  <2>1. \A p \in Orders : OrderInv(p)'
    BY <1>4 DEF SavePayment, SingleCreator
  <2>2. \A v \in Workers : WorkerInv(v)'
    BY <1>4 DEF SavePayment, SingleFulfiller, SingleCreator
  <2>3. SingleFulfiller' /\ SingleCreator'
    BY <1>4 DEF SavePayment, SingleFulfiller, SingleCreator
  <2>4. QED
    BY <2>1, <2>2, <2>3 DEF Consistent
<1>5. CASE CreateFailed(w)
  <2>1. \A p \in Orders : OrderInv(p)'
    BY <1>5 DEF CreateFailed, CAS, SingleCreator
  <2>2. \A v \in Workers : WorkerInv(v)'
    BY <1>5 DEF CreateFailed, CAS, SingleFulfiller, SingleCreator
  <2>3. SingleFulfiller' /\ SingleCreator'
    BY <1>5 DEF CreateFailed, CAS, SingleFulfiller, SingleCreator
  <2>4. QED
    BY <2>1, <2>2, <2>3 DEF Consistent
<1>6. CASE QueryOrder(w)
  <2>1. \A p \in Orders : OrderInv(p)'
    BY <1>6 DEF QueryOrder, AfterCheckPaid, IsPaid, SingleCreator
  <2>2. \A v \in Workers : WorkerInv(v)'
    BY <1>6 DEF QueryOrder, AfterCheckPaid, IsPaid, SingleFulfiller, SingleCreator
  <2>3. SingleFulfiller' /\ SingleCreator'
    BY <1>6 DEF QueryOrder, AfterCheckPaid, IsPaid, SingleFulfiller, SingleCreator
  <2>4. QED
    BY <2>1, <2>2, <2>3 DEF Consistent
<1>7. CASE CancelPayment(w)
  <2>1. \A p \in Orders : OrderInv(p)'
    BY <1>7 DEF CancelPayment, AfterCheckPaid, SingleCreator
  <2>2. \A v \in Workers : WorkerInv(v)'
    BY <1>7 DEF CancelPayment, AfterCheckPaid, SingleFulfiller, SingleCreator
  <2>3. SingleFulfiller' /\ SingleCreator'
    BY <1>7 DEF CancelPayment, AfterCheckPaid, SingleFulfiller, SingleCreator
  <2>4. QED
    BY <2>1, <2>2, <2>3 DEF Consistent
<1>8. CASE SetStatus(w)
  <2>1. \A p \in Orders : OrderInv(p)'
    BY <1>8 DEF SetStatus, CAS, FinalStatus, SingleCreator
  <2>2. \A v \in Workers : WorkerInv(v)'
    BY <1>8 DEF SetStatus, CAS, FinalStatus, SingleFulfiller, SingleCreator
  <2>3. SingleFulfiller' /\ SingleCreator'
    BY <1>8 DEF SetStatus, CAS, FinalStatus, SingleFulfiller, SingleCreator
  <2>4. QED
    BY <2>1, <2>2, <2>3 DEF Consistent
<1>9. CASE ConfirmPayment(w)
  <2>1. \A p \in Orders : OrderInv(p)'
    BY <1>9, ConfirmPaymentCases DEF SingleCreator
  <2>2. \A v \in Workers : WorkerInv(v)'
    BY <1>9, ConfirmPaymentCases DEF SingleFulfiller, SingleCreator
  <2>3. SingleFulfiller' /\ SingleCreator'
    BY <1>9, ConfirmPaymentCases DEF SingleFulfiller, SingleCreator
  <2>4. QED
    BY <2>1, <2>2, <2>3 DEF Consistent
<1>10. CASE ToPaid(w)
  <2>1. \A p \in Orders : OrderInv(p)'
    BY <1>10 DEF ToPaid, Payable, SingleCreator
  <2>2. \A v \in Workers : WorkerInv(v)'
    BY <1>10 DEF ToPaid, Payable, SingleFulfiller, SingleCreator
  <2>3. SingleFulfiller' /\ SingleCreator'
    BY <1>10 DEF ToPaid, Payable, SingleFulfiller, SingleCreator
  <2>4. QED
    BY <2>1, <2>2, <2>3 DEF Consistent
<1>11. CASE AlreadyProcessed(w)
  <2>1. \A p \in Orders : OrderInv(p)'
    BY <1>11 DEF AlreadyProcessed, SingleCreator
  <2>2. \A v \in Workers : WorkerInv(v)'
    BY <1>11 DEF AlreadyProcessed, SingleFulfiller, SingleCreator
  <2>3. SingleFulfiller' /\ SingleCreator'
    BY <1>11 DEF AlreadyProcessed, SingleFulfiller, SingleCreator
  <2>4. QED
    BY <2>1, <2>2, <2>3 DEF Consistent
<1>12. CASE ResetForRetry(w)
  <2>1. \A p \in Orders : OrderInv(p)'
    BY <1>12 DEF ResetForRetry, CAS, SingleCreator
  <2>2. \A v \in Workers : WorkerInv(v)'
    BY <1>12 DEF ResetForRetry, CAS, SingleFulfiller, SingleCreator
  <2>3. SingleFulfiller' /\ SingleCreator'
    BY <1>12 DEF ResetForRetry, CAS, SingleFulfiller, SingleCreator
  <2>4. QED
    BY <2>1, <2>2, <2>3 DEF Consistent
<1>13. CASE ExecuteFulfillment(w)
  <2>1. \A p \in Orders : OrderInv(p)'
    BY <1>13 DEF ExecuteFulfillment, SingleCreator
  <2>2. \A v \in Workers : WorkerInv(v)'
    BY <1>13 DEF ExecuteFulfillment, SingleFulfiller, SingleCreator
  <2>3. SingleFulfiller' /\ SingleCreator'
    BY <1>13 DEF ExecuteFulfillment, SingleFulfiller, SingleCreator
  <2>4. QED
    BY <2>1, <2>2, <2>3 DEF Consistent
<1>14. CASE Lock(w)
  <2>1. \A p \in Orders : OrderInv(p)'
    BY <1>14 DEF Lock, CAS, SingleCreator
  <2>2. \A v \in Workers : WorkerInv(v)'
    BY <1>14 DEF Lock, CAS, SingleFulfiller, SingleCreator
  <2>3. SingleFulfiller' /\ SingleCreator'
    BY <1>14 DEF Lock, CAS, SingleFulfiller, SingleCreator
  <2>4. QED
    BY <2>1, <2>2, <2>3 DEF Consistent
<1>15. CASE DoBalance(w)
  <2>1. \A p \in Orders : OrderInv(p)'
    BY <1>15 DEF DoBalance, ResolveRedeemAction, SingleCreator
  <2>2. \A v \in Workers : WorkerInv(v)'
    BY <1>15 DEF DoBalance, ResolveRedeemAction, SingleFulfiller, SingleCreator
  <2>3. SingleFulfiller' /\ SingleCreator'
    BY <1>15 DEF DoBalance, ResolveRedeemAction, SingleFulfiller, SingleCreator
  <2>4. QED
    BY <2>1, <2>2, <2>3 DEF Consistent
<1>16. CASE CreateCode(w)
  <2>1. \A p \in Orders : OrderInv(p)'
    BY <1>16 DEF CreateCode, SingleCreator
  <2>2. \A v \in Workers : WorkerInv(v)'
    BY <1>16 DEF CreateCode, SingleFulfiller, SingleCreator
  <2>3. SingleFulfiller' /\ SingleCreator'
    BY <1>16 DEF CreateCode, SingleFulfiller, SingleCreator
  <2>4. QED
    BY <2>1, <2>2, <2>3 DEF Consistent
<1>17. CASE Redeem(w)
  <2>1. \A p \in Orders : OrderInv(p)'
    BY <1>17 DEF Redeem, UseCode, SingleCreator
  <2>2. \A v \in Workers : WorkerInv(v)'
    BY <1>17 DEF Redeem, UseCode, SingleFulfiller, SingleCreator
  <2>3. SingleFulfiller' /\ SingleCreator'
    BY <1>17 DEF Redeem, UseCode, SingleFulfiller, SingleCreator
  <2>4. QED
    BY <2>1, <2>2, <2>3 DEF Consistent
<1>18. CASE DoSub(w)
  <2>1. \A p \in Orders : OrderInv(p)'
    BY <1>18 DEF DoSub, HasAuditLog, SingleCreator
  <2>2. \A v \in Workers : WorkerInv(v)'
    BY <1>18 DEF DoSub, HasAuditLog, SingleFulfiller, SingleCreator
  <2>3. SingleFulfiller' /\ SingleCreator'
    BY <1>18 DEF DoSub, HasAuditLog, SingleFulfiller, SingleCreator
  <2>4. QED
    BY <2>1, <2>2, <2>3 DEF Consistent
<1>19. CASE Assign(w)
  <2>1. \A p \in Orders : OrderInv(p)'
    BY <1>19 DEF Assign, SingleCreator
  <2>2. \A v \in Workers : WorkerInv(v)'
    BY <1>19 DEF Assign, SingleFulfiller, SingleCreator
  <2>3. SingleFulfiller' /\ SingleCreator'
    BY <1>19 DEF Assign, SingleFulfiller, SingleCreator
  <2>4. QED
    BY <2>1, <2>2, <2>3 DEF Consistent
<1>20. CASE RecordCommission(w)
  <2>1. \A p \in Orders : OrderInv(p)'
    BY <1>20 DEF RecordCommission, SingleCreator
  <2>2. \A v \in Workers : WorkerInv(v)'
    BY <1>20 DEF RecordCommission, SingleFulfiller, SingleCreator
  <2>3. SingleFulfiller' /\ SingleCreator'
    BY <1>20 DEF RecordCommission, SingleFulfiller, SingleCreator
  <2>4. QED
    BY <2>1, <2>2, <2>3 DEF Consistent
<1>21. CASE MarkCompleted(w)
  <2>1. \A p \in Orders : OrderInv(p)'
    BY <1>21 DEF MarkCompleted, CAS, SingleCreator
  <2>2. \A v \in Workers : WorkerInv(v)'
    BY <1>21 DEF MarkCompleted, CAS, SingleFulfiller, SingleCreator
  <2>3. SingleFulfiller' /\ SingleCreator'
    BY <1>21 DEF MarkCompleted, CAS, SingleFulfiller, SingleCreator
  <2>4. QED
    BY <2>1, <2>2, <2>3 DEF Consistent
<1>22. CASE AuditLog(w)
  <2>1. \A p \in Orders : OrderInv(p)'
    BY <1>22 DEF AuditLog, SingleCreator
  <2>2. \A v \in Workers : WorkerInv(v)'
    BY <1>22 DEF AuditLog, SingleFulfiller, SingleCreator
  <2>3. SingleFulfiller' /\ SingleCreator'
    BY <1>22 DEF AuditLog, SingleFulfiller, SingleCreator
  <2>4. QED
    BY <2>1, <2>2, <2>3 DEF Consistent
<1>23. CASE MarkFailed(w)
  <2>1. \A p \in Orders : OrderInv(p)'
    BY <1>23 DEF MarkFailed, CAS, SingleCreator
  <2>2. \A v \in Workers : WorkerInv(v)'
    BY <1>23 DEF MarkFailed, CAS, SingleFulfiller, SingleCreator
  <2>3. SingleFulfiller' /\ SingleCreator'
    BY <1>23 DEF MarkFailed, CAS, SingleFulfiller, SingleCreator
  <2>4. QED
    BY <2>1, <2>2, <2>3 DEF Consistent
<1>24. CASE DeleteCode(w)
  <2>1. \A p \in Orders : OrderInv(p)'
    BY <1>24 DEF DeleteCode, SingleCreator
  <2>2. \A v \in Workers : WorkerInv(v)'
    BY <1>24 DEF DeleteCode, SingleFulfiller, SingleCreator
  <2>3. SingleFulfiller' /\ SingleCreator'
    BY <1>24 DEF DeleteCode, SingleFulfiller, SingleCreator
  <2>4. QED
    BY <2>1, <2>2, <2>3 DEF Consistent
<1>25. QED
  BY <1>1, <1>2, <1>3, <1>4, <1>5, <1>6, <1>7, <1>8, <1>9, <1>10, <1>11, <1>12, <1>13, <1>14, <1>15, <1>16, <1>17, <1>18, <1>19, <1>20, <1>21, <1>22, <1>23, <1>24 DEF Step

(* So does the start of a handler.                                         *)
LEMMA ConsistentBegin ==
  ASSUME IndInv, TypeOK', NEW w \in Workers, NEW o \in Orders, Begin(w, o)
  PROVE  Consistent'
<1> USE ConstantsAssumption
    DEF IndInv, TypeOK, OrderInv, IsPaid, Covered, WorkerInv, Creating, Fulfilling,
        row, benefit, provider, worker, history, At, Start, Fault, NoFault
<1>1. CASE CreateOrder(w, o)
  <2>1. \A p \in Orders : OrderInv(p)'
    BY <1>1 DEF CreateOrder, SingleCreator
  <2>2. \A v \in Workers : WorkerInv(v)'
    BY <1>1 DEF CreateOrder, SingleFulfiller, SingleCreator
  <2>3. SingleFulfiller' /\ SingleCreator'
    BY <1>1 DEF CreateOrder, SingleFulfiller, SingleCreator
  <2>4. QED
    BY <2>1, <2>2, <2>3 DEF Consistent
<1>2. CASE HandleNotify(w, o)
  <2>1. \A p \in Orders : OrderInv(p)'
    BY <1>2 DEF HandleNotify, SingleCreator
  <2>2. \A v \in Workers : WorkerInv(v)'
    BY <1>2 DEF HandleNotify, SingleFulfiller, SingleCreator
  <2>3. SingleFulfiller' /\ SingleCreator'
    BY <1>2 DEF HandleNotify, SingleFulfiller, SingleCreator
  <2>4. QED
    BY <2>1, <2>2, <2>3 DEF Consistent
<1>3. CASE VerifyOrder(w, o)
  <2>1. \A p \in Orders : OrderInv(p)'
    BY <1>3 DEF VerifyOrder, SingleCreator
  <2>2. \A v \in Workers : WorkerInv(v)'
    BY <1>3 DEF VerifyOrder, SingleFulfiller, SingleCreator
  <2>3. SingleFulfiller' /\ SingleCreator'
    BY <1>3 DEF VerifyOrder, SingleFulfiller, SingleCreator
  <2>4. QED
    BY <2>1, <2>2, <2>3 DEF Consistent
<1>4. CASE CancelOrder(w, o)
  <2>1. \A p \in Orders : OrderInv(p)'
    BY <1>4 DEF CancelOrder, SingleCreator
  <2>2. \A v \in Workers : WorkerInv(v)'
    BY <1>4 DEF CancelOrder, SingleFulfiller, SingleCreator
  <2>3. SingleFulfiller' /\ SingleCreator'
    BY <1>4 DEF CancelOrder, SingleFulfiller, SingleCreator
  <2>4. QED
    BY <2>1, <2>2, <2>3 DEF Consistent
<1>5. CASE ExpireOrder(w, o)
  <2>1. \A p \in Orders : OrderInv(p)'
    BY <1>5 DEF ExpireOrder, SingleCreator
  <2>2. \A v \in Workers : WorkerInv(v)'
    BY <1>5 DEF ExpireOrder, SingleFulfiller, SingleCreator
  <2>3. SingleFulfiller' /\ SingleCreator'
    BY <1>5 DEF ExpireOrder, SingleFulfiller, SingleCreator
  <2>4. QED
    BY <2>1, <2>2, <2>3 DEF Consistent
<1>6. CASE RetryFulfillment(w, o)
  <2>1. \A p \in Orders : OrderInv(p)'
    BY <1>6 DEF RetryFulfillment, SingleCreator
  <2>2. \A v \in Workers : WorkerInv(v)'
    BY <1>6 DEF RetryFulfillment, SingleFulfiller, SingleCreator
  <2>3. SingleFulfiller' /\ SingleCreator'
    BY <1>6 DEF RetryFulfillment, SingleFulfiller, SingleCreator
  <2>4. QED
    BY <2>1, <2>2, <2>3 DEF Consistent
<1>7. CASE DeleteRedeemCode(w, o)
  <2>1. \A p \in Orders : OrderInv(p)'
    BY <1>7 DEF DeleteRedeemCode, SingleCreator
  <2>2. \A v \in Workers : WorkerInv(v)'
    BY <1>7 DEF DeleteRedeemCode, SingleFulfiller, SingleCreator
  <2>3. SingleFulfiller' /\ SingleCreator'
    BY <1>7 DEF DeleteRedeemCode, SingleFulfiller, SingleCreator
  <2>4. QED
    BY <2>1, <2>2, <2>3 DEF Consistent
<1>8. QED
  BY <1>1, <1>2, <1>3, <1>4, <1>5, <1>6, <1>7 DEF Begin

(* So do the user, time and a crash.                                       *)
LEMMA ConsistentEnvironment ==
  ASSUME IndInv, TypeOK', NEW o \in Orders, Environment(o)
  PROVE  Consistent'
<1> USE DEF IndInv, TypeOK, OrderInv, IsPaid, Covered, WorkerInv, Creating, Fulfilling,
        row, benefit, provider, worker, history
<1>1. CASE Pay(o)
  <2>1. \A p \in Orders : OrderInv(p)'
    BY <1>1 DEF Pay, SingleCreator
  <2>2. \A v \in Workers : WorkerInv(v)'
    BY <1>1 DEF Pay, SingleFulfiller, SingleCreator
  <2>3. SingleFulfiller' /\ SingleCreator'
    BY <1>1 DEF Pay, SingleFulfiller, SingleCreator
  <2>4. QED
    BY <2>1, <2>2, <2>3 DEF Consistent
<1>2. CASE RedeemByUser(o)
  <2>1. \A p \in Orders : OrderInv(p)'
    BY <1>2 DEF RedeemByUser, UseCode, SingleCreator
  <2>2. \A v \in Workers : WorkerInv(v)'
    BY <1>2 DEF RedeemByUser, UseCode, SingleFulfiller, SingleCreator
  <2>3. SingleFulfiller' /\ SingleCreator'
    BY <1>2 DEF RedeemByUser, UseCode, SingleFulfiller, SingleCreator
  <2>4. QED
    BY <2>1, <2>2, <2>3 DEF Consistent
<1>3. CASE Timeout(o)
  <2>1. \A p \in Orders : OrderInv(p)'
    BY <1>3 DEF Timeout, SingleCreator
  <2>2. \A v \in Workers : WorkerInv(v)'
    BY <1>3 DEF Timeout, SingleFulfiller, SingleCreator
  <2>3. SingleFulfiller' /\ SingleCreator'
    BY <1>3 DEF Timeout, SingleFulfiller, SingleCreator
  <2>4. QED
    BY <2>1, <2>2, <2>3 DEF Consistent
<1>4. CASE GraceElapses(o)
  <2>1. \A p \in Orders : OrderInv(p)'
    BY <1>4 DEF GraceElapses, SingleCreator
  <2>2. \A v \in Workers : WorkerInv(v)'
    BY <1>4 DEF GraceElapses, SingleFulfiller, SingleCreator
  <2>3. SingleFulfiller' /\ SingleCreator'
    BY <1>4 DEF GraceElapses, SingleFulfiller, SingleCreator
  <2>4. QED
    BY <2>1, <2>2, <2>3 DEF Consistent
<1>5. QED
  BY <1>1, <1>2, <1>3, <1>4 DEF Environment

(* A crash keeps them: nothing in them depends on a handler going on.      *)
LEMMA ConsistentCrash ==
  ASSUME IndInv, TypeOK', NEW w \in Workers, Crash(w)
  PROVE  Consistent'
<1> USE ConstantsAssumption
    DEF IndInv, TypeOK, OrderInv, IsPaid, Covered, WorkerInv, Creating, Fulfilling,
        row, benefit, provider, history, Crash, At, Finish, Fault
<1>1. \A p \in Orders : OrderInv(p)'
  OBVIOUS
<1>2. \A v \in Workers : WorkerInv(v)'
  OBVIOUS
<1>3. SingleFulfiller' /\ SingleCreator'
  BY DEF SingleFulfiller, SingleCreator
<1>4. QED
  BY <1>1, <1>2, <1>3 DEF Consistent

(* IndInv is inductive.                                                    *)
THEOREM Invariance == Spec => []IndInv
<1>1. Init => IndInv
  <2> SUFFICES ASSUME Init PROVE IndInv
    OBVIOUS
  <2>1. TypeOK
    BY ConstantsAssumption DEF Init, TypeOK, Labels, Operations, OrderStatuses
  <2>2. \A o \in Orders : OrderInv(o)
    BY DEF Init, OrderInv, IsPaid
  <2>3. \A w \in Workers : WorkerInv(w)
    BY DEF Init, WorkerInv, Creating, Fulfilling
  <2>4. SingleFulfiller /\ SingleCreator
    BY DEF Init, SingleFulfiller, SingleCreator, Creating, Fulfilling
  <2>5. QED
    BY <2>1, <2>2, <2>3, <2>4 DEF IndInv
<1>2. IndInv /\ TypeOK' /\ [Next]_vars => IndInv'
  <2> SUFFICES ASSUME IndInv, TypeOK', [Next]_vars PROVE Consistent'
    BY DEF IndInv, Consistent
  <2>1. ASSUME NEW w \in Workers, Step(w) PROVE Consistent'
    BY <2>1, ConsistentStep
  <2>2. ASSUME NEW w \in Workers, Crash(w) PROVE Consistent'
    BY <2>2, ConsistentCrash
  <2>3. ASSUME NEW w \in Workers, NEW o \in Orders, Begin(w, o) PROVE Consistent'
    BY <2>3, ConsistentBegin
  <2>4. ASSUME NEW o \in Orders, Environment(o) PROVE Consistent'
    BY <2>4, ConsistentEnvironment
  <2>5. CASE UNCHANGED vars
    BY <2>5 DEF vars, row, benefit, provider, worker, history, IndInv, Consistent, OrderInv, IsPaid, Covered, WorkerInv,
                SingleFulfiller, SingleCreator
  <2>6. QED
    BY <2>1, <2>2, <2>3, <2>4, <2>5 DEF Next
<1>3. QED
  BY <1>1, <1>2, TypeCorrect, PTL DEF Spec

-----------------------------------------------------------------------------
(* The conditional update to RECHARGING admits one fulfiller at a time.    *)
THEOREM FulfilmentIsExclusive == Spec => []SingleFulfiller
<1>1. IndInv => SingleFulfiller
  BY DEF IndInv
<1>2. QED
  BY <1>1, Invariance, PTL

(* A balance order is credited at most once, whatever fails and however    *)
(* often it is confirmed or retried.                                       *)
THEOREM CreditedAtMostOnce == Spec => []BalanceCreditedOnce
<1>1. IndInv => BalanceCreditedOnce
  BY DEF IndInv, OrderInv, BalanceCreditedOnce
<1>2. QED
  BY <1>1, Invariance, PTL

(* COMPLETED orders have been credited.                                    *)
THEOREM CompletedOrdersAreCredited == Spec => []CompletedIsCredited
<1>1. IndInv => CompletedIsCredited
  BY DEF IndInv, OrderInv, CompletedIsCredited
<1>2. QED
  BY <1>1, Invariance, PTL

(* Credits are backed by a payment at the provider, of the right amount    *)
(* wherever the provider reports amounts.                                  *)
THEOREM CreditsArePaidFor == Spec => []CreditRequiresPayment
<1>1. IndInv => CreditRequiresPayment
  BY DEF IndInv, OrderInv, CreditRequiresPayment
<1>2. QED
  BY <1>1, Invariance, PTL

(* A paid order never goes back to a status that hides the payment.        *)
THEOREM PaymentIsNotForgotten == Spec => []PaidStaysPaid
<1>1. IndInv => PaidStaysPaid
  BY DEF IndInv, TypeOK, OrderInv, PaidStaysPaid
<1>2. QED
  BY <1>1, Invariance, PTL

-----------------------------------------------------------------------------
(* A step of a handler leaves a COMPLETED order COMPLETED: the writes of   *)
(* the status are conditional, but for that of a failed creation, which    *)
(* leaves its mark in reopened.                                            *)
LEMMA CompletedStep ==
  ASSUME IndInv, NEW w \in Workers, Step(w),
         NEW o \in Orders \ reopened', status[o] = "COMPLETED"
  PROVE  status'[o] = "COMPLETED"
<1> USE DEF IndInv, TypeOK, row
<1>1. CASE InsertOrder(w)
  BY <1>1 DEF InsertOrder, CAS
<1>2. CASE CreateFailed(w)
  BY <1>2 DEF CreateFailed, CAS, OrderInv, WorkerInv, At, Creating
<1>3. CASE SetStatus(w)
  BY <1>3 DEF SetStatus, CAS
<1>4. CASE ToPaid(w)
  BY <1>4 DEF ToPaid, Payable
<1>5. CASE ResetForRetry(w)
  BY <1>5 DEF ResetForRetry, CAS
<1>6. CASE Lock(w)
  BY <1>6 DEF Lock, CAS
<1>7. CASE MarkCompleted(w)
  BY <1>7 DEF MarkCompleted, CAS, At
<1>8. CASE MarkFailed(w)
  BY <1>8 DEF MarkFailed, CAS, At
<1>9. CASE \/ CheckLimits(w) \/ InvokeProvider(w) \/ SavePayment(w) \/ QueryOrder(w)
           \/ CancelPayment(w) \/ ConfirmPayment(w) \/ AlreadyProcessed(w) \/ ExecuteFulfillment(w)
           \/ DoBalance(w) \/ CreateCode(w) \/ Redeem(w) \/ DoSub(w)
           \/ Assign(w) \/ RecordCommission(w) \/ AuditLog(w) \/ DeleteCode(w)
  BY <1>9 DEF CheckLimits, InvokeProvider, SavePayment, QueryOrder, CancelPayment, ConfirmPayment, AlreadyProcessed, ExecuteFulfillment, DoBalance, CreateCode, Redeem, DoSub, Assign, RecordCommission, AuditLog, DeleteCode
<1>10. QED
  BY <1>1, <1>2, <1>3, <1>4, <1>5, <1>6, <1>7, <1>8, <1>9 DEF Step

(* Nothing in this part of the service takes an order out of COMPLETED but *)
(* a creation that fails after its payment details were stored.            *)
THEOREM CompletedOrdersStay == Spec => CompletedIsFinal
<1>1. IndInv /\ [Next]_vars =>
        [\A o \in Orders \ reopened' :
            status[o] = "COMPLETED" => status'[o] = "COMPLETED"]_vars
  <2> SUFFICES ASSUME IndInv, Next,
                      NEW o \in Orders \ reopened', status[o] = "COMPLETED"
               PROVE  status'[o] = "COMPLETED"
    OBVIOUS
  <2>1. ASSUME NEW w \in Workers, Step(w) PROVE status'[o] = "COMPLETED"
    BY <2>1, CompletedStep
  <2>2. ASSUME NEW w \in Workers, Crash(w) PROVE status'[o] = "COMPLETED"
    BY <2>2 DEF Crash, row
  <2>3. ASSUME NEW w \in Workers, NEW p \in Orders, Begin(w, p) PROVE status'[o] = "COMPLETED"
    BY <2>3 DEF Begin, CreateOrder, HandleNotify, VerifyOrder, CancelOrder, ExpireOrder,
                RetryFulfillment, DeleteRedeemCode, row
  <2>4. ASSUME NEW p \in Orders, Environment(p) PROVE status'[o] = "COMPLETED"
    BY <2>4 DEF Environment, Pay, RedeemByUser, Timeout, GraceElapses, row
  <2>5. QED
    BY <2>1, <2>2, <2>3, <2>4 DEF Next
<1>2. QED
  BY <1>1, Invariance, PTL DEF Spec, CompletedIsFinal

-----------------------------------------------------------------------------
(* The three steps of the ledger, seen in the code: the user's payment ... *)
LEMMA PayReceives ==
  ASSUME IndInv, NEW o \in Orders, Pay(o)
  PROVE  [Ledger!Next]_(Ledger!ledger)
<1> USE DEF IndInv, TypeOK, BalanceOrders, Covered, Pay, row, benefit,
            Ledger!Next, Ledger!Receive, Ledger!ledger
<1>1. CASE o \in SubOrders \/ ~Covered(o)'
  BY <1>1
<1>2. CASE o \notin SubOrders /\ Covered(o)'
  <2>1. Ledger!Receive(o)
    BY <1>2
  <2>2. QED
    BY <1>2, <2>1
<1>3. QED
  BY <1>1, <1>2

(* ... the transaction of Redeem, by the fulfiller or by the user ...      *)
LEMMA UseCodeGrants ==
  ASSUME IndInv, deleted = {}, NEW o \in Orders, UseCode(o), UNCHANGED <<status, upstream>>
  PROVE  [Ledger!Next]_(Ledger!ledger)
<1> USE DEF IndInv, TypeOK, OrderInv, BalanceOrders, Covered, UseCode, Ledger!Next, Ledger!Grant, Ledger!ledger
<1>1. CASE o \in SubOrders
  BY <1>1
<1>2. CASE o \notin SubOrders
  <2>1. o \in BalanceOrders /\ Covered(o) /\ credits[o] = 0
    BY <1>2
  <2>2. credits' = [credits EXCEPT ![o] = 1]
    BY <2>1
  <2>3. [p \in BalanceOrders |-> credits'[p]]
          = [[p \in BalanceOrders |-> credits[p]] EXCEPT ![o] = 1]
    BY <2>1, <2>2
  <2>4. Ledger!Grant(o)
    BY <2>1, <2>3
  <2>5. QED
    BY <2>1, <2>4
<1>3. QED
  BY <1>1, <1>2

(* ... and the update to COMPLETED.                                        *)
LEMMA MarkCompletedCompletes ==
  ASSUME IndInv, deleted = {}, NEW w \in Workers, MarkCompleted(w)
  PROVE  [Ledger!Next]_(Ledger!ledger)
<1> DEFINE o == on[w]
<1> USE DEF IndInv, TypeOK, OrderInv, WorkerInv, Fulfilling, BalanceOrders, Covered, MarkCompleted, CAS, At,
            benefit, provider, Ledger!Next, Ledger!Complete, Ledger!ledger
<1>1. o \in Orders /\ credits[o] > 0
  OBVIOUS
<1>2. CASE UNCHANGED status
  BY <1>2
<1>3. CASE status' = [status EXCEPT ![o] = "COMPLETED"] /\ o \in SubOrders
  BY <1>1, <1>3
<1>4. CASE status' = [status EXCEPT ![o] = "COMPLETED"] /\ o \notin SubOrders
  <2>1. credits[o] = 1
    BY <1>1, <1>4
  <2>2. Ledger!Complete(o)
    BY <1>1, <1>4, <2>1
  <2>3. QED
    BY <1>1, <1>4, <2>2
<1>5. QED
  BY <1>1, <1>2, <1>3, <1>4

(* Every other step of a handler is invisible in the ledger.               *)
LEMMA SilentStep ==
  ASSUME IndInv, reopened' = {}, NEW w \in Workers, Step(w), ~Redeem(w), ~MarkCompleted(w)
  PROVE  UNCHANGED Ledger!ledger
<1> USE DEF IndInv, TypeOK, BalanceOrders, Covered, Ledger!ledger, row, benefit, provider, At
<1>1. CASE CheckLimits(w)
  BY <1>1 DEF CheckLimits
<1>2. CASE InsertOrder(w)
  BY <1>2 DEF InsertOrder, CAS
<1>3. CASE InvokeProvider(w)
  BY <1>3 DEF InvokeProvider, OrderInv, IsPaid, Covered, WorkerInv, Creating
<1>4. CASE SavePayment(w)
  BY <1>4 DEF SavePayment
<1>5. CASE CreateFailed(w)
  BY <1>5 DEF CreateFailed, CAS, OrderInv, IsPaid, Covered, WorkerInv, Creating, Return
<1>6. CASE QueryOrder(w)
  BY <1>6 DEF QueryOrder
<1>7. CASE CancelPayment(w)
  BY <1>7 DEF CancelPayment
<1>8. CASE SetStatus(w)
  BY <1>8 DEF SetStatus, CAS, FinalStatus, OrderInv
<1>9. CASE ConfirmPayment(w)
  BY <1>9 DEF ConfirmPayment, Return
<1>10. CASE ToPaid(w)
  BY <1>10 DEF ToPaid, Payable, Return
<1>11. CASE AlreadyProcessed(w)
  BY <1>11 DEF AlreadyProcessed, Return
<1>12. CASE ResetForRetry(w)
  BY <1>12 DEF ResetForRetry, CAS
<1>13. CASE ExecuteFulfillment(w)
  BY <1>13 DEF ExecuteFulfillment, Return
<1>14. CASE Lock(w)
  BY <1>14 DEF Lock, CAS, Return
<1>15. CASE DoBalance(w)
  BY <1>15 DEF DoBalance
<1>16. CASE CreateCode(w)
  BY <1>16 DEF CreateCode
<1>17. CASE DoSub(w)
  BY <1>17 DEF DoSub
<1>18. CASE Assign(w)
  BY <1>18 DEF Assign, WorkerInv
<1>19. CASE RecordCommission(w)
  BY <1>19 DEF RecordCommission
<1>20. CASE AuditLog(w)
  BY <1>20 DEF AuditLog, Return
<1>21. CASE MarkFailed(w)
  BY <1>21 DEF MarkFailed, CAS, Return
<1>22. CASE DeleteCode(w)
  BY <1>22 DEF DeleteCode
<1>23. QED
  BY <1>1, <1>2, <1>3, <1>4, <1>5, <1>6, <1>7, <1>8, <1>9, <1>10, <1>11, <1>12, <1>13, <1>14, <1>15, <1>16, <1>17, <1>18, <1>19, <1>20, <1>21, <1>22 DEF Step

(* The detailed specification implements the ledger: for every set of      *)
(* orders and handlers and any number of failures, a balance order is paid,*)
(* then credited once, then COMPLETED for good, until a redeem code is     *)
(* deleted or a failed creation reopens an order.                          *)
THEOREM Refinement == Spec => ImplementsLedger
<1>1. Init => Ledger!Init
  BY DEF Init, Ledger!Init, BalanceOrders, Covered
<1>2. IndInv /\ [Next]_vars
        => [reopened' = {} /\ deleted' = {} => Ledger!Next]_(Ledger!ledger)
  <2> SUFFICES ASSUME IndInv, [Next]_vars, reopened' = {}, deleted' = {}
               PROVE  [Ledger!Next]_(Ledger!ledger)
    OBVIOUS
  <2> deleted = {}
    <3>1. ASSUME NEW w \in Workers, Step(w) PROVE deleted \subseteq deleted'
      BY <3>1 DEF Step, CheckLimits, InsertOrder, InvokeProvider, SavePayment, CreateFailed,
                  QueryOrder, CancelPayment, SetStatus, ConfirmPayment, ToPaid, AlreadyProcessed,
                  ResetForRetry, ExecuteFulfillment, Lock, DoBalance, CreateCode, Redeem, DoSub,
                  Assign, RecordCommission, MarkCompleted, AuditLog, MarkFailed, DeleteCode,
                  Fault, NoFault, history
    <3>2. ASSUME NEW w \in Workers, Crash(w) PROVE deleted \subseteq deleted'
      BY <3>2 DEF Crash, Fault, history
    <3>3. ASSUME NEW w \in Workers, NEW o \in Orders, Begin(w, o) PROVE deleted \subseteq deleted'
      BY <3>3 DEF Begin, CreateOrder, HandleNotify, VerifyOrder, CancelOrder, ExpireOrder,
                  RetryFulfillment, DeleteRedeemCode, Fault, NoFault, history
    <3>4. ASSUME NEW o \in Orders, Environment(o) PROVE deleted \subseteq deleted'
      BY <3>4 DEF Environment, Pay, RedeemByUser, Timeout, GraceElapses, history
    <3>5. CASE UNCHANGED vars
      BY <3>5 DEF vars, history
    <3>6. QED
      BY <3>1, <3>2, <3>3, <3>4, <3>5 DEF Next
  <2>1. ASSUME NEW w \in Workers, Step(w) PROVE [Ledger!Next]_(Ledger!ledger)
    <3>1. CASE Redeem(w)
      <4>1. UNCHANGED <<status, upstream>> /\ on[w] \in Orders
        BY <3>1 DEF Redeem, row, provider, IndInv, TypeOK, At
      <4>2. CASE UseCode(on[w])
        BY <4>1, <4>2, UseCodeGrants
      <4>3. CASE UNCHANGED <<code, credits>>
        BY <4>1, <4>3 DEF Ledger!ledger, BalanceOrders, Covered
      <4>4. QED
        BY <3>1, <4>2, <4>3 DEF Redeem
    <3>2. CASE MarkCompleted(w)
      BY <3>2, MarkCompletedCompletes
    <3>3. CASE ~Redeem(w) /\ ~MarkCompleted(w)
      BY <2>1, <3>3, SilentStep
    <3>4. QED
      BY <3>1, <3>2, <3>3
  <2>2. ASSUME NEW w \in Workers, Crash(w) PROVE [Ledger!Next]_(Ledger!ledger)
    BY <2>2 DEF Crash, row, benefit, provider, Ledger!ledger, BalanceOrders, Covered
  <2>3. ASSUME NEW w \in Workers, NEW o \in Orders, Begin(w, o)
        PROVE  [Ledger!Next]_(Ledger!ledger)
    BY <2>3 DEF Begin, CreateOrder, HandleNotify, VerifyOrder, CancelOrder, ExpireOrder,
                RetryFulfillment, DeleteRedeemCode, row, benefit, provider,
                Ledger!ledger, BalanceOrders, Covered
  <2>4. ASSUME NEW o \in Orders, Environment(o) PROVE [Ledger!Next]_(Ledger!ledger)
    <3>1. CASE Pay(o)
      BY <3>1, PayReceives
    <3>2. CASE RedeemByUser(o)
      BY <3>2, UseCodeGrants DEF RedeemByUser, row, provider
    <3>3. CASE Timeout(o) \/ GraceElapses(o)
      BY <3>3 DEF Timeout, GraceElapses, benefit, provider, Ledger!ledger, BalanceOrders, Covered
    <3>4. QED
      BY <2>4, <3>1, <3>2, <3>3 DEF Environment
  <2>5. CASE UNCHANGED vars
    BY <2>5 DEF vars, row, benefit, provider, Ledger!ledger, BalanceOrders, Covered
  <2>6. QED
    BY <2>1, <2>2, <2>3, <2>4, <2>5 DEF Next
<1>3. QED
  BY <1>1, <1>2, Invariance, PTL DEF Spec, ImplementsLedger
=============================================================================
