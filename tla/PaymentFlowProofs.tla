------------------------- MODULE PaymentFlowProofs -------------------------
(***************************************************************************)
(* Proofs about PaymentFlow, for any payments and orders, any number of    *)
(* requests at the same time and any number of faults.                     *)
(***************************************************************************)
EXTENDS PaymentFlow, TLAPS

(* Whoever is in the middle of something is so for a payment. *)
TasksOK == \A t \in Task : task[t].pc # "idle" => task[t].payment \in Payment

TypeInv == TypeOK /\ TasksOK

USE PaymentOrders, MercadoPagoPayments, WorkerNotHandler, NoneNotPayment

LEMMA IdleType == Idle \in TaskState /\ Idle.pc = "idle"
  BY DEF Idle, TaskState, Pc, Event, Outcome

LEMMA RestTypes ==
  ASSUME TypeInv, NEW t \in Task, Rest(t)
  PROVE  task' \in [Task -> TaskState] /\ TasksOK'
  BY IdleType DEF TypeInv, TypeOK, TasksOK, Rest

LEMMA DoTypes ==
  ASSUME TypeInv, NEW t \in Task, task[t].pc # "idle", NEW pc \in Pc, Do(t, pc)
  PROVE  task' \in [Task -> TaskState] /\ TasksOK'
<1>1. task[t] \in TaskState /\ task[t].payment \in Payment
  BY DEF TypeInv, TypeOK, TasksOK
<1>2. task' = [task EXCEPT ![t] = [task[t] EXCEPT !.pc = pc]]
  BY DEF Do, TypeInv, TypeOK
<1>3. [task[t] EXCEPT !.pc = pc] \in TaskState
  BY <1>1 DEF TaskState
<1>4. task' \in [Task -> TaskState]
  BY <1>2, <1>3 DEF TypeInv, TypeOK
<1>5. TasksOK'
  BY <1>1, <1>2 DEF TypeInv, TypeOK, TasksOK, TaskState
<1> QED BY <1>4, <1>5

LEMMA LearnTypes ==
  ASSUME TypeInv, NEW t \in Task, task[t].pc # "idle", NEW result \in Outcome,
         Learn(t, result)
  PROVE  task' \in [Task -> TaskState] /\ TasksOK'
<1>1. task[t] \in TaskState /\ task[t].payment \in Payment
  BY DEF TypeInv, TypeOK, TasksOK
<1>2. CASE Drops(t, result)
  BY <1>2, RestTypes DEF Learn, Rest
<1>3. CASE ~Drops(t, result)
  <2>1. task' = [task EXCEPT ![t] = [task[t] EXCEPT !.pc = "apply", !.result = result]]
    BY <1>3 DEF Learn, TypeInv, TypeOK
  <2>2. [task[t] EXCEPT !.pc = "apply", !.result = result] \in TaskState
    BY <1>1 DEF TaskState, Pc
  <2>3. task' \in [Task -> TaskState]
    BY <2>1, <2>2 DEF TypeInv, TypeOK
  <2>4. TasksOK'
    BY <1>1, <2>1 DEF TypeInv, TypeOK, TasksOK, TaskState
  <2> QED BY <2>3, <2>4
<1> QED BY <1>2, <1>3

LEMMA AnswerType ==
  \A p, asks : Answer(p, asks) \subseteq Outcome /\ CommitResult(p) \in Outcome
<1>1. \A e : MapStatus(e) \in Outcome
  BY DEF MapStatus, Outcome
<1>2. "PROCESSING" \in Outcome
  BY DEF Outcome
<1>3. \A p, asks : Answer(p, asks) \subseteq Outcome
  BY <1>1, <1>2 DEF Answer
<1>4. \A p : CommitResult(p) \in Outcome
  BY DEF CommitResult, Outcome
<1> QED BY <1>3, <1>4

(* Mercado Pago answers COMPLETED only of an approved attempt. *)
LEMMA AnswerIsReal ==
  ASSUME NEW p, NEW asks, "COMPLETED" \in Answer(p, asks)
  PROVE  "approved" \in books[p]
<1>1. \A e : MapStatus(e) = "COMPLETED" => e = "approved"
  BY DEF MapStatus
<1>2. CASE asks \in books[p]
  BY <1>1, <1>2 DEF Answer
<1>3. CASE asks \notin books[p]
  <2>1. PICK e \in Found(p) : MapStatus(e) = "COMPLETED"
    BY <1>3 DEF Answer
  <2> QED BY <1>1, <2>1 DEF Found
<1> QED BY <1>2, <1>3

LEMMA TypeInit == Init => TypeInv
<1> SUFFICES ASSUME Init PROVE TypeInv
  OBVIOUS
<1>1. TypeOK
  BY IdleType DEF Init, TypeOK, PaymentStatus, OrderStatus
<1>2. TasksOK
  BY IdleType DEF Init, TasksOK
<1> QED BY <1>1, <1>2 DEF TypeInv

LEMMA CanceledTypes ==
  ASSUME TypeInv, NEW o \in Order, Canceled(o)
  PROVE  order' \in [Order -> OrderStatus]
  BY DEF TypeInv, TypeOK, Canceled, OrderStatus

LEMMA TypeStep == TypeInv /\ [Next]_vars => TypeInv'
<1> SUFFICES ASSUME TypeInv, [Next]_vars PROVE TypeInv'
  OBVIOUS
<1> USE DEF TypeInv
<1>b. \A t \in Task : task[t].pc # "idle" => task[t] \in TaskState /\ task[t].payment \in Payment
  BY DEF TypeOK, TasksOK
<1>h. Worker \in Task /\ \A h \in Handler : h \in Task
  BY DEF Task
<1>1. ASSUME NEW h \in Handler, NEW p \in Payment, StartCheckout(h, p) PROVE TypeInv'
  <2>1. [Idle EXCEPT !.pc = "create", !.payment = p] \in TaskState
    BY DEF Idle, TaskState, Pc, Event, Outcome
  <2>2. TypeOK'
    BY <1>1, <1>h, <2>1 DEF TypeOK, StartCheckout
  <2>3. TasksOK'
    BY <1>1, <1>h DEF TypeOK, TasksOK, StartCheckout, Idle
  <2> QED BY <2>2, <2>3
<1>2. ASSUME NEW h \in Handler, InsertPayment(h) PROVE TypeInv'
  <2>1. task' \in [Task -> TaskState] /\ TasksOK'
    BY <1>2, <1>h, DoTypes DEF InsertPayment, Pc
  <2>2. TypeOK'
    BY <1>2, <1>b, <1>h, <2>1 DEF TypeOK, InsertPayment, PaymentStatus
  <2> QED BY <2>1, <2>2
<1>3. ASSUME NEW h \in Handler, Initiate(h) PROVE TypeInv'
  <2>1. task' \in [Task -> TaskState] /\ TasksOK'
    BY <1>3, <1>h, RestTypes DEF Initiate, Pc
  <2>2. TypeOK'
    BY <1>3, <1>b, <1>h, <2>1 DEF TypeOK, Initiate, PaymentStatus
  <2> QED BY <2>1, <2>2
<1>4. ASSUME NEW p \in Payment, NEW e \in Event, Attempt(p, e) PROVE TypeInv'
  BY <1>4, <1>b, <1>h, IdleType DEF TypeOK, TasksOK, Attempt
<1>5. ASSUME NEW p \in Payment, NEW e \in Event, FormEnds(p, e) PROVE TypeInv'
  BY <1>5, <1>b, <1>h, IdleType DEF TypeOK, TasksOK, FormEnds
<1>6. ASSUME NEW p \in Payment, PaymentAges(p) PROVE TypeInv'
  BY <1>6, <1>b, <1>h, IdleType DEF TypeOK, TasksOK, PaymentAges
<1>7. ASSUME NEW o \in Order, OrderAges(o) PROVE TypeInv'
  BY <1>7, <1>b, <1>h, IdleType DEF TypeOK, TasksOK, OrderAges
<1>8. ASSUME NEW h \in Handler, NEW p \in Payment, NEW asks \in Event \cup {"lookup", "commit"}, Return(h, p, asks) PROVE TypeInv'
  <2>1. [Idle EXCEPT !.pc = "ask", !.payment = p, !.read = payment[p], !.asks = asks]
          \in TaskState
    BY DEF TypeOK, Idle, TaskState, Pc, Event, Outcome
  <2>2. TypeOK'
    BY <1>8, <1>h, <2>1 DEF TypeOK, Return
  <2>3. TasksOK'
    BY <1>8, <1>h DEF TypeOK, TasksOK, Return, Idle
  <2> QED BY <2>2, <2>3
<1>9. ASSUME NEW h \in Handler, NEW p \in Payment, NEW e \in Event, Webhook(h, p, e) PROVE TypeInv'
  <2>1. [Idle EXCEPT !.pc = "ask", !.payment = p, !.read = payment[p], !.asks = e,
                     !.hook = TRUE] \in TaskState
    BY DEF TypeOK, Idle, TaskState, Pc, Event, Outcome
  <2>2. TypeOK'
    BY <1>9, <1>h, <2>1 DEF TypeOK, Webhook
  <2>3. TasksOK'
    BY <1>9, <1>h DEF TypeOK, TasksOK, Webhook, Idle
  <2> QED BY <2>2, <2>3
<1>10. ASSUME NEW h \in Handler, AskMercadoPago(h) PROVE TypeInv'
  <2>1. PICK r \in Outcome : task[h].pc # "idle" /\ Learn(h, r)
    BY <1>10, AnswerType DEF AskMercadoPago
  <2>2. task' \in [Task -> TaskState] /\ TasksOK'
    BY <1>h, <2>1, LearnTypes
  <2>3. TypeOK'
    BY <1>10, <1>b, <1>h, <2>2 DEF TypeOK, AskMercadoPago, Event
  <2> QED BY <2>2, <2>3
<1>11. ASSUME NEW h \in Handler, Commit(h) PROVE TypeInv'
  <2>1. task[h].pc # "idle" /\ Learn(h, CommitResult(task[h].payment)) /\ CommitResult(task[h].payment) \in Outcome
    BY <1>11, AnswerType DEF Commit, Outcome
  <2>2. task' \in [Task -> TaskState] /\ TasksOK'
    BY <1>h, <2>1, LearnTypes
  <2>3. TypeOK'
    BY <1>11, <1>b, <1>h, <2>2 DEF TypeOK, Commit, Event
  <2> QED BY <2>2, <2>3
<1>12. ASSUME NEW h \in Handler, CommitLost(h) PROVE TypeInv'
  <2>1. task[h].pc # "idle" /\ Learn(h, "FAILED") /\ "FAILED" \in Outcome
    BY <1>12, AnswerType DEF CommitLost, Outcome
  <2>2. task' \in [Task -> TaskState] /\ TasksOK'
    BY <1>h, <2>1, LearnTypes
  <2>3. TypeOK'
    BY <1>12, <1>b, <1>h, <2>2 DEF TypeOK, CommitLost, Event
  <2> QED BY <2>2, <2>3
<1>13. ASSUME NEW t \in Task, Apply(t) PROVE TypeInv'
  <2>1. task' \in [Task -> TaskState] /\ TasksOK'
    BY <1>13, DoTypes, RestTypes DEF Apply, Pc
  <2>2. task[t].result \in PaymentStatus
    BY <1>13, <1>b DEF Apply, TaskState, Outcome, PaymentStatus
  <2>3. TypeOK'
    BY <1>13, <1>b, <2>1, <2>2 DEF TypeOK, Apply
  <2> QED BY <2>1, <2>3
<1>14. ASSUME NEW t \in Task, MarkPaid(t) PROVE TypeInv'
  <2>1. task' \in [Task -> TaskState] /\ TasksOK'
    BY <1>14, DoTypes DEF MarkPaid, Pc
  <2>2. TypeOK'
    BY <1>14, <1>b, <2>1 DEF TypeOK, MarkPaid, OrderStatus
  <2> QED BY <2>1, <2>2
<1>15. ASSUME NEW t \in Task, QueueSale(t) PROVE TypeInv'
  <2>1. task' \in [Task -> TaskState] /\ TasksOK'
    BY <1>15, RestTypes DEF QueueSale
  <2>2. TypeOK'
    BY <1>15, <1>b, <2>1 DEF TypeOK, QueueSale
  <2> QED BY <2>1, <2>2
<1>16. ASSUME NEW t \in Task, AutoRefund(t) PROVE TypeInv'
  <2>1. task' \in [Task -> TaskState] /\ TasksOK'
    BY <1>16, RestTypes DEF AutoRefund
  <2>2. TypeOK'
    BY <1>16, <1>b, <2>1 DEF TypeOK, AutoRefund
  <2> QED BY <2>1, <2>2
<1>17. ASSUME NEW t \in Task, MarkCanceled(t) PROVE TypeInv'
  <2>1. task' \in [Task -> TaskState] /\ TasksOK'
    BY <1>17, RestTypes DEF MarkCanceled
  <2>2. TypeOK'
    BY <1>17, <1>b, <2>1, CanceledTypes DEF TypeOK, MarkCanceled
  <2> QED BY <2>1, <2>2
<1>18. CASE StartSweep
  BY <1>18, <1>b, <1>h, IdleType DEF TypeOK, TasksOK, StartSweep, Take, Unreconciled
<1>19. ASSUME NEW p \in Payment, AskNext(p) PROVE TypeInv'
  <2>3. PICK r \in Outcome :
          \/ task' = task
          \/ task' = [task EXCEPT ![Worker] = [Idle EXCEPT !.pc = "apply", !.payment = p,
                                                !.result = r]]
    BY <1>19, AnswerType DEF AskNext
  <2>1. [Idle EXCEPT !.pc = "apply", !.payment = p, !.result = r] \in TaskState
    BY DEF Idle, TaskState, Pc, Event
  <2>2. TypeOK'
    BY <1>19, <1>h, <2>1, <2>3 DEF TypeOK, AskNext
  <2> HIDE DEF TypeInv
  <2>4. ASSUME NEW t \in Task, task'[t].pc # "idle" PROVE task'[t].payment \in Payment
    <3>1. task \in [Task -> TaskState]
      BY DEF TypeInv, TypeOK
    <3>2. CASE task'[t] = task[t]
      BY <2>4, <3>2, <1>b
    <3>3. CASE task'[t] # task[t]
      <4>1. task'[t] = [Idle EXCEPT !.pc = "apply", !.payment = p, !.result = r]
        BY <2>3, <2>4, <3>1, <3>3, <1>h
      <4> QED BY <1>19, <4>1 DEF Idle
    <3> QED BY <3>2, <3>3
  <2>5. TasksOK'
    BY <2>4 DEF TasksOK
  <2> QED BY <2>2, <2>5 DEF TypeInv
<1>20. ASSUME NEW p \in Payment, LookupFails(p) PROVE TypeInv'
  BY <1>20, <1>b, <1>h, IdleType DEF TypeOK, TasksOK, LookupFails
<1>21. CASE ReconcileEnds
  BY <1>21, <1>b, <1>h, IdleType DEF TypeOK, TasksOK, ReconcileEnds
<1>22. CASE ExpirePayments
  BY <1>22, <1>b, <1>h, IdleType DEF TypeOK, TasksOK, ExpirePayments, PaymentStatus
<1>23. CASE ListOrders
  BY <1>23, <1>b, <1>h, IdleType DEF TypeOK, TasksOK, ListOrders, Take, StaleOrders
<1>24. ASSUME NEW o \in Order, CloseOrder(o) PROVE TypeInv'
  BY <1>24, <1>b, <1>h, IdleType, CanceledTypes DEF TypeOK, TasksOK, CloseOrder
<1>25. CASE SweepEnds
  BY <1>25, <1>b, <1>h, IdleType DEF TypeOK, TasksOK, SweepEnds
<1>26. ASSUME NEW o \in Order, RunSale(o) PROVE TypeInv'
  BY <1>26, <1>b, <1>h, IdleType DEF TypeOK, TasksOK, RunSale
<1>27. ASSUME NEW p \in Payment, RunRefund(p) PROVE TypeInv'
  BY <1>27, <1>b, <1>h, IdleType DEF TypeOK, TasksOK, RunRefund, PaymentStatus, OrderStatus, Event
<1>28. ASSUME NEW t \in Task, Throws(t) PROVE TypeInv'
  <2>1. task' \in [Task -> TaskState] /\ TasksOK'
    BY <1>28, RestTypes DEF Throws
  <2>2. TypeOK'
    BY <1>28, <1>b, <2>1 DEF TypeOK, Throws
  <2> QED BY <2>1, <2>2
<1>29. CASE Crash
  BY <1>29, <1>b, <1>h, IdleType DEF TypeOK, TasksOK, Crash
<1>30. CASE UNCHANGED vars
  BY <1>30, <1>b, <1>h, IdleType DEF TypeOK, TasksOK, vars
<1> QED
  BY <1>h, <1>1, <1>2, <1>3, <1>4, <1>5, <1>6, <1>7, <1>8, <1>9, <1>10, <1>11, <1>12, <1>13, <1>14, <1>15, <1>16, <1>17, <1>18, <1>19, <1>20, <1>21, <1>22, <1>23, <1>24, <1>25, <1>26, <1>27, <1>28, <1>29, <1>30
     DEF Next, Buyer, HandlerStep, SettleStep, WorkerStep, Jobs

(* Every reachable state is well typed: statuses stay within their enums, a
   request in progress names a payment. *)
THEOREM TypeCorrect == Spec => []TypeOK
<1>1. Spec => []TypeInv
  BY TypeInit, TypeStep, PTL DEF Spec
<1>2. TypeInv => TypeOK
  BY DEF TypeInv
<1> QED BY <1>1, <1>2, PTL

-----------------------------------------------------------------------------
(* Somebody settles t's payment as paid. *)
Settles(t) ==
  \/ task[t].pc \in {"complete", "sell", "refund"}
  \/ task[t].pc = "apply" /\ task[t].result = "COMPLETED"

Paid == {"PAID", "REFUNDED"}

RealInv ==
  /\ \A p \in Payment : payment[p] \in {"COMPLETED", "REFUNDED"} => Charged(p)
  /\ \A t \in Task : Settles(t) => Charged(task[t].payment)
  /\ \A o \in Order : order[o] \in Paid => \E p \in Payment : OrderOf[p] = o /\ Charged(p)

LEMMA ChargedIff == \A p : /\ Charged(p) <=> \E e \in Money : e \in books[p]
                           /\ Charged(p)' <=> \E e \in Money : e \in books'[p]
  BY DEF Charged

(* A charge is never forgotten by the providers. *)
LEMMA ChargesStay ==
  ASSUME TypeInv, [Next]_vars, NEW p \in Payment, Charged(p)
  PROVE  Charged(p)'
<1> DEFINE kept == \A q \in Payment : (\E e \in Money : e \in books[q]) => \E e \in Money : e \in books'[q]
<1> SUFFICES kept
  BY ChargedIff
<1>t. books \in [Payment -> SUBSET Event] /\ TasksOK /\ \A h \in Handler : h \in Task
  BY DEF TypeInv, TypeOK, Task
<1>1. CASE UNCHANGED books
  BY <1>1
<1>2. ASSUME NEW q \in Payment, NEW e \in Event, Attempt(q, e) PROVE kept
  BY <1>2, <1>t DEF Attempt
<1>3. ASSUME NEW q \in Payment, NEW e \in Event, FormEnds(q, e) PROVE kept
  BY <1>3, <1>t DEF FormEnds
<1>4. ASSUME NEW h \in Handler, Commit(h) PROVE kept
  <2>1. task[h].payment \in Payment
    BY <1>4, <1>t DEF Commit, TasksOK
  <2>2. books' = [books EXCEPT ![task[h].payment] =
                    IF "authorized" \in @ THEN {"captured"} ELSE @]
    BY <1>4 DEF Commit
  <2> QED BY <1>t, <2>1, <2>2 DEF Money
<1>5. ASSUME NEW h \in Handler, CommitLost(h) PROVE kept
  BY <1>5, <1>t DEF CommitLost, Money
<1>6. ASSUME NEW q \in Payment, RunRefund(q) PROVE kept
  BY <1>6, <1>t DEF RunRefund, Money
<1> DEFINE moves == \/ UNCHANGED books
                    \/ \E q \in Payment, e \in Event : Attempt(q, e) \/ FormEnds(q, e)
                    \/ \E h \in Handler : Commit(h) \/ CommitLost(h)
                    \/ \E q \in Payment : RunRefund(q)
<1>7. moves
  <2>1. CASE Buyer
    BY <2>1 DEF Buyer, StartCheckout, Return
  <2>2. CASE \E h \in Handler, q \in Payment, e \in Event : Webhook(h, q, e)
    BY <2>2 DEF Webhook
  <2>3. ASSUME NEW t \in Task, SettleStep(t) PROVE UNCHANGED books
    BY <2>3 DEF SettleStep, Apply, MarkPaid, QueueSale, AutoRefund, MarkCanceled
  <2>4. CASE \E h \in Handler : HandlerStep(h) \/ CommitLost(h)
    BY <1>t, <2>3, <2>4 DEF HandlerStep, InsertPayment, Initiate, AskMercadoPago
  <2>5. CASE StartSweep \/ WorkerStep
    BY <2>3, <2>5 DEF Task, WorkerStep, StartSweep, AskNext, ReconcileEnds,
         ExpirePayments, ListOrders, CloseOrder, SweepEnds
  <2>6. CASE Jobs
    BY <2>6 DEF Jobs, RunSale
  <2>7. CASE \/ \E q \in Payment : PaymentAges(q) \/ LookupFails(q)
             \/ \E o \in Order : OrderAges(o)
             \/ \E t \in Task : Throws(t)
             \/ Crash
             \/ UNCHANGED vars
    BY <2>7 DEF PaymentAges, LookupFails, OrderAges, Throws, Crash, vars
  <2> QED BY <2>1, <2>2, <2>4, <2>5, <2>6, <2>7 DEF Next
<1> QED BY <1>1, <1>2, <1>3, <1>4, <1>5, <1>6, <1>7

(* A step that settles nothing: it may start something or drop it. *)
Minor ==
  /\ UNCHANGED <<payment, order, sale, taken>>
  /\ \A t \in Task : task'[t] = task[t] \/ ~Settles(t)'

(* The other steps. *)
Major ==
  \/ \E h \in Handler : \/ InsertPayment(h) \/ Initiate(h)
                       \/ AskMercadoPago(h) \/ Commit(h) \/ CommitLost(h)
  \/ \E t \in Task : Apply(t) \/ MarkPaid(t) \/ QueueSale(t) \/ MarkCanceled(t)
  \/ \E p \in Payment : AskNext(p) \/ RunRefund(p)
  \/ \E o \in Order : CloseOrder(o) \/ RunSale(o)
  \/ ExpirePayments

LEMMA MinorOrMajor ==
  ASSUME TypeInv, [Next]_vars
  PROVE  Minor \/ Major
<1>t. task \in [Task -> TaskState] /\ Worker \in Task /\ \A h \in Handler : h \in Task
  BY DEF TypeInv, TypeOK, Task
<1>1. ASSUME NEW h \in Handler, NEW p \in Payment, StartCheckout(h, p) PROVE Minor
  BY <1>1, <1>t DEF StartCheckout, Idle, Minor, Settles
<1>2. ASSUME NEW p \in Payment, NEW e \in Event, Attempt(p, e) PROVE Minor
  BY <1>2, <1>t DEF Attempt, Minor, Settles
<1>3. ASSUME NEW p \in Payment, NEW e \in Event, FormEnds(p, e) PROVE Minor
  BY <1>3, <1>t DEF FormEnds, Minor, Settles
<1>4. ASSUME NEW p \in Payment, PaymentAges(p) PROVE Minor
  BY <1>4, <1>t DEF PaymentAges, Minor, Settles
<1>5. ASSUME NEW o \in Order, OrderAges(o) PROVE Minor
  BY <1>5, <1>t DEF OrderAges, Minor, Settles
<1>6. ASSUME NEW h \in Handler, NEW p \in Payment, NEW asks \in Event \cup {"lookup", "commit"}, Return(h, p, asks) PROVE Minor
  BY <1>6, <1>t DEF Return, Idle, Minor, Settles
<1>7. ASSUME NEW h \in Handler, NEW p \in Payment, NEW e \in Event, Webhook(h, p, e) PROVE Minor
  BY <1>7, <1>t DEF Webhook, Idle, Minor, Settles
<1>8. ASSUME NEW t \in Task, AutoRefund(t) PROVE Minor
  BY <1>8, <1>t DEF AutoRefund, Rest, Idle, Minor, Settles
<1>9. ASSUME NEW t \in Task, Throws(t) PROVE Minor
  BY <1>9, <1>t DEF Throws, Rest, Idle, Minor, Settles
<1>10. CASE StartSweep
  BY <1>10, <1>t DEF StartSweep, Minor, Settles
<1>11. ASSUME NEW p \in Payment, LookupFails(p) PROVE Minor
  BY <1>11, <1>t DEF LookupFails, Minor, Settles
<1>12. CASE ReconcileEnds
  BY <1>12, <1>t DEF ReconcileEnds, Minor, Settles
<1>13. CASE ListOrders
  BY <1>13, <1>t DEF ListOrders, Minor, Settles
<1>14. CASE SweepEnds
  BY <1>14, <1>t DEF SweepEnds, Minor, Settles
<1>15. CASE Crash
  BY <1>15, <1>t DEF Crash, Idle, Minor, Settles
<1>16. CASE UNCHANGED vars
  BY <1>16, <1>t DEF vars, Minor, Settles
<1>20. CASE Buyer
  BY <1>20, <1>1, <1>2, <1>3, <1>6 DEF Buyer
<1>21. ASSUME NEW t \in Task, SettleStep(t) PROVE Minor \/ Major
  BY <1>21, <1>8 DEF SettleStep, Major
<1>22. CASE \E h \in Handler : HandlerStep(h) \/ CommitLost(h)
  BY <1>22, <1>21, <1>t DEF HandlerStep, Major
<1>23. CASE StartSweep \/ WorkerStep \/ Jobs
  BY <1>23, <1>21, <1>t, <1>10, <1>12, <1>13, <1>14 DEF WorkerStep, Jobs, Major
<1>24. CASE \E h \in Handler, p \in Payment, e \in Event : Webhook(h, p, e)
  BY <1>24, <1>7
<1>25. CASE \E p \in Payment : PaymentAges(p) \/ LookupFails(p)
  BY <1>25, <1>4, <1>11
<1>26. CASE (\E o \in Order : OrderAges(o)) \/ (\E t \in Task : Throws(t))
  BY <1>26, <1>5, <1>9
<1> QED BY <1>15, <1>16, <1>20, <1>22, <1>23, <1>24, <1>25, <1>26 DEF Next

(* Charged after the step. *)
NowCharged(p) == books'[p] \cap Money # {}

LEMMA RealKept ==
  ASSUME TypeInv, TypeInv', RealInv, [Next]_vars,
         \A p \in Payment : payment'[p] \in {"COMPLETED", "REFUNDED"} =>
           payment[p] \in {"COMPLETED", "REFUNDED"} \/ NowCharged(p),
         \A t \in Task : Settles(t)' =>
           (Settles(t) /\ task'[t].payment = task[t].payment) \/ NowCharged(task'[t].payment),
         \A o \in Order : order'[o] \in Paid =>
           order[o] \in Paid \/ \E p \in Payment : OrderOf[p] = o /\ NowCharged(p)
  PROVE  RealInv'
<1>c. \A p \in Payment : Charged(p) => NowCharged(p)
  BY ChargesStay DEF NowCharged, Charged
<1>1. \A p \in Payment : payment'[p] \in {"COMPLETED", "REFUNDED"} => NowCharged(p)
  BY <1>c DEF RealInv
<1>2. \A t \in Task : Settles(t) => task[t].payment \in Payment
  BY DEF Settles, TypeInv, TasksOK
<1>3. \A t \in Task : Settles(t)' => NowCharged(task'[t].payment)
  BY <1>c, <1>2 DEF RealInv
<1>4. \A o \in Order : order'[o] \in Paid =>
        \E p \in Payment : OrderOf[p] = o /\ NowCharged(p)
  BY <1>c DEF RealInv
<1> QED BY <1>1, <1>3, <1>4 DEF RealInv, NowCharged, Charged

LEMMA RealInit == Init => RealInv
  BY IdleType DEF Init, RealInv, Settles, Paid, Idle

LEMMA RealStep == TypeInv /\ TypeInv' /\ RealInv /\ [Next]_vars => RealInv'
<1> SUFFICES ASSUME TypeInv, TypeInv', RealInv, [Next]_vars PROVE RealInv'
  OBVIOUS
<1> DEFINE Same(t) == Settles(t) /\ task'[t].payment = task[t].payment
           P == \A p \in Payment : payment'[p] \in {"COMPLETED", "REFUNDED"} =>
                  payment[p] \in {"COMPLETED", "REFUNDED"} \/ NowCharged(p)
           S == \A t \in Task : Settles(t)' => Same(t) \/ NowCharged(task'[t].payment)
           O == \A o \in Order : order'[o] \in Paid =>
                  order[o] \in Paid \/ \E p \in Payment : OrderOf[p] = o /\ NowCharged(p)
<1> SUFFICES P /\ S /\ O
  BY RealKept
<1>t. /\ task \in [Task -> TaskState] /\ Worker \in Task /\ \A h \in Handler : h \in Task
      /\ payment \in [Payment -> PaymentStatus \cup {"NONE"}]
      /\ order \in [Order -> OrderStatus]
      /\ books \in [Payment -> SUBSET Event]
      /\ \A p \in Payment : OrderOf[p] \in Order
  BY DEF TypeInv, TypeOK, Task
<1>p. \A t \in Task : task[t].pc # "idle" => task[t].payment \in Payment
  BY DEF TypeInv, TasksOK
<1>c. /\ \A p \in Payment : Charged(p) => NowCharged(p)
      /\ \A t \in Task : Settles(t) => NowCharged(task[t].payment)
  <2>1. \A p \in Payment : Charged(p) => NowCharged(p)
    BY ChargesStay DEF NowCharged, Charged
  <2>2. \A t \in Task : Settles(t) => task[t].payment \in Payment /\ Charged(task[t].payment)
    BY <1>p DEF RealInv, Settles
  <2> QED BY <2>1, <2>2
<1>1. CASE Minor
  BY <1>1 DEF Minor, Settles
<1>2. ASSUME NEW h \in Handler, InsertPayment(h) PROVE P /\ S /\ O
  BY <1>2, <1>t DEF InsertPayment, Do, Settles
<1>3. ASSUME NEW h \in Handler, Initiate(h) PROVE P /\ S /\ O
  BY <1>3, <1>t DEF Initiate, Rest, Idle, Settles
<1>4. ASSUME NEW h \in Handler, NEW result \in Outcome, Learn(h, result),
             result = "COMPLETED" => NowCharged(task[h].payment)
      PROVE  S
  <2>1. \/ task' = [task EXCEPT ![h] = Idle]
        \/ task' = [task EXCEPT ![h] = [task[h] EXCEPT !.pc = "apply", !.result = result]]
    BY <1>4, <1>t DEF Learn
  <2>2. ASSUME NEW t \in Task, Settles(t)' PROVE Same(t) \/ NowCharged(task'[t].payment)
    <3>1. CASE t # h
      BY <2>1, <2>2, <3>1, <1>t DEF Settles
    <3>2. CASE t = h
      <4>1. task'[h] = [task[h] EXCEPT !.pc = "apply", !.result = result]
        BY <2>1, <2>2, <3>2, <1>t DEF Settles, Idle
      <4>2. task'[h].payment = task[h].payment /\ result = "COMPLETED"
        BY <2>2, <3>2, <4>1, <1>t DEF Settles, TaskState
      <4> QED BY <1>4, <3>2, <4>2
    <3> QED BY <3>1, <3>2
  <2> QED BY <2>2
<1>5. ASSUME NEW h \in Handler, AskMercadoPago(h) PROVE P /\ S /\ O
  <2> DEFINE p == task[h].payment
  <2>0. PICK r \in Answer(p, task[h].asks) : Learn(h, r)
    BY <1>5 DEF AskMercadoPago
  <2>1. p \in Payment /\ r \in Outcome /\ Learn(h, r)
    BY <1>5, <1>p, <1>t, <2>0, AnswerType DEF AskMercadoPago
  <2>2. r = "COMPLETED" => NowCharged(p)
    BY <1>5, <2>0, <2>1, AnswerIsReal DEF NowCharged, Money, AskMercadoPago
  <2>3. S
    BY <1>4, <2>1, <2>2
  <2> QED BY <1>5, <2>3 DEF AskMercadoPago
<1>6. ASSUME NEW h \in Handler, Commit(h) PROVE P /\ S /\ O
  <2> DEFINE p == task[h].payment
             r == CommitResult(p)
  <2>1. p \in Payment /\ r \in Outcome /\ Learn(h, r)
    BY <1>6, <1>p, <1>t, AnswerType DEF Commit
  <2>2. r = "COMPLETED" => NowCharged(p)
    <3>1. SUFFICES ASSUME r = "COMPLETED" PROVE NowCharged(p)
      OBVIOUS
    <3>2. "authorized" \in books[p]
      BY <3>1 DEF CommitResult
    <3>3. books'[p] = {"captured"}
      BY <1>6, <2>1, <3>2, <1>t DEF Commit
    <3> QED BY <3>3 DEF NowCharged, Money
  <2> HIDE DEF r
  <2>3. S
    BY <1>4, <2>1, <2>2
  <2> QED BY <1>6, <2>3 DEF Commit
<1>7. ASSUME NEW h \in Handler, CommitLost(h) PROVE P /\ S /\ O
  BY <1>7, <1>4 DEF CommitLost, Outcome
<1>8. ASSUME NEW t \in Task, Apply(t) PROVE P /\ S /\ O
  <2> DEFINE p == task[t].payment
             r == task[t].result
  <2>1. p \in Payment /\ (r = "COMPLETED" => NowCharged(p))
    BY <1>8, <1>c, <1>p DEF Apply, Settles
  <2>2. P
    BY <1>8, <1>t, <2>1 DEF Apply, Closes, KeepsOrderOpen, TaskState, Outcome
  <2>3. ASSUME NEW u \in Task, Settles(u)' PROVE Same(u) \/ NowCharged(task'[u].payment)
    <3>1. CASE u # t
      BY <1>8, <1>t, <2>3, <3>1 DEF Apply, Do, Rest, Settles
    <3>2. CASE u = t
      <4>1. \/ r = "COMPLETED" /\ task'[t] = [task[t] EXCEPT !.pc = "complete"]
            \/ task'[t] = [task[t] EXCEPT !.pc = "cancel"]
            \/ task'[t] = Idle
        BY <1>8, <1>t DEF Apply, Do, Rest
      <4>2. r = "COMPLETED" /\ task'[t].payment = p
        BY <1>t, <2>3, <3>2, <4>1 DEF Settles, Idle, TaskState
      <4> QED BY <2>1, <3>2, <4>2
    <3> QED BY <3>1, <3>2
  <2>4. S
    BY <2>3
  <2> QED BY <1>8, <2>2, <2>4 DEF Apply
<1>9. ASSUME NEW t \in Task, MarkPaid(t) PROVE P /\ S /\ O
  <2>1. Settles(t) /\ task[t].payment \in Payment
    BY <1>9, <1>p DEF MarkPaid, Settles
  <2>2. S
    BY <1>9, <1>t, <1>c, <2>1 DEF MarkPaid, Do, Settles
  <2>3. O
    BY <1>9, <1>t, <1>c, <2>1 DEF MarkPaid
  <2> QED BY <1>9, <2>2, <2>3 DEF MarkPaid
<1>10. ASSUME NEW t \in Task, QueueSale(t) PROVE P /\ S /\ O
  BY <1>10, <1>t DEF QueueSale, Rest, Idle, Settles
<1>11. ASSUME NEW t \in Task, MarkCanceled(t) PROVE P /\ S /\ O
  BY <1>11, <1>t DEF MarkCanceled, Canceled, Rest, Idle, Settles, Paid
<1>12. ASSUME NEW p \in Payment, AskNext(p) PROVE P /\ S /\ O
  <2>0. PICK r \in Answer(p, "lookup") :
          \/ task' = task
          \/ task' = [task EXCEPT ![Worker] = [Idle EXCEPT !.pc = "apply", !.payment = p,
                                                !.result = r]]
    BY <1>12 DEF AskNext
  <2> DEFINE x == [Idle EXCEPT !.pc = "apply", !.payment = p, !.result = r]
  <2>1. task' = task \/ task' = [task EXCEPT ![Worker] = x]
    BY <2>0
  <2>2. r = "COMPLETED" => NowCharged(p)
    BY <1>12, <2>0, AnswerIsReal DEF NowCharged, Money, AskNext
  <2>3. x.payment = p /\ x.pc = "apply" /\ x.result = r
    BY DEF Idle
  <2> HIDE DEF x
  <2>4. S
    BY <2>1, <2>2, <2>3, <1>t DEF Settles
  <2> QED BY <1>12, <2>4 DEF AskNext
<1>13. ASSUME NEW p \in Payment, RunRefund(p) PROVE P /\ S /\ O
  <2>1. NowCharged(p)
    BY <1>13, <1>t DEF RunRefund, NowCharged, Money
  <2> QED BY <1>13, <2>1, <1>t DEF RunRefund, Paid, Settles
<1>14. ASSUME NEW o \in Order, CloseOrder(o) PROVE P /\ S /\ O
  BY <1>14, <1>t DEF CloseOrder, Canceled, Paid, Settles
<1>15. ASSUME NEW o \in Order, RunSale(o) PROVE P /\ S /\ O
  BY <1>15 DEF RunSale, Settles
<1>16. CASE ExpirePayments
  BY <1>16, <1>t DEF ExpirePayments, Settles
<1> QED
  BY MinorOrMajor, <1>1, <1>2, <1>3, <1>5, <1>6, <1>7, <1>8, <1>9, <1>10, <1>11, <1>12,
     <1>13, <1>14, <1>15, <1>16 DEF Major

(* What the providers say is what the rows say, however returns, webhooks,
   the sweep, errors and crashes interleave. *)
THEOREM StatusesAreCharged == Spec => []ChargesAreReal
<1>1. Init => TypeInv /\ RealInv
  BY TypeInit, RealInit
<1>2. TypeInv /\ RealInv /\ [Next]_vars => (TypeInv /\ RealInv)'
  BY TypeStep, RealStep
<1>3. RealInv => ChargesAreReal
  BY DEF RealInv, ChargesAreReal, Paid
<1> QED BY <1>1, <1>2, <1>3, PTL DEF Spec

-----------------------------------------------------------------------------
(* The payments that sold, or are to sell, their order; and after the step. *)
SoldSet == {p \in Payment : Sold(p)}

NowSold == {p \in Payment : sale'[OrderOf[p]] = p \/ p \in taken'}

(* A queued sale is of its own order; a sold order is paid, and sold by one
   payment; while a request is about to queue the sale of an order nothing has
   sold it and no other request is about to. *)
SellInv ==
  /\ \A o \in Order : sale[o] # None => OrderOf[sale[o]] = o
  /\ \A p \in SoldSet :
       /\ order[OrderOf[p]] \in Paid
       /\ \A q \in SoldSet : OrderOf[q] = OrderOf[p] => q = p
  /\ \A t \in Task : task[t].pc = "sell" =>
       /\ order[OrderOf[task[t].payment]] \in Paid
       /\ \A q \in SoldSet : OrderOf[q] # OrderOf[task[t].payment]
       /\ \A u \in Task : task[u].pc = "sell" /\ OrderOf[task[u].payment] = OrderOf[task[t].payment]
                            => u = t

FewerSellers ==
  \A t \in Task : task'[t].pc = "sell" => task[t].pc = "sell" /\ task'[t].payment = task[t].payment

OrderMoves ==
  \/ order' = order
  \/ \E o \in Order : /\ order[o] = "PENDING_PAYMENT"
                      /\ order' = [order EXCEPT ![o] = "CANCELED"]
  \/ \E o \in Order : /\ order[o] = "PAID"
                      /\ order' = [order EXCEPT ![o] = "REFUNDED"]

(* A step that sells nothing and makes nobody a seller. *)
Quiet ==
  /\ FewerSellers
  /\ OrderMoves
  /\ NowSold = SoldSet
  /\ \A o \in Order : sale'[o] # None => sale'[o] = sale[o]

LEMMA SellInit == Init => SellInv
  BY IdleType DEF Init, SellInv, SoldSet, Sold

(* The action NowSold stands for. *)
LEMMA SoldAfter == SoldSet' = NowSold
  BY DEF SoldSet, NowSold, Sold

LEMMA SameSale == UNCHANGED <<sale, taken>> => /\ NowSold = SoldSet
                                               /\ \A o \in Order : sale'[o] = sale[o]
  BY DEF NowSold, SoldSet, Sold

(* The two steps that are not quiet: the order is taken for a payment, and
   its sale queued. *)
Takes(t) == MarkPaid(t) /\ order[OrderOf[task[t].payment]] = "PENDING_PAYMENT"

LEMMA QuietOrSells ==
  ASSUME TypeInv, SellInv, [Next]_vars
  PROVE  Quiet \/ \E t \in Task : Takes(t) \/ QueueSale(t)
<1>t. /\ task \in [Task -> TaskState] /\ Worker \in Task /\ \A h \in Handler : h \in Task
      /\ order \in [Order -> OrderStatus]
      /\ sale \in [Order -> Payment \cup {None}]
      /\ \A p \in Payment : OrderOf[p] \in Order
  BY DEF TypeInv, TypeOK, Task
<1>p. \A t \in Task : task[t].pc # "idle" => task[t].payment \in Payment
  BY DEF TypeInv, TasksOK
<1>r. ASSUME NEW t \in Task, Rest(t) PROVE FewerSellers
  BY <1>r, <1>t, IdleType DEF Rest, FewerSellers
<1>d. ASSUME NEW t \in Task, NEW pc \in Pc \ {"sell"}, Do(t, pc) PROVE FewerSellers
  <2>1. SUFFICES ASSUME NEW u \in Task, task'[u].pc = "sell"
                 PROVE  task[u].pc = "sell" /\ task'[u].payment = task[u].payment
    BY DEF FewerSellers
  <2>2. CASE u # t
    BY <1>d, <1>t, <2>1, <2>2 DEF Do
  <2>3. CASE u = t
    <3>1. task'[t] = [task[t] EXCEPT !.pc = pc] /\ task[t] \in TaskState
      BY <1>d, <1>t DEF Do
    <3>2. task'[t].pc = pc
      BY <3>1 DEF TaskState
    <3> QED BY <1>d, <2>1, <2>3, <3>2
  <2> QED BY <2>2, <2>3
<1>l. ASSUME NEW t \in Task, NEW result, Learn(t, result) PROVE FewerSellers
  <2>1. CASE Drops(t, result)
    BY <1>l, <1>r, <2>1 DEF Learn, Rest
  <2>2. CASE ~Drops(t, result)
    <3>1. task' = [task EXCEPT ![t] = [task[t] EXCEPT !.pc = "apply", !.result = result]]
      BY <1>l, <1>t, <2>2 DEF Learn
    <3>2. task'[t].pc = "apply"
      BY <1>t, <3>1 DEF TaskState
    <3> QED BY <1>t, <3>1, <3>2 DEF FewerSellers
  <2> QED BY <2>1, <2>2
<1>c. ASSUME NEW o \in Order, Canceled(o) PROVE OrderMoves
  <2>1. CASE order[o] = "PENDING_PAYMENT"
    BY <1>c, <2>1 DEF Canceled, OrderMoves
  <2>2. CASE order[o] # "PENDING_PAYMENT"
    BY <1>c, <1>t, <2>2 DEF Canceled, OrderMoves
  <2> QED BY <2>1, <2>2
<1>s. ASSUME UNCHANGED <<sale, taken>>, FewerSellers, OrderMoves PROVE Quiet
  BY <1>s, SameSale DEF Quiet
<1>1. CASE Minor
  <2>1. FewerSellers
    <3>1. \A t \in Task : task'[t].pc = "sell" => Settles(t)'
      BY DEF Settles
    <3> QED BY <1>1, <3>1 DEF Minor, FewerSellers
  <2> QED BY <1>1, <1>s, <2>1 DEF Minor, OrderMoves
<1>2. ASSUME NEW h \in Handler, InsertPayment(h) PROVE Quiet
  BY <1>2, <1>d, <1>s, <1>t DEF InsertPayment, Pc, OrderMoves
<1>3. ASSUME NEW h \in Handler, Initiate(h) PROVE Quiet
  BY <1>3, <1>r, <1>s, <1>t DEF Initiate, OrderMoves
<1>4. ASSUME NEW h \in Handler, AskMercadoPago(h) PROVE Quiet
  BY <1>4, <1>l, <1>s, <1>t DEF AskMercadoPago, OrderMoves
<1>5. ASSUME NEW h \in Handler, Commit(h) PROVE Quiet
  BY <1>5, <1>l, <1>s, <1>t DEF Commit, OrderMoves
<1>6. ASSUME NEW h \in Handler, CommitLost(h) PROVE Quiet
  BY <1>6, <1>l, <1>s, <1>t DEF CommitLost, OrderMoves
<1>7. ASSUME NEW t \in Task, Apply(t) PROVE Quiet
  BY <1>7, <1>d, <1>r, <1>s DEF Apply, Pc, OrderMoves
<1>8. ASSUME NEW t \in Task, MarkPaid(t), ~Takes(t) PROVE Quiet
  <2> DEFINE o == OrderOf[task[t].payment]
  <2>1. order[o] # "PENDING_PAYMENT" /\ o \in Order
    BY <1>8, <1>p, <1>t DEF Takes, MarkPaid
  <2>2. Do(t, "refund") /\ order' = order
    BY <1>8, <1>t, <2>1 DEF MarkPaid
  <2> QED BY <1>8, <1>d, <1>s, <2>2 DEF MarkPaid, Pc, OrderMoves
<1>9. ASSUME NEW t \in Task, MarkCanceled(t) PROVE Quiet
  BY <1>9, <1>c, <1>p, <1>r, <1>s, <1>t DEF MarkCanceled
<1>10. ASSUME NEW p \in Payment, AskNext(p) PROVE Quiet
  <2>0. PICK r :
          \/ task' = task
          \/ task' = [task EXCEPT ![Worker] = [Idle EXCEPT !.pc = "apply", !.payment = p,
                                                !.result = r]]
    BY <1>10 DEF AskNext
  <2> DEFINE x == [Idle EXCEPT !.pc = "apply", !.payment = p, !.result = r]
  <2>1. task' = task \/ task' = [task EXCEPT ![Worker] = x]
    BY <2>0
  <2>2. x.pc = "apply"
    BY DEF Idle
  <2> HIDE DEF x
  <2>3. FewerSellers
    BY <1>t, <2>1, <2>2 DEF FewerSellers
  <2> QED BY <1>10, <1>s, <2>3 DEF AskNext, OrderMoves
<1>11. ASSUME NEW p \in Payment, RunRefund(p) PROVE Quiet
  <2>1. OrderMoves
    BY <1>11, <1>t DEF RunRefund, OrderMoves
  <2> QED BY <1>11, <1>s, <2>1 DEF RunRefund, FewerSellers
<1>12. ASSUME NEW o \in Order, CloseOrder(o) PROVE Quiet
  BY <1>12, <1>c, <1>s DEF CloseOrder, FewerSellers
<1>13. ASSUME NEW o \in Order, RunSale(o) PROVE Quiet
  <2>1. sale[o] \in Payment /\ OrderOf[sale[o]] = o
    BY <1>13, <1>t DEF RunSale, SellInv
  <2>2. sale' = [sale EXCEPT ![o] = None] /\ taken' = taken \cup {sale[o]}
    BY <1>13 DEF RunSale
  <2>3. NowSold = SoldSet
    BY <1>t, <2>1, <2>2 DEF NowSold, SoldSet, Sold
  <2> QED BY <1>13, <1>t, <2>2, <2>3 DEF RunSale, Quiet, FewerSellers, OrderMoves
<1>14. CASE ExpirePayments
  BY <1>14, <1>s DEF ExpirePayments, FewerSellers, OrderMoves
<1> QED
  BY MinorOrMajor, <1>1, <1>2, <1>3, <1>4, <1>5, <1>6, <1>7, <1>8, <1>9, <1>10, <1>11,
     <1>12, <1>13, <1>14 DEF Major

(* What a request that takes an order does to it, and to the sellers. *)
LEMMA TakesOne ==
  ASSUME TypeInv, NEW t \in Task, Takes(t)
  PROVE  /\ task[t].payment \in Payment /\ OrderOf[task[t].payment] \in Order
         /\ order' = [order EXCEPT ![OrderOf[task[t].payment]] = "PAID"]
         /\ NowSold = SoldSet /\ sale' = sale
         /\ task'[t].payment = task[t].payment
         /\ \A u \in Task \ {t} : task'[u] = task[u]
<1>t. /\ task \in [Task -> TaskState] /\ order \in [Order -> OrderStatus]
      /\ \A p \in Payment : OrderOf[p] \in Order
  BY DEF TypeInv, TypeOK
<1>1. task[t].payment \in Payment
  BY DEF Takes, MarkPaid, TypeInv, TasksOK
<1>2. task' = [task EXCEPT ![t] = [task[t] EXCEPT !.pc = "sell"]]
  BY <1>t DEF Takes, MarkPaid, Do
<1>3. order' = [order EXCEPT ![OrderOf[task[t].payment]] = "PAID"]
  BY <1>t, <1>1 DEF Takes, MarkPaid
<1>4. NowSold = SoldSet /\ sale' = sale
  BY SameSale DEF Takes, MarkPaid
<1> QED BY <1>t, <1>1, <1>2, <1>3, <1>4 DEF TaskState

(* What queueing a sale does. *)
LEMMA QueuesOne ==
  ASSUME TypeInv, SellInv, NEW t \in Task, QueueSale(t)
  PROVE  /\ task[t].payment \in Payment /\ task[t].pc = "sell"
         /\ NowSold = SoldSet \cup {task[t].payment}
         /\ sale' = [sale EXCEPT ![OrderOf[task[t].payment]] = task[t].payment]
         /\ order' = order
         /\ task'[t].pc = "idle"
         /\ \A u \in Task \ {t} : task'[u] = task[u]
<1> DEFINE p == task[t].payment
<1>t. /\ task \in [Task -> TaskState]
      /\ sale \in [Order -> Payment \cup {None}]
      /\ \A q \in Payment : OrderOf[q] \in Order
  BY DEF TypeInv, TypeOK
<1>1. p \in Payment /\ OrderOf[p] \in Order /\ task[t].pc = "sell"
  BY <1>t DEF QueueSale, TypeInv, TasksOK
<1>2. sale[OrderOf[p]] = None
  <2>1. SUFFICES ASSUME sale[OrderOf[p]] # None PROVE FALSE
    OBVIOUS
  <2>2. sale[OrderOf[p]] \in SoldSet /\ OrderOf[sale[OrderOf[p]]] = OrderOf[p]
    BY <1>t, <1>1, <2>1 DEF SellInv, SoldSet, Sold
  <2> QED BY <1>1, <2>2 DEF SellInv
<1>3. sale' = [sale EXCEPT ![OrderOf[p]] = p] /\ taken' = taken /\ order' = order
  BY <1>t, <1>1, <1>2 DEF QueueSale
<1>4. NowSold = SoldSet \cup {p}
  BY <1>t, <1>1, <1>2, <1>3 DEF NowSold, SoldSet, Sold
<1>5. task' = [task EXCEPT ![t] = Idle]
  BY DEF QueueSale, Rest
<1> QED BY <1>t, <1>1, <1>3, <1>4, <1>5, IdleType

LEMMA SellStep == TypeInv /\ TypeInv' /\ SellInv /\ [Next]_vars => SellInv'
<1> SUFFICES ASSUME TypeInv, TypeInv', SellInv, [Next]_vars PROVE SellInv'
  OBVIOUS
<1> DEFINE Queued == \A o \in Order : sale'[o] # None => OrderOf[sale'[o]] = o
           Once == \A p \in NowSold :
                     /\ order'[OrderOf[p]] \in Paid
                     /\ \A q \in NowSold : OrderOf[q] = OrderOf[p] => q = p
           Alone == \A t \in Task : task'[t].pc = "sell" =>
                      /\ order'[OrderOf[task'[t].payment]] \in Paid
                      /\ \A q \in NowSold : OrderOf[q] # OrderOf[task'[t].payment]
                      /\ \A u \in Task :
                           /\ task'[u].pc = "sell"
                           /\ OrderOf[task'[u].payment] = OrderOf[task'[t].payment]
                           => u = t
<1> SUFFICES Queued /\ Once /\ Alone
  BY SoldAfter DEF SellInv, Paid
<1>t. /\ order \in [Order -> OrderStatus]
      /\ sale \in [Order -> Payment \cup {None}]
      /\ \A p \in Payment : OrderOf[p] \in Order
      /\ \A t \in Task : task[t].pc = "sell" => task[t].payment \in Payment
      /\ SoldSet \subseteq Payment
  BY DEF TypeInv, TypeOK, TasksOK, SoldSet
<1>1. CASE Quiet
  <2>1. \A o \in Order : order[o] \in Paid => order'[o] \in Paid
    BY <1>1, <1>t DEF Quiet, OrderMoves, Paid
  <2>2. Queued
    BY <1>1 DEF Quiet, SellInv
  <2>3. Once
    BY <1>1, <1>t, <2>1 DEF Quiet, SellInv
  <2>4. Alone
    BY <1>1, <1>t, <2>1 DEF Quiet, FewerSellers, SellInv
  <2> QED BY <2>2, <2>3, <2>4
<1>2. ASSUME NEW t \in Task, Takes(t) PROVE Queued /\ Once /\ Alone
  <2> DEFINE o == OrderOf[task[t].payment]
  <2>1. /\ o \in Order /\ order[o] \notin Paid
        /\ order' = [order EXCEPT ![o] = "PAID"]
        /\ NowSold = SoldSet /\ sale' = sale
        /\ task'[t].payment = task[t].payment
        /\ \A u \in Task \ {t} : task'[u] = task[u]
    BY <1>2, TakesOne DEF Takes, Paid
  <2>2. \A x \in Order : order[x] \in Paid \/ x = o => order'[x] \in Paid
    BY <1>t, <2>1 DEF Paid
  <2>3. /\ \A q \in SoldSet : OrderOf[q] # o
        /\ \A u \in Task : task[u].pc = "sell" => OrderOf[task[u].payment] # o
    BY <2>1 DEF SellInv
  <2> HIDE DEF o
  <2>4. Queued
    BY <2>1 DEF SellInv
  <2>5. Once
    BY <1>t, <2>1, <2>2 DEF SellInv
  <2>6. Alone
    <3>1. ASSUME NEW u \in Task, task'[u].pc = "sell"
          PROVE  /\ OrderOf[task'[u].payment] \in Order
                 /\ u # t => task[u].pc = "sell" /\ task'[u] = task[u]
                 /\ u = t => OrderOf[task'[u].payment] = o
      BY <1>t, <2>1, <3>1 DEF o
    <3> QED BY <2>1, <2>2, <2>3, <3>1 DEF SellInv
  <2> QED BY <2>4, <2>5, <2>6
<1>3. ASSUME NEW t \in Task, QueueSale(t) PROVE Queued /\ Once /\ Alone
  <2> DEFINE p == task[t].payment
  <2>1. /\ p \in Payment /\ OrderOf[p] \in Order /\ task[t].pc = "sell"
        /\ NowSold = SoldSet \cup {p}
        /\ sale' = [sale EXCEPT ![OrderOf[p]] = p]
        /\ order' = order
        /\ task'[t].pc = "idle"
        /\ \A u \in Task \ {t} : task'[u] = task[u]
    BY <1>3, <1>t, QueuesOne
  <2>2. /\ order[OrderOf[p]] \in Paid
        /\ \A q \in SoldSet : OrderOf[q] # OrderOf[p]
        /\ \A u \in Task \ {t} : task[u].pc = "sell" => OrderOf[task[u].payment] # OrderOf[p]
    BY <2>1 DEF SellInv
  <2> HIDE DEF p
  <2>3. Queued
    BY <1>t, <2>1 DEF SellInv
  <2>4. Once
    BY <2>1, <2>2 DEF SellInv
  <2>5. Alone
    <3>1. \A u \in Task : task'[u].pc = "sell" => u # t /\ task'[u] = task[u] /\ task[u].pc = "sell"
      BY <2>1
    <3> QED BY <2>1, <2>2, <3>1 DEF SellInv
  <2> QED BY <2>3, <2>4, <2>5
<1> QED BY QuietOrSells, <1>1, <1>2, <1>3

(* An order is sold once, by one payment and only when it was paid, however
   returns, webhooks, the sweep, errors and crashes interleave. *)
THEOREM SalesAreSingle == Spec => []SoldOnce
<1>1. Init => TypeInv /\ SellInv
  BY TypeInit, SellInit
<1>2. TypeInv /\ SellInv /\ [Next]_vars => (TypeInv /\ SellInv)'
  BY TypeStep, SellStep
<1>3. SellInv => SoldOnce
  BY DEF SellInv, SoldOnce, SoldSet, Paid
<1> QED BY <1>1, <1>2, <1>3, PTL DEF Spec

-----------------------------------------------------------------------------
(* Where a request is between COMPLETED and the end of what follows from it. *)
Ends == {"complete", "sell", "refund"}

(* A completed payment has sold its order or is being given back, or the
   request that completed it is about to see to one of the two. *)
Held(p) ==
  \/ refunding[p] # "no"
  \/ p \in SoldSet
  \/ \E t \in Task : task[t].payment = p /\ task[t].pc \in Ends

HeldInv == faults = 0 => \A p \in Payment : payment[p] = "COMPLETED" => Held(p)

(* Unless it fails, whoever is at an end stays there for the same payment,
   until the sale is queued or the refund asked for. *)
LEMMA EndsStay ==
  ASSUME TypeInv, [Next]_vars, faults = 0, faults' = 0,
         NEW t \in Task, task[t].pc \in Ends
  PROVE  \/ task'[t].pc \in Ends /\ task'[t].payment = task[t].payment
         \/ QueueSale(t) \/ AutoRefund(t)
<1> DEFINE stays == task'[t].pc \in Ends /\ task'[t].payment = task[t].payment
           Goal == stays \/ QueueSale(t) \/ AutoRefund(t)
<1>t. /\ task \in [Task -> TaskState] /\ Worker \in Task /\ \A h \in Handler : h \in Task
  BY DEF TypeInv, TypeOK, Task
<1>u. task'[t] = task[t] => stays
  OBVIOUS
<1>o. ASSUME NEW u \in Task, NEW x, task' = [task EXCEPT ![u] = x], u # t PROVE stays
  BY <1>o, <1>t
<1>1. ASSUME NEW u \in Task, SettleStep(u) PROVE Goal
  <2>1. ASSUME u # t, NEW pc, Do(u, pc) PROVE stays
    BY <1>t, <2>1 DEF Do
  <2>2. ASSUME u # t, Rest(u) PROVE stays
    BY <1>t, <2>2 DEF Rest
  <2>3. CASE Apply(u)
    <3>1. u # t
      BY <2>3 DEF Apply, Ends
    <3> QED BY <2>1, <2>2, <2>3, <3>1 DEF Apply
  <2>4. CASE MarkPaid(u)
    <3>1. CASE u # t
      BY <2>1, <2>4, <3>1 DEF MarkPaid
    <3>2. CASE u = t
      <4> DEFINE pc == IF order[OrderOf[task[t].payment]] = "PENDING_PAYMENT"
                       THEN "sell" ELSE "refund"
      <4>1. task'[t] = [task[t] EXCEPT !.pc = pc] /\ pc \in Ends
        BY <1>t, <2>4, <3>2 DEF MarkPaid, Do, Ends
      <4> HIDE DEF pc
      <4> QED BY <1>t, <4>1 DEF TaskState
    <3> QED BY <3>1, <3>2
  <2>5. CASE QueueSale(u)
    BY <2>2, <2>5 DEF QueueSale
  <2>6. CASE AutoRefund(u)
    BY <2>2, <2>6 DEF AutoRefund
  <2>7. CASE MarkCanceled(u)
    <3>1. u # t
      BY <2>7 DEF MarkCanceled, Ends
    <3> QED BY <2>2, <2>7, <3>1 DEF MarkCanceled
  <2> QED BY <1>1, <2>3, <2>4, <2>5, <2>6, <2>7 DEF SettleStep
<1>2. ASSUME NEW h \in Handler, HandlerStep(h) PROVE Goal
  <2>1. ASSUME NEW r, task[h].pc = "ask", Learn(h, r) PROVE stays
    BY <1>t, <2>1 DEF Learn, Ends
  <2>2. CASE InsertPayment(h)
    BY <1>t, <2>2 DEF InsertPayment, Do, Ends
  <2>3. CASE Initiate(h)
    BY <1>t, <2>3 DEF Initiate, Rest, Ends
  <2>4. CASE AskMercadoPago(h) \/ Commit(h)
    BY <2>1, <2>4 DEF AskMercadoPago, Commit
  <2> QED BY <1>1, <1>2, <1>t, <2>2, <2>3, <2>4 DEF HandlerStep
<1>3. CASE Buyer
  BY <1>3, <1>t, ZenonT(60) DEF Buyer, StartCheckout, Attempt, FormEnds, Return, Ends
<1>4. CASE \E h \in Handler, p \in Payment, e \in Event : Webhook(h, p, e)
  BY <1>4, <1>t DEF Webhook, Ends
<1>5. CASE WorkerStep
  <2>1. ASSUME NEW p \in Payment, AskNext(p) PROVE stays
    BY <1>t, <2>1 DEF AskNext, Ends
  <2> QED BY <1>1, <1>5, <1>t, <1>u, <2>1
          DEF WorkerStep, ReconcileEnds, ExpirePayments, ListOrders, SweepEnds, CloseOrder
<1>6. CASE StartSweep \/ Jobs
  BY <1>6, <1>u DEF StartSweep, Jobs, RunSale, RunRefund
<1>7. CASE \/ \E p \in Payment : PaymentAges(p)
           \/ \E o \in Order : OrderAges(o)
           \/ UNCHANGED vars
  BY <1>7, <1>u DEF PaymentAges, OrderAges, vars
<1>8. /\ \A h \in Handler : ~CommitLost(h)
      /\ \A p \in Payment : ~LookupFails(p)
      /\ \A u \in Task : ~Throws(u)
      /\ ~Crash
  BY DEF CommitLost, LookupFails, Throws, Crash
<1> QED BY <1>2, <1>3, <1>4, <1>5, <1>6, <1>7, <1>8 DEF Next

(* Only Apply completes a payment, and it goes on to the order. *)
LEMMA Completes ==
  ASSUME TypeInv, [Next]_vars, NEW p \in Payment,
         payment'[p] = "COMPLETED", payment[p] # "COMPLETED"
  PROVE  \E t \in Task : task'[t].payment = p /\ task'[t].pc \in Ends
<1>t. /\ task \in [Task -> TaskState] /\ Worker \in Task /\ \A h \in Handler : h \in Task
      /\ payment \in [Payment -> PaymentStatus \cup {"NONE"}]
  BY DEF TypeInv, TypeOK, Task
<1>p. \A t \in Task : task[t].pc # "idle" => task[t].payment \in Payment
  BY DEF TypeInv, TasksOK
<1>1. ASSUME NEW t \in Task, Apply(t) PROVE task'[t].payment = p /\ task'[t].pc \in Ends
  <2>1. task[t].payment = p /\ task[t].result = "COMPLETED"
    BY <1>1, <1>p, <1>t DEF Apply
  <2>2. task' = [task EXCEPT ![t] = [task[t] EXCEPT !.pc = "complete"]]
    BY <1>1, <1>t, <2>1 DEF Apply, Do, Closes, KeepsOrderOpen
  <2> QED BY <1>t, <2>1, <2>2 DEF TaskState, Ends
<1>2. CASE Minor
  BY <1>2 DEF Minor
<1>3. CASE Major /\ ~\E t \in Task : Apply(t)
  <2>1. CASE \E h \in Handler : \/ InsertPayment(h) \/ Initiate(h)
                               \/ AskMercadoPago(h) \/ Commit(h) \/ CommitLost(h)
    BY <1>p, <1>t, <2>1 DEF InsertPayment, Initiate, AskMercadoPago, Commit, CommitLost
  <2>2. CASE \E t \in Task : MarkPaid(t) \/ QueueSale(t) \/ MarkCanceled(t)
    BY <2>2 DEF MarkPaid, QueueSale, MarkCanceled
  <2>3. CASE \E q \in Payment : AskNext(q) \/ RunRefund(q)
    BY <1>t, <2>3 DEF AskNext, RunRefund
  <2>4. CASE \E o \in Order : CloseOrder(o) \/ RunSale(o)
    BY <2>4 DEF CloseOrder, RunSale
  <2>5. CASE ExpirePayments
    BY <1>t, <2>5 DEF ExpirePayments
  <2> QED BY <1>3, <2>1, <2>2, <2>3, <2>4, <2>5 DEF Major
<1> QED BY <1>1, <1>2, <1>3, MinorOrMajor

(* A refund that was asked for is never withdrawn. *)
LEMMA RefundStays ==
  ASSUME TypeInv, [Next]_vars, NEW p \in Payment, refunding[p] # "no"
  PROVE  refunding'[p] # "no"
<1>t. refunding \in [Payment -> {"no", "asked", "done"}]
  BY DEF TypeInv, TypeOK
<1>1. ASSUME NEW t \in Task, AutoRefund(t) PROVE refunding'[p] # "no"
  BY <1>1, <1>t DEF AutoRefund
<1>2. ASSUME NEW q \in Payment, RunRefund(q) PROVE refunding'[p] # "no"
  BY <1>2, <1>t DEF RunRefund
<1>3. CASE UNCHANGED refunding
  BY <1>3
<1>s. ASSUME NEW t \in Task, SettleStep(t) PROVE AutoRefund(t) \/ UNCHANGED refunding
  BY <1>s DEF SettleStep, Apply, MarkPaid, QueueSale, MarkCanceled
<1>h. Worker \in Task /\ \A h \in Handler : h \in Task
  BY DEF Task
<1>4. CASE \E h \in Handler : HandlerStep(h) \/ CommitLost(h)
  BY <1>4, <1>1, <1>3, <1>s, <1>h
     DEF HandlerStep, InsertPayment, Initiate, AskMercadoPago, Commit, CommitLost
<1>5. CASE StartSweep \/ WorkerStep \/ Jobs
  BY <1>5, <1>1, <1>2, <1>3, <1>s, <1>h
     DEF StartSweep, WorkerStep, AskNext, ReconcileEnds, ExpirePayments, ListOrders,
         SweepEnds, CloseOrder, Jobs, RunSale
<1>6. CASE Buyer \/ \E h \in Handler, q \in Payment, e \in Event : Webhook(h, q, e)
  BY <1>6, <1>3 DEF Buyer, StartCheckout, Attempt, FormEnds, Return, Webhook
<1>7. CASE \/ \E q \in Payment : PaymentAges(q) \/ LookupFails(q)
           \/ \E o \in Order : OrderAges(o)
           \/ \E t \in Task : Throws(t)
           \/ Crash
           \/ UNCHANGED vars
  BY <1>7, <1>3 DEF PaymentAges, LookupFails, OrderAges, Throws, Crash, vars
<1> QED BY <1>4, <1>5, <1>6, <1>7 DEF Next

LEMMA HeldInit == Init => HeldInv
  BY DEF Init, HeldInv

LEMMA HeldStep == TypeInv /\ SellInv /\ HeldInv /\ [Next]_vars => HeldInv'
<1> SUFFICES ASSUME TypeInv, SellInv, HeldInv, [Next]_vars, faults' = 0,
                    NEW p \in Payment, payment'[p] = "COMPLETED"
             PROVE  \/ refunding'[p] # "no"
                    \/ p \in NowSold
                    \/ \E t \in Task : task'[t].payment = p /\ task'[t].pc \in Ends
  BY SoldAfter DEF HeldInv, Held
<1>1. faults = 0
  <2>1. faults \in Nat
    BY DEF TypeInv, TypeOK
  <2>2. faults' = faults \/ faults' = faults + 1
    BY DEF Next, vars, Buyer, StartCheckout, Attempt, FormEnds, Return, Webhook,
           HandlerStep, InsertPayment, Initiate, AskMercadoPago, Commit, CommitLost,
           SettleStep, Apply, MarkPaid, QueueSale, AutoRefund, MarkCanceled, StartSweep,
           WorkerStep, AskNext, ReconcileEnds, ExpirePayments, ListOrders, SweepEnds,
           CloseOrder, Jobs, RunSale, RunRefund, PaymentAges, LookupFails, OrderAges,
           Throws, Crash
  <2> QED BY <2>1, <2>2
<1>2. CASE payment[p] # "COMPLETED"
  BY <1>2, Completes
<1>3. CASE payment[p] = "COMPLETED" /\ refunding[p] # "no"
  BY <1>3, RefundStays
<1>4. CASE payment[p] = "COMPLETED" /\ p \in SoldSet
  BY <1>4, QuietOrSells, TakesOne, QueuesOne DEF Quiet
<1>5. ASSUME payment[p] = "COMPLETED", refunding[p] = "no",
             NEW t \in Task, task[t].payment = p, task[t].pc \in Ends
      PROVE  \/ refunding'[p] # "no"
             \/ p \in NowSold
             \/ \E u \in Task : task'[u].payment = p /\ task'[u].pc \in Ends
  <2>1. CASE QueueSale(t)
    BY <1>5, <2>1, QueuesOne
  <2>2. CASE AutoRefund(t)
    BY <1>5, <2>2 DEF AutoRefund, Refundable, TypeInv, TypeOK
  <2> QED BY <1>1, <1>5, <2>1, <2>2, EndsStay
<1> QED BY <1>1, <1>2, <1>3, <1>4, <1>5 DEF HeldInv, Held

(* While nothing failed, no completed payment is forgotten, whoever settles it
   and however often: it sold its order, is given back, or is in the hands of
   the request that completed it. *)
THEOREM CompletedIsHeld == Spec => []HeldInv
<1>1. Init => TypeInv /\ SellInv /\ HeldInv
  BY TypeInit, SellInit, HeldInit
<1>2. TypeInv /\ SellInv /\ HeldInv /\ [Next]_vars => (TypeInv /\ SellInv /\ HeldInv)'
  BY TypeStep, SellStep, HeldStep
<1> QED BY <1>1, <1>2, PTL DEF Spec

(* A buyer who pays an order twice gets one of the payments back: once all
   requests are over and nothing failed, of two completed payments of an order
   one is being refunded. *)
THEOREM ChargesAreSingle == Spec => []NoDoubleCharge
<1>1. Spec => []HeldInv
  BY CompletedIsHeld
<1>2. Spec => []SoldOnce
  BY SalesAreSingle
<1>3. HeldInv /\ SoldOnce => NoDoubleCharge
  BY DEF HeldInv, Held, SoldOnce, NoDoubleCharge, SoldSet, Ends
<1> QED BY <1>1, <1>2, <1>3, PTL

-----------------------------------------------------------------------------
LEMMA LifeInit == Init => Life!Init
  BY IdleType DEF Init, Life!Init, Sold

LEMMA LifeStep == TypeInv /\ SellInv /\ [Next]_vars => [Life!Next]_<<order, SoldSet>>
<1> SUFFICES ASSUME TypeInv, SellInv, [Next]_vars
             PROVE  [Life!Next]_<<order, SoldSet>>
  OBVIOUS
<1>1. CASE Quiet
  <2>1. SoldSet' = SoldSet
    BY <1>1, SoldAfter DEF Quiet
  <2>2. ASSUME NEW o \in Order, order[o] = "PENDING_PAYMENT",
               order' = [order EXCEPT ![o] = "CANCELED"]
        PROVE  Life!Next
    <3>1. Life!Cancel(o)
      BY <2>1, <2>2 DEF Life!Cancel, SoldSet
    <3> QED BY <3>1 DEF Life!Next
  <2>3. ASSUME NEW o \in Order, order[o] = "PAID",
               order' = [order EXCEPT ![o] = "REFUNDED"]
        PROVE  Life!Next
    <3>1. Life!Refund(o)
      BY <2>1, <2>3 DEF Life!Refund, SoldSet
    <3> QED BY <3>1 DEF Life!Next
  <2> QED BY <1>1, <2>1, <2>2, <2>3 DEF Quiet, OrderMoves
<1>2. ASSUME NEW t \in Task, Takes(t) PROVE Life!Next
  <2>1. Life!Pay(OrderOf[task[t].payment])
    BY <1>2, TakesOne, SoldAfter DEF Takes, Life!Pay, SoldSet
  <2> QED BY <1>2, <2>1, TakesOne DEF Life!Next
<1>3. ASSUME NEW t \in Task, QueueSale(t) PROVE Life!Next
  <2> DEFINE p == task[t].payment
  <2>1. /\ p \in Payment /\ task[t].pc = "sell" /\ order' = order
        /\ SoldSet' = SoldSet \cup {p}
    BY <1>3, QueuesOne, SoldAfter
  <2>2. order[OrderOf[p]] \in {"PAID", "REFUNDED"} /\ \A q \in SoldSet : OrderOf[q] # OrderOf[p]
    BY <2>1 DEF SellInv, Paid
  <2> HIDE DEF p
  <2>3. Life!Sell(p)
    BY <2>1, <2>2 DEF Life!Sell, SoldSet
  <2> QED BY <2>1, <2>3 DEF Life!Next
<1> QED BY QuietOrSells, <1>1, <1>2, <1>3

(* The whole payment flow implements the plain life of an order. *)
THEOREM ImplementsOrderLife == Spec => KeepsLife
<1>1. Spec => [](TypeInv /\ SellInv)
  <2>1. Init => TypeInv /\ SellInv
    BY TypeInit, SellInit
  <2>2. TypeInv /\ SellInv /\ [Next]_vars => (TypeInv /\ SellInv)'
    BY TypeStep, SellStep
  <2> QED BY <2>1, <2>2, PTL DEF Spec
<1>2. TypeInv /\ SellInv /\ [Next]_vars => [Life!Next]_<<order, {p \in Payment : Sold(p)}>>
  BY LifeStep DEF SoldSet
<1> QED BY <1>1, <1>2, LifeInit, PTL DEF Spec, KeepsLife, Life!Spec
=============================================================================
