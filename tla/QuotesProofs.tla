----------------------------- MODULE QuotesProofs -----------------------------
(***************************************************************************)
(* Proofs about Quotes, for any payments and quotations, any number of     *)
(* requests at the same time, of attempts and of faults.                   *)
(***************************************************************************)
EXTENDS Quotes, TLAPS

(* Who is in the middle of something is so for a payment, an answer that is
   applied was given, and the worker's job is of a quotation. *)
TaskOK(t) ==
  /\ t.pc \notin {"idle", "sweep"} => t.payment \in Payment
  /\ t.pc = "apply" => t.answer \in PaymentStatus
  /\ t.pc \in {"refund", "notify", "send"} => IsQuote(t.payment)

TypeInv ==
  /\ TypeOK
  /\ \A a \in Actor : TaskOK(task[a])
  /\ \A p \in Payment : job[p].state = "waiting" => IsQuote(p)

Tasks == task \in [Actor -> Task]

LEMMA IdleType ==
  /\ Idle \in Task /\ Idle.pc = "idle"
  /\ Worker \in Actor /\ \A h \in Handler : h \in Actor
  BY DEF Idle, Task, Actor

LEMMA TypeInit == Init => TypeInv
<1> SUFFICES ASSUME Init PROVE TypeInv
  OBVIOUS
<1>1. TypeOK
  BY IdleType DEF Init, TypeOK, PaymentStatus
<1>2. \A a \in Actor : TaskOK(task[a])
  BY IdleType DEF Init, TaskOK
<1>3. \A p \in Payment : job[p].state # "waiting"
  BY DEF Init
<1> QED BY <1>1, <1>2, <1>3 DEF TypeInv

(* One actor moves. *)
LEMMA SetType ==
  ASSUME Tasks, NEW a \in Actor, NEW y \in Task,
         task' = [task EXCEPT ![a] = y]
  PROVE  /\ Tasks' /\ task'[a] = y
         /\ \A b \in Actor : b # a => task'[b] = task[b]
  BY DEF Tasks, Actor

LEMMA GotoMoves ==
  ASSUME Tasks, NEW a \in Actor,
         NEW pc \in {"settle", "send"}, Goto(a, pc)
  PROVE  /\ Tasks' /\ task'[a].pc = pc
         /\ task'[a].payment = task[a].payment
         /\ \A b \in Actor : b # a => task'[b] = task[b]
<1> DEFINE y == [task[a] EXCEPT !.pc = pc]
<1>1. task[a] \in Task
  BY DEF Tasks
<1>2. y \in Task /\ y.pc = pc /\ y.payment = task[a].payment
  BY <1>1 DEF Task
<1>3. task' = [task EXCEPT ![a] = y]
  BY DEF Goto, Tasks
<1> HIDE DEF y
<1> QED BY <1>2, <1>3, SetType

LEMMA LeaveMoves ==
  ASSUME Tasks, NEW a \in Actor, Leave(a)
  PROVE  /\ Tasks' /\ task'[a].pc \in {"idle", "sweep"}
         /\ \A b \in Actor : b # a => task'[b] = task[b]
<1> DEFINE z == [Idle EXCEPT !.pc = "sweep", !.list = task[a].list,
                             !.stale = task[a].stale]
           y == IF task[a].from = "sweep" THEN z ELSE Idle
<1>1. task[a] \in Task
  BY DEF Tasks
<1>2. z \in Task /\ z.pc = "sweep"
  BY <1>1, IdleType DEF Task, Idle
<1>3. task' = [task EXCEPT ![a] = y]
  BY DEF Leave
<1>4. y \in Task /\ y.pc \in {"idle", "sweep"}
  BY <1>2, IdleType
<1> HIDE DEF y
<1> QED BY <1>3, <1>4, SetType

Charge == {"none", "authorized", "charged", "rejected", "cancelled"}

LEMMA AnswerType ==
  ASSUME NEW p, charge[p] \in Charge
  PROVE  /\ Answer(p) \in PaymentStatus
         /\ Answer(p) = "COMPLETED" => charge[p] \in {"authorized", "charged"}
  BY DEF Answer, CommitResult, MapStatus, PaymentStatus, Charge

(* How an actor comes to be where it is: it was there, or the call before it
   ended as it had to. *)
Moves(a) ==
  \/ task'[a] = task[a]
  \/ task'[a].pc \in {"idle", "sweep"}
  \/ task'[a].pc \in {"initiate", "ask"} /\ task'[a].payment \in Payment
  \/ /\ Ask(a) /\ task'[a].pc = "apply"
     /\ task'[a].payment = task[a].payment
     /\ task'[a].answer = Answer(task[a].payment)
  \/ /\ CommitLost(a) /\ task'[a].pc = "apply"
     /\ task'[a].payment = task[a].payment
     /\ task'[a].answer = "FAILED"
  \/ /\ Apply(a) /\ task'[a].pc = "settle"
     /\ task'[a].payment = task[a].payment
     /\ task[a].answer = "COMPLETED"
  \/ \E p \in Payment :
       /\ a = Worker /\ task'[a].payment = p
       /\ \/ MarkQuotationPaid(p) /\ task'[a].pc = "notify"
          \/ QuotationRefused(p) /\ task'[a].pc = "refund"
  \/ /\ a = Worker /\ NoteQuotationPaid /\ task'[a].pc = "send"
     /\ task[a].payment \notin noted
     /\ task'[a].payment = task[a].payment

TasksMove == Tasks' /\ \A a \in Actor : Moves(a)

LEMMA TaskMoves ==
  ASSUME TypeInv, [Next]_vars
  PROVE  TasksMove
<1>t. /\ Tasks
      /\ \A a \in Actor : /\ task[a] \in Task
                          /\ ~At(a, "idle") /\ ~At(a, "sweep") => task[a].payment \in Payment
      /\ status \in [Payment -> PaymentStatus] /\ opened \subseteq Payment
  BY DEF TypeInv, Tasks, TypeOK, TaskOK, At
<1> DEFINE Begins(y) == \/ y.pc \in {"idle", "sweep"}
                        \/ y.pc \in {"initiate", "ask"} /\ y.payment \in Payment
<1>u. ASSUME UNCHANGED task PROVE TasksMove
  BY <1>t, <1>u DEF TasksMove, Tasks, Moves, Actor
<1>l. ASSUME NEW a \in Actor, Leave(a) PROVE TasksMove
  BY <1>t, <1>l, LeaveMoves DEF Moves, TasksMove
<1>s. ASSUME NEW a \in Actor, NEW y \in Task, Begins(y),
             task' = [task EXCEPT ![a] = y]
      PROVE  TasksMove
  <2>1. /\ Tasks' /\ task'[a] = y
        /\ \A b \in Actor : b # a => task'[b] = task[b]
    BY <1>t, <1>s, SetType
  <2>2. Moves(a)
    BY <1>s, <2>1 DEF Moves
  <2> QED BY <2>1, <2>2 DEF Moves, TasksMove
<1>1. ASSUME NEW h \in Handler, Initiate(h) PROVE TasksMove
  BY <1>1, <1>l, IdleType DEF Initiate
<1>2. ASSUME NEW h \in Handler, NEW p \in Payment, CreatePayment(h, p) PROVE TasksMove
  <2> DEFINE y == [task[h] EXCEPT !.pc = "initiate", !.payment = p]
  <2>1. y \in Task /\ y.pc = "initiate" /\ y.payment = p
    BY <1>t, IdleType DEF Task
  <2>2. task' = [task EXCEPT ![h] = y]
    BY <1>t, <1>2, IdleType DEF CreatePayment, Tasks
  <2> HIDE DEF y
  <2> QED BY <1>s, <2>1, <2>2, IdleType
<1>3. ASSUME NEW h \in Handler, NEW p \in Payment, NEW from \in {"return", "webhook"},
             Loads(h, p, from)
      PROVE  TasksMove
  <2> DEFINE y == [Idle EXCEPT !.pc = "ask", !.payment = p, !.from = from, !.seen = status[p]]
  <2>1. y \in Task /\ y.pc = "ask" /\ y.payment = p
    BY <1>t, IdleType DEF Task, Idle
  <2>2. task' = [task EXCEPT ![h] = y]
    BY <1>3 DEF Loads
  <2> HIDE DEF y
  <2> QED BY <1>s, <2>1, <2>2, IdleType
<1>4. ASSUME NEW h \in Handler, NEW p \in Payment, Return(h, p) \/ Webhook(h, p) PROVE TasksMove
  BY <1>3, <1>4, <1>u DEF Return, Webhook
<1>5. ASSUME NEW a \in Actor, Ask(a) PROVE TasksMove
  <2> DEFINE w == Answer(task[a].payment)
             y == [task[a] EXCEPT !.pc = "apply", !.answer = w]
  <2>1. w \in PaymentStatus
    BY <1>t, <1>5, AnswerType DEF Ask, At, TypeInv, TypeOK, Charge
  <2>2. Leave(a) \/ task' = [task EXCEPT ![a] = y]
    BY <1>t, <1>5 DEF Ask, Tasks
  <2> HIDE DEF w
  <2>3. y \in Task /\ y.pc = "apply" /\ y.answer = w /\ y.payment = task[a].payment
    BY <1>t, <2>1 DEF Task
  <2> HIDE DEF y
  <2> QED BY <1>t, <1>5, <1>l, <2>2, <2>3, SetType DEF Moves, w, TasksMove
<1>5a. ASSUME NEW a \in Actor, CommitLost(a) PROVE TasksMove
  <2> DEFINE y == [task[a] EXCEPT !.pc = "apply", !.answer = "FAILED"]
  <2>1. task' = [task EXCEPT ![a] = y]
    BY <1>t, <1>5a DEF CommitLost, Tasks
  <2>2. y \in Task /\ y.pc = "apply" /\ y.answer = "FAILED" /\ y.payment = task[a].payment
    BY <1>t DEF Task, PaymentStatus
  <2> HIDE DEF y
  <2> QED BY <1>t, <1>5a, <2>1, <2>2, SetType DEF Moves, TasksMove
<1>6. ASSUME NEW a \in Actor, Apply(a) PROVE TasksMove
  <2>1. Leave(a) \/ (Goto(a, "settle") /\ task[a].answer = "COMPLETED")
    BY <1>6 DEF Apply
  <2> QED BY <1>t, <1>6, <1>l, <2>1, GotoMoves DEF Moves, TasksMove
<1>7. ASSUME NEW a \in Actor, AskFails(a) \/ QueueQuotation(a) \/ ActivateMembership(a)
      PROVE  TasksMove
  BY <1>7, <1>l DEF AskFails, QueueQuotation, ActivateMembership
<1>8. ASSUME NEW pc \in {"notify", "refund"}, NEW p \in Payment, WorkerGoes(pc, p)
      PROVE  /\ Tasks' /\ task'[Worker].pc = pc /\ task'[Worker].payment = p
             /\ \A b \in Actor : b # Worker => task'[b] = task[b]
  <2> DEFINE y == [Idle EXCEPT !.pc = pc, !.payment = p]
  <2>1. y \in Task /\ y.pc = pc /\ y.payment = p
    BY IdleType DEF Task, Idle
  <2>2. task' = [task EXCEPT ![Worker] = y]
    BY <1>8 DEF WorkerGoes
  <2> HIDE DEF y
  <2> QED BY <1>t, <2>1, <2>2, SetType, IdleType
<1>9. ASSUME NEW p \in Payment, MarkQuotationPaid(p) PROVE TasksMove
  <2>1. WorkerGoes("notify", p)
    BY <1>9 DEF MarkQuotationPaid
  <2> QED BY <1>8, <1>9, <2>1 DEF Moves, TasksMove
<1>10. ASSUME NEW p \in Payment, QuotationRefused(p) PROVE TasksMove
  <2>1. WorkerGoes("refund", p)
    BY <1>10 DEF QuotationRefused
  <2> QED BY <1>8, <1>10, <2>1 DEF Moves, TasksMove
<1>11. CASE RequestRefund \/ NotifyQuotationPaid
  BY <1>11, <1>l, IdleType DEF RequestRefund, NotifyQuotationPaid
<1>12. CASE NoteQuotationPaid
  <2>1. Leave(Worker) \/ (Goto(Worker, "send") /\ task[Worker].payment \notin noted)
    BY <1>12 DEF NoteQuotationPaid
  <2> QED BY <1>t, <1>12, <1>l, <2>1, GotoMoves, IdleType DEF Moves, TasksMove
<1>13. ASSUME NEW stale \in SUBSET opened, StartSweep(stale) PROVE TasksMove
  <2> DEFINE l == {p \in stale : Provider[p] = "MERCADOPAGO"
                                   /\ status[p] \in Waiting \cup {"FAILED"}}
             y == [Idle EXCEPT !.pc = "sweep", !.stale = stale, !.list = l]
  <2>1. stale \in SUBSET Payment /\ l \in SUBSET Payment
    BY <1>t
  <2>2. task' = [task EXCEPT ![Worker] = y]
    BY <1>13 DEF StartSweep
  <2> HIDE DEF l
  <2>3. y \in Task /\ y.pc = "sweep"
    BY <2>1, IdleType DEF Task, Idle
  <2> HIDE DEF y
  <2> QED BY <1>s, <2>2, <2>3, IdleType
<1>14. ASSUME NEW p \in Payment, AskNext(p) PROVE TasksMove
  <2> DEFINE t == task[Worker]
             y == [t EXCEPT !.pc = "ask", !.payment = p, !.from = "sweep", !.list = t.list \ {p}]
  <2>1. t \in Task
    BY <1>t, IdleType
  <2>2. y \in Task /\ y.pc = "ask" /\ y.payment = p
    BY <2>1 DEF Task
  <2>3. task' = [task EXCEPT ![Worker] = y]
    BY <1>t, <1>14, IdleType DEF AskNext, Tasks
  <2> HIDE DEF y, t
  <2> QED BY <1>s, <2>2, <2>3, IdleType
<1>15. ASSUME NEW stale \in SUBSET opened, ExpireStale(stale) PROVE TasksMove
  BY <1>15, <1>s, IdleType DEF ExpireStale
<1>16. CASE Crash
  BY <1>16, IdleType DEF Crash, Tasks, Moves, TasksMove
<1>17. ASSUME NEW p \in Payment,
              Pay(p) \/ SkipQuotation(p) \/ MarkThrows(p) \/ RefundEnds(p)
       PROVE  TasksMove
  BY <1>17, <1>u DEF Pay, SkipQuotation, MarkThrows, RefundEnds
<1>18. ASSUME NEW q \in Quotation, Withdraw(q) PROVE TasksMove
  BY <1>18, <1>u DEF Withdraw
<1>19. CASE UNCHANGED vars
  BY <1>19, <1>u DEF vars
<1>20. ASSUME NEW a \in Actor, SettleStep(a) PROVE TasksMove
  BY <1>5, <1>5a, <1>6, <1>7, <1>20 DEF SettleStep
<1>21. ASSUME NEW p \in Payment, QuotationStep(p) PROVE TasksMove
  BY <1>9, <1>10, <1>17, <1>21 DEF QuotationStep
<1>22. CASE WorkerStep
  BY <1>11, <1>12, <1>14, <1>15, <1>22 DEF WorkerStep
<1> QED
  BY <1>1, <1>2, <1>4, <1>13, <1>16, <1>17, <1>18, <1>19, <1>20, <1>21, <1>22 DEF Next

LEMMA TypeStep ==
  ASSUME TypeInv, [Next]_vars
  PROVE  TypeInv'
<1>t. TypeOK
  BY DEF TypeInv
<1>m. Tasks' /\ \A a \in Actor : Moves(a)
  BY TaskMoves DEF TasksMove
<1>p. \A a \in Actor : task[a].pc \notin {"idle", "sweep"} => task[a].payment \in Payment
  BY DEF TypeInv, TaskOK
<1>1. ASSUME NEW a \in Actor PROVE TaskOK(task[a])'
  <2>1. CASE task'[a] = task[a]
    BY <2>1 DEF TypeInv, TaskOK, IsQuote
  <2>2. CASE Ask(a) /\ task'[a].pc = "apply"
    <3>1. task[a].pc = "ask"
      BY <2>2 DEF Ask, At
    <3>2. task[a].payment \in Payment /\ Answer(task[a].payment) \in PaymentStatus
      BY <1>p, <1>t, <3>1, AnswerType DEF TypeOK, Charge
    <3> QED BY <2>2, <3>1, <3>2, <1>m
            DEF Moves, TaskOK, PaymentStatus, Apply, At
  <2>2a. CASE /\ CommitLost(a) /\ task'[a].pc = "apply"
              /\ task'[a].payment = task[a].payment /\ task'[a].answer = "FAILED"
    BY <1>p, <2>2a DEF TaskOK, PaymentStatus, CommitLost, At
  <2>3. CASE /\ Apply(a) /\ task'[a].pc = "settle"
             /\ task'[a].payment = task[a].payment
    BY <1>p, <2>3 DEF TaskOK, Apply, At
  <2>4. ASSUME NEW p \in Payment, task'[a].payment = p,
               MarkQuotationPaid(p) \/ QuotationRefused(p),
               task'[a].pc \in {"notify", "refund"}
        PROVE  TaskOK(task[a])'
    <3>1. IsQuote(p)
      BY <2>4 DEF MarkQuotationPaid, QuotationRefused, Runs, TypeInv
    <3> QED BY <2>4, <3>1 DEF TaskOK, IsQuote
  <2>5. CASE a = Worker /\ NoteQuotationPaid /\ task'[a].pc = "send"
    BY <1>m, <2>5, IdleType DEF Moves, TaskOK, TypeInv, NoteQuotationPaid, At, IsQuote
  <2>6. CASE task'[a].pc \in {"idle", "sweep"}
    BY <2>6 DEF TaskOK
  <2>7. CASE task'[a].pc \in {"initiate", "ask"} /\ task'[a].payment \in Payment
    BY <2>7 DEF TaskOK
  <2>8. Moves(a)
    BY <1>m
  <2> QED BY <2>1, <2>2, <2>2a, <2>3, <2>4, <2>5, <2>6, <2>7, <2>8 DEF Moves
<1>2. ASSUME NEW p \in Payment, job'[p].state = "waiting" PROVE IsQuote(p)'
  <2>1. job[p].state = "waiting" => IsQuote(p)'
    BY DEF TypeInv, IsQuote
  <2>2. ASSUME NEW a \in Actor, QueueQuotation(a) PROVE IsQuote(p)'
    BY <1>2, <1>t, <2>1, <2>2 DEF QueueQuotation, TypeOK, IsQuote
  <2>3. ASSUME NEW r \in Payment, AttemptFails(r), job[r].state = "waiting" \/ IsQuote(r)
        PROVE  IsQuote(p)'
    BY <1>2, <1>t, <2>1, <2>3 DEF AttemptFails, TypeOK, IsQuote, TypeInv
  <2>4. ASSUME NEW r \in Payment, Done(r) PROVE IsQuote(p)'
    BY <1>2, <1>t, <2>1, <2>4 DEF Done, TypeOK
  <2>5. CASE RequestRefund
    <3>1. task[Worker].payment \in Payment /\ IsQuote(task[Worker].payment)
      BY <1>p, <2>5, IdleType DEF RequestRefund, At, TypeInv, TaskOK
    <3> QED BY <2>3, <2>4, <2>5, <3>1 DEF RequestRefund
  <2>6. CASE NoteQuotationPaid \/ NotifyQuotationPaid
    <3>1. task[Worker].payment \in Payment
      BY <1>p, <2>6, IdleType DEF NoteQuotationPaid, NotifyQuotationPaid, At
    <3> QED BY <2>1, <2>4, <2>6, <1>2, <3>1 DEF NoteQuotationPaid, NotifyQuotationPaid
  <2>7. ASSUME NEW r \in Payment, SkipQuotation(r) \/ MarkThrows(r) PROVE IsQuote(p)'
    BY <2>3, <2>4, <2>7 DEF SkipQuotation, MarkThrows, Runs
  <2>8. CASE UNCHANGED job
    BY <1>2, <2>1, <2>8
  <2>9. ASSUME NEW a \in Actor, SettleStep(a) PROVE IsQuote(p)'
    BY <2>2, <2>8, <2>9 DEF SettleStep, Ask, CommitLost, AskFails, Apply, ActivateMembership
  <2>10. ASSUME NEW r \in Payment, QuotationStep(r) PROVE IsQuote(p)'
    BY <2>7, <2>8, <2>10 DEF QuotationStep, MarkQuotationPaid, QuotationRefused
  <2>11. CASE WorkerStep
    BY <2>5, <2>6, <2>8, <2>11 DEF WorkerStep, ExpireStale, AskNext
  <2>12. ASSUME NEW h \in Handler, NEW r \in Payment,
                CreatePayment(h, r) \/ Return(h, r) \/ Webhook(h, r)
         PROVE  IsQuote(p)'
    BY <2>8, <2>12 DEF CreatePayment, Return, Webhook
  <2>13. ASSUME NEW r \in Payment, Pay(r) \/ RefundEnds(r) PROVE IsQuote(p)'
    BY <2>8, <2>13 DEF Pay, RefundEnds
  <2>14. CASE \/ \E h \in Handler : Initiate(h)
              \/ \E q \in Quotation : Withdraw(q)
              \/ Crash
              \/ \E stale \in SUBSET opened : StartSweep(stale)
              \/ UNCHANGED vars
    BY <2>8, <2>14 DEF Initiate, Withdraw, Crash, StartSweep, vars
  <2> QED BY <2>9, <2>10, <2>11, <2>12, <2>13, <2>14 DEF Next
<1>3. TypeOK'
  <2> USE <1>t, <1>m DEF TypeOK, Tasks, provider, services, mail
  <2>d. ASSUME NEW p \in Payment, Done(p)
        PROVE  job' \in [Payment -> [state : {"none", "waiting", "done", "failed"}, made : Nat]]
    BY <2>d DEF Done
  <2>f. ASSUME NEW p \in Payment, AttemptFails(p)
        PROVE  job' \in [Payment -> [state : {"none", "waiting", "done", "failed"}, made : Nat]]
    BY <2>f DEF AttemptFails
  <2>1. ASSUME NEW h \in Handler, Initiate(h) PROVE TypeOK'
    <3>1. task[h].payment \in Payment
      BY <1>p, <2>1, IdleType DEF Initiate, At
    <3> QED BY <2>1, <3>1 DEF Initiate, Fault, PaymentStatus
  <2>2. ASSUME NEW h \in Handler, NEW p \in Payment,
               CreatePayment(h, p) \/ Return(h, p) \/ Webhook(h, p)
        PROVE  TypeOK'
    <3>1. requests' \in Nat
      BY <2>2 DEF CreatePayment, Return, Webhook, Request
    <3>2. CASE CreatePayment(h, p)
      BY <3>1, <3>2 DEF CreatePayment, PaymentStatus
    <3>3. CASE Return(h, p) \/ Webhook(h, p)
      BY <3>1, <3>3 DEF Return, Webhook
    <3> QED BY <2>2, <3>2, <3>3
  <2>3. ASSUME NEW p \in Payment, Pay(p) \/ RefundEnds(p) PROVE TypeOK'
    <3>1. CASE Pay(p)
      BY <3>1 DEF Pay
    <3>2. CASE RefundEnds(p)
      BY <3>2 DEF RefundEnds, PaymentStatus
    <3> QED BY <2>3, <3>1, <3>2
  <2>4. ASSUME NEW a \in Actor, SettleStep(a) PROVE TypeOK'
    <3>1. CASE Ask(a)
      BY <3>1 DEF Ask
    <3>2. CASE Apply(a)
      <4>1. task[a].answer \in PaymentStatus
        BY <3>2 DEF Apply, At, TypeInv, TaskOK
      <4> QED BY <3>2, <4>1 DEF Apply
    <3>2a. CASE CommitLost(a)
      BY <3>2a DEF CommitLost, Fault
    <3>3. CASE AskFails(a)
      BY <3>3 DEF AskFails, Fault
    <3>4. CASE QueueQuotation(a)
      BY <3>4 DEF QueueQuotation
    <3>5. CASE ActivateMembership(a)
      <4>1. task[a].payment \in Payment
        BY <1>p, <3>5 DEF ActivateMembership, At
      <4> QED BY <3>5, <4>1 DEF ActivateMembership, Fault
    <3> QED BY <2>4, <3>1, <3>2, <3>2a, <3>3, <3>4, <3>5 DEF SettleStep
  <2>5. ASSUME NEW p \in Payment, QuotationStep(p) PROVE TypeOK'
    <3>1. CASE SkipQuotation(p)
      BY <2>d, <3>1 DEF SkipQuotation
    <3>2. CASE MarkQuotationPaid(p)
      BY <3>2 DEF MarkQuotationPaid
    <3>3. CASE MarkThrows(p)
      BY <2>f, <3>3 DEF MarkThrows
    <3>4. CASE QuotationRefused(p)
      BY <3>4 DEF QuotationRefused
    <3> QED BY <2>5, <3>1, <3>2, <3>3, <3>4 DEF QuotationStep
  <2>6. CASE RequestRefund
    <3>1. job' \in [Payment -> [state : {"none", "waiting", "done", "failed"}, made : Nat]]
      <4>1. task[Worker].payment \in Payment
        BY <1>p, <2>6, IdleType DEF RequestRefund, At
      <4> QED BY <2>d, <2>f, <2>6, <4>1 DEF RequestRefund
    <3>2. refund' \in [Payment -> {"none", "requested", "returned", "refused"}]
      BY <2>6 DEF RequestRefund
    <3> QED BY <2>6, <3>1, <3>2 DEF RequestRefund
  <2>7. CASE NoteQuotationPaid
    <3>1. task[Worker].payment \in Payment
      BY <1>p, <2>7, IdleType DEF NoteQuotationPaid, At
    <3> QED BY <2>d, <2>7, <3>1 DEF NoteQuotationPaid
  <2>8. CASE NotifyQuotationPaid
    <3>1. task[Worker].payment \in Payment
      BY <1>p, <2>8, IdleType DEF NotifyQuotationPaid, At
    <3>2. notices' \in [Payment -> Nat] /\ faults' \in Nat
      BY <2>8, <3>1 DEF NotifyQuotationPaid, Fault
    <3> QED BY <2>d, <2>8, <3>1, <3>2 DEF NotifyQuotationPaid
  <2>9. ASSUME NEW stale \in SUBSET opened, ExpireStale(stale) PROVE TypeOK'
    BY <2>9 DEF ExpireStale, PaymentStatus
  <2>10. CASE WorkerStep
    BY <2>6, <2>7, <2>8, <2>9, <2>10 DEF WorkerStep, AskNext
  <2>11. CASE \E stale \in SUBSET opened : StartSweep(stale)
    BY <2>11 DEF StartSweep
  <2>12. CASE \E q \in Quotation : Withdraw(q)
    BY <2>12 DEF Withdraw
  <2>13. CASE Crash
    BY <2>13 DEF Crash, Fault
  <2>14. CASE UNCHANGED vars
    BY <2>14 DEF vars
  <2> QED BY <2>1, <2>2, <2>3, <2>4, <2>5, <2>10, <2>11, <2>12, <2>13, <2>14 DEF Next
<1> QED BY <1>1, <1>2, <1>3 DEF TypeInv

(* Every reachable state of the payments without an order is well typed, for
   any quotations, payments, requests and errors. *)
THEOREM TypeCorrect == Spec => []TypeOK
<1>1. Init => TypeInv
  BY TypeInit
<1>2. TypeInv /\ [Next]_vars => TypeInv'
  BY TypeStep
<1>3. TypeInv => TypeOK
  BY DEF TypeInv
<1> QED BY <1>1, <1>2, <1>3, PTL DEF Spec

-----------------------------------------------------------------------------
(* What is stamped and told.  The steps that change a row; the others move
   requests and jobs. *)
Rows == <<status, charge, accepted, paid, active, refund, noted, notices>>

RowStep ==
  \/ \E h \in Handler, p \in Payment : CreatePayment(h, p)
  \/ \E h \in Handler : Initiate(h)
  \/ \E a \in Actor :
       Ask(a) \/ CommitLost(a) \/ Apply(a) \/ ActivateMembership(a)
  \/ \E p \in Payment :
       Pay(p) \/ RefundEnds(p) \/ MarkQuotationPaid(p) \/ MarkThrows(p)
  \/ \E q \in Quotation : Withdraw(q)
  \/ RequestRefund \/ NoteQuotationPaid \/ NotifyQuotationPaid
  \/ \E stale \in SUBSET opened : ExpireStale(stale)

LEMMA Steps ==
  ASSUME [Next]_vars PROVE RowStep \/ UNCHANGED Rows
<1> USE DEF provider, services, mail, Rows
<1>1. ASSUME NEW h \in Handler, NEW p \in Payment, Return(h, p) \/ Webhook(h, p)
      PROVE  UNCHANGED Rows
  BY <1>1 DEF Return, Webhook
<1>2. ASSUME NEW a \in Actor, AskFails(a) \/ QueueQuotation(a) PROVE UNCHANGED Rows
  BY <1>2 DEF AskFails, QueueQuotation
<1>3. ASSUME NEW p \in Payment, SkipQuotation(p) \/ QuotationRefused(p) \/ AskNext(p)
      PROVE  UNCHANGED Rows
  BY <1>3 DEF SkipQuotation, QuotationRefused, AskNext
<1>4. ASSUME NEW stale \in SUBSET opened, StartSweep(stale) PROVE UNCHANGED Rows
  BY <1>4 DEF StartSweep
<1>5. Crash \/ UNCHANGED vars => UNCHANGED Rows
  BY DEF Crash, vars
<1> HIDE DEF Rows
<1>6. ASSUME NEW a \in Actor, SettleStep(a) PROVE RowStep \/ UNCHANGED Rows
  BY <1>2, <1>6 DEF SettleStep, RowStep
<1>7. ASSUME NEW p \in Payment, QuotationStep(p) PROVE RowStep \/ UNCHANGED Rows
  BY <1>3, <1>7 DEF QuotationStep, RowStep
<1>8. CASE WorkerStep
  BY <1>3, <1>8 DEF WorkerStep, RowStep
<1>9. ASSUME NEW h \in Handler, NEW p \in Payment,
             CreatePayment(h, p) \/ Return(h, p) \/ Webhook(h, p)
      PROVE  RowStep \/ UNCHANGED Rows
  BY <1>1, <1>9 DEF RowStep
<1>10. ASSUME \/ \E h \in Handler : Initiate(h)
              \/ \E p \in Payment : Pay(p) \/ RefundEnds(p)
              \/ \E q \in Quotation : Withdraw(q)
       PROVE  RowStep
  BY <1>10 DEF RowStep
<1> QED BY <1>4, <1>5, <1>6, <1>7, <1>8, <1>9, <1>10 DEF Next

Kept(p) == IsQuote(p) /\ paid[QuoteOf[p]] = p

(* A stamp stays, and who could not stamp a quotation never can. *)
LEMMA StampMoves ==
  ASSUME TypeInv, [Next]_vars, NEW p \in Payment, IsQuote(p)
  PROVE  /\ Kept(p) => Kept(p)'
         /\ Kept(p)' => Kept(p) \/ (status[p] = "COMPLETED" /\ status' = status)
         /\ Stamps(p)' => Stamps(p)
<1> DEFINE q == QuoteOf[p]
<1>q. q \in Quotation /\ None # p /\ paid \in [Quotation -> Payment \cup {None}]
  BY QuoteOfType, ActorsAreApart, NoneIsNothing DEF IsQuote, TypeInv, TypeOK
<1>1. CASE UNCHANGED paid /\ accepted' \subseteq accepted
  BY <1>1 DEF Kept, IsQuote, Stamps
<1>2. ASSUME NEW r \in Payment, Stamps(r), paid' = [paid EXCEPT ![QuoteOf[r]] = r],
             status[r] = "COMPLETED", UNCHANGED <<status, accepted>>
      PROVE  /\ Kept(p) => Kept(p)'
             /\ Kept(p)' => Kept(p) \/ (status[p] = "COMPLETED" /\ status' = status)
             /\ Stamps(p)' => Stamps(p)
  <2>1. CASE QuoteOf[r] = q
    <3>1. paid'[q] = r /\ (paid[q] = r \/ (paid[q] = None /\ q \in accepted))
      BY <1>q, <1>2, <2>1 DEF Stamps
    <3>2. r # None
      BY QuoteOfType, ActorsAreApart, NoneIsNothing
    <3> QED BY <1>q, <1>2, <3>1, <3>2 DEF Kept, IsQuote, Stamps
  <2>2. CASE QuoteOf[r] # q
    <3>1. paid'[q] = paid[q]
      BY <1>q, <1>2, <2>2
    <3> QED BY <1>2, <3>1 DEF Kept, IsQuote, Stamps
  <2> QED BY <2>1, <2>2
<1>3. ASSUME NEW r \in Payment, MarkQuotationPaid(r) \/ MarkThrows(r)
      PROVE  \/ UNCHANGED paid /\ accepted' \subseteq accepted
             \/ /\ Stamps(r) /\ paid' = [paid EXCEPT ![QuoteOf[r]] = r]
                /\ status[r] = "COMPLETED" /\ UNCHANGED <<status, accepted>>
  BY <1>3 DEF MarkQuotationPaid, MarkThrows
<1>4. \/ UNCHANGED paid /\ accepted' \subseteq accepted
      \/ \E r \in Payment : MarkQuotationPaid(r) \/ MarkThrows(r)
  BY Steps
  DEF Rows, RowStep, CreatePayment, Initiate, Ask, CommitLost, Apply,
      ActivateMembership, Pay, RefundEnds, Withdraw, RequestRefund,
      NoteQuotationPaid, NotifyQuotationPaid, ExpireStale, services
<1> QED BY <1>1, <1>2, <1>3, <1>4

(* COMPLETED is written of an answer that says so, and by nothing else. *)
Completes(a, p) ==
  /\ Apply(a) /\ task[a].payment = p /\ task[a].answer = "COMPLETED"
  /\ task'[a].pc = "settle" /\ task'[a].payment = p

LEMMA Completion ==
  ASSUME TypeInv, [Next]_vars, NEW p \in Payment,
         status'[p] = "COMPLETED"
  PROVE  status[p] = "COMPLETED" \/ \E a \in Actor : Completes(a, p)
<1>t. TypeOK
  BY DEF TypeInv
<1>1. ASSUME NEW a \in Actor, Apply(a), status[p] # "COMPLETED" PROVE Completes(a, p)
  <2>1. task[a].payment = p /\ task[a].answer = "COMPLETED"
    BY <1>t, <1>1 DEF Apply, TypeOK
  <2>2. Goto(a, "settle")
    BY <1>1, <2>1 DEF Apply
  <2>3. task'[a].pc = "settle" /\ task'[a].payment = p
    BY <1>t, <2>1, <2>2, GotoMoves DEF Tasks, TypeOK
  <2> QED BY <1>1, <2>1, <2>3 DEF Completes
<1>2. ASSUME NEW h \in Handler, Initiate(h) PROVE status[p] = "COMPLETED"
  BY <1>t, <1>2 DEF Initiate, TypeOK
<1>3. ASSUME NEW h \in Handler, NEW r \in Payment, CreatePayment(h, r)
      PROVE  status[p] = "COMPLETED"
  BY <1>t, <1>3 DEF CreatePayment, TypeOK
<1>4. ASSUME NEW r \in Payment, RefundEnds(r) PROVE status[p] = "COMPLETED"
  BY <1>t, <1>4 DEF RefundEnds, TypeOK
<1>5. ASSUME NEW stale \in SUBSET opened, ExpireStale(stale) PROVE status[p] = "COMPLETED"
  BY <1>5 DEF ExpireStale
<1>6. \/ UNCHANGED status
      \/ \E a \in Actor : Apply(a)
      \/ \E h \in Handler : Initiate(h) \/ \E r \in Payment : CreatePayment(h, r)
      \/ \E r \in Payment : RefundEnds(r)
      \/ \E stale \in SUBSET opened : ExpireStale(stale)
  BY Steps
  DEF Rows, RowStep, Ask, CommitLost, ActivateMembership, Pay, MarkQuotationPaid,
      MarkThrows, Withdraw, RequestRefund, NoteQuotationPaid, NotifyQuotationPaid
<1> QED BY <1>1, <1>2, <1>3, <1>4, <1>5, <1>6

(* What is stamped, active or COMPLETED was charged, and so is what is about to
   be. *)
PaysInv ==
  /\ \A p \in Payment :
       status[p] = "COMPLETED" \/ p \in active \/ Kept(p) => charge[p] = "charged"
  /\ \A a \in Actor :
       At(a, "settle") \/ (At(a, "apply") /\ task[a].answer = "COMPLETED") =>
         charge[task[a].payment] = "charged"

LEMMA PaysInit == Init => PaysInv
<1> SUFFICES ASSUME Init PROVE PaysInv
  OBVIOUS
<1>1. ASSUME NEW p \in Payment
      PROVE  status[p] # "COMPLETED" /\ p \notin active /\ ~Kept(p)
  BY QuoteOfType, ActorsAreApart, NoneIsNothing DEF Init, Kept, IsQuote
<1>2. \A a \in Actor : ~At(a, "settle") /\ ~At(a, "apply")
  BY IdleType DEF Init, At
<1> QED BY <1>1, <1>2 DEF PaysInv

LEMMA PaysStep ==
  ASSUME TypeInv, PaysInv, [Next]_vars
  PROVE  PaysInv'
<1>t. /\ TypeOK /\ \A a \in Actor : Moves(a)
      /\ \A a \in Actor : task[a].pc \notin {"idle", "sweep"} => task[a].payment \in Payment
  BY TaskMoves DEF TypeInv, TaskOK, TasksMove
<1>c. ASSUME NEW p \in Payment, charge[p] = "charged" PROVE charge'[p] = "charged"
  <2>1. ASSUME NEW r \in Payment, Pay(r) PROVE charge'[p] = "charged"
    BY <1>t, <1>c, <2>1 DEF Pay, TypeOK
  <2>2. ASSUME NEW a \in Actor, Ask(a) \/ CommitLost(a) PROVE charge'[p] = "charged"
    BY <1>t, <1>c, <2>2 DEF Ask, CommitLost, TypeOK
  <2>3. \/ UNCHANGED charge
        \/ \E r \in Payment : Pay(r)
        \/ \E a \in Actor : Ask(a) \/ CommitLost(a)
    BY Steps
    DEF Rows, RowStep, CreatePayment, Initiate, Apply, ActivateMembership,
        RefundEnds, MarkQuotationPaid, MarkThrows, Withdraw, RequestRefund,
        NoteQuotationPaid, NotifyQuotationPaid, ExpireStale, provider
  <2> QED BY <1>c, <2>1, <2>2, <2>3
<1>1. ASSUME NEW p \in Payment, status'[p] = "COMPLETED" PROVE charge'[p] = "charged"
  <2>1. \/ status[p] = "COMPLETED"
        \/ \E a \in Actor : Completes(a, p)
    BY <1>1, Completion
  <2> QED BY <1>c, <2>1 DEF PaysInv, Completes, Apply
<1>2. ASSUME NEW p \in Payment, p \in active' PROVE charge'[p] = "charged"
  <2>1. p \in active \/ \E a \in Actor : ActivateMembership(a) /\ task[a].payment = p
    BY <1>2, Steps
    DEF Rows, RowStep, CreatePayment, Initiate, Ask, CommitLost, Apply,
        ActivateMembership, Pay, RefundEnds, MarkQuotationPaid, MarkThrows,
        Withdraw, RequestRefund, NoteQuotationPaid, NotifyQuotationPaid, ExpireStale
  <2> QED BY <1>c, <2>1 DEF PaysInv, ActivateMembership
<1>3. ASSUME NEW p \in Payment, Kept(p)' PROVE charge'[p] = "charged"
  <2>1. IsQuote(p)
    BY <1>3 DEF Kept, IsQuote
  <2> QED BY <1>c, <1>3, <2>1, StampMoves DEF PaysInv
<1>4. ASSUME NEW a \in Actor,
             \/ task'[a].pc = "settle"
             \/ task'[a].pc = "apply" /\ task'[a].answer = "COMPLETED"
      PROVE  charge'[task'[a].payment] = "charged"
  <2>1. Moves(a)
    BY <1>t
  <2>2. CASE task'[a] = task[a]
    BY <1>c, <1>t, <1>4, <2>2 DEF PaysInv, At
  <2>3. CASE Ask(a) /\ task'[a].payment = task[a].payment
             /\ task'[a].answer = Answer(task[a].payment)
             /\ task'[a].pc = "apply"
    <3> DEFINE p == task[a].payment
    <3>1. p \in Payment /\ Answer(p) = "COMPLETED"
      BY <1>t, <1>4, <2>3 DEF Ask, At
    <3>2. charge[p] \in {"authorized", "charged"}
      BY <1>t, <3>1, AnswerType DEF TypeOK, Charge
    <3>3. charge' = [charge EXCEPT ![p] = IF charge[p] = "authorized" THEN "charged" ELSE charge[p]]
      BY <2>3 DEF Ask
    <3> QED BY <1>t, <2>3, <3>1, <3>2, <3>3 DEF TypeOK
  <2>4. CASE Apply(a) /\ task'[a].payment = task[a].payment
             /\ task[a].answer = "COMPLETED"
    BY <1>c, <1>t, <2>4 DEF PaysInv, Apply, At
  <2> QED BY <1>4, <2>1, <2>2, <2>3, <2>4 DEF Moves
<1> QED BY <1>1, <1>2, <1>3, <1>4 DEF PaysInv, At

(* A payment that is given back can never be stamped; one that is told of is
   stamped, and its notices go out once, right after its row. *)
MailInv ==
  /\ \A p \in Payment :
       /\ refund[p] # "none" => IsQuote(p) /\ ~Stamps(p)
       /\ p \in noted => Kept(p)
       /\ notices[p] > 0 => p \in noted /\ notices[p] = 1
  /\ LET t == task[Worker] IN
     /\ t.pc = "refund" => ~Stamps(t.payment)
     /\ t.pc \in {"notify", "send"} => Kept(t.payment)
     /\ t.pc = "send" => t.payment \in noted /\ notices[t.payment] = 0

LEMMA MailInit == Init => MailInv
  BY IdleType DEF Init, MailInv

LEMMA MailStep ==
  ASSUME TypeInv, TypeInv', MailInv, [Next]_vars
  PROVE  MailInv'
<1> DEFINE t == task[Worker]
<1>t. /\ TypeOK /\ Moves(Worker)
      /\ t.pc \notin {"idle", "sweep"} => t.payment \in Payment
      /\ t.pc \in {"refund", "notify", "send"} => IsQuote(t.payment)
  BY TaskMoves, IdleType DEF TypeInv, TaskOK, TasksMove
<1>q. \A p \in Payment : IsQuote(p)' <=> IsQuote(p)
  BY DEF IsQuote
<1>k. \A p \in Payment : Kept(p) => Kept(p)'
  BY StampMoves DEF Kept
<1>1. ASSUME NEW p \in Payment, refund'[p] # "none" PROVE IsQuote(p)' /\ ~Stamps(p)'
  <2>1. \/ refund[p] # "none"
        \/ RequestRefund /\ p = t.payment
    <3>1. ASSUME NEW r \in Payment, RefundEnds(r) PROVE refund[p] # "none"
      BY <1>t, <1>1, <3>1 DEF RefundEnds, TypeOK
    <3>2. CASE RequestRefund
      BY <1>t, <1>1, <3>2 DEF RequestRefund, TypeOK
    <3>3. UNCHANGED refund \/ RequestRefund \/ \E r \in Payment : RefundEnds(r)
      BY Steps
      DEF Rows, RowStep, CreatePayment, Initiate, Ask, CommitLost, Apply,
          ActivateMembership, Pay, MarkQuotationPaid, MarkThrows, Withdraw,
          NoteQuotationPaid, NotifyQuotationPaid, ExpireStale
    <3> QED BY <1>1, <3>1, <3>2, <3>3
  <2>2. IsQuote(p) /\ ~Stamps(p)
    BY <1>t, <2>1 DEF MailInv, RequestRefund, At
  <2> QED BY <1>q, <2>2, StampMoves
<1>2. ASSUME NEW p \in Payment PROVE /\ p \in noted => p \in noted'
                                     /\ p \in noted' => p \in noted \/ (t.pc = "notify" /\ p = t.payment)
  BY Steps
  DEF Rows, RowStep, CreatePayment, Initiate, Ask, CommitLost, Apply,
      ActivateMembership, Pay, RefundEnds, MarkQuotationPaid, MarkThrows,
      Withdraw, RequestRefund, NoteQuotationPaid, NotifyQuotationPaid,
      ExpireStale, mail, At
<1>3. ASSUME NEW p \in Payment, p \in noted' PROVE Kept(p)'
  BY <1>2, <1>3, <1>k DEF MailInv
<1>n. \/ UNCHANGED notices
      \/ /\ t.pc = "send" /\ t.payment \in Payment
         /\ notices' = [notices EXCEPT ![t.payment] = @ + 1]
         /\ task'[Worker].pc \in {"idle", "sweep"}
  <2>1. CASE NotifyQuotationPaid
    <3>1. task'[Worker].pc \in {"idle", "sweep"}
      BY <1>t, <2>1, LeaveMoves, IdleType DEF NotifyQuotationPaid, Tasks, TypeOK
    <3> QED BY <1>t, <2>1, <3>1 DEF NotifyQuotationPaid, At
  <2>2. UNCHANGED notices \/ NotifyQuotationPaid
    BY Steps
    DEF Rows, RowStep, CreatePayment, Initiate, Ask, CommitLost, Apply,
        ActivateMembership, Pay, RefundEnds, MarkQuotationPaid, MarkThrows,
        Withdraw, RequestRefund, NoteQuotationPaid, ExpireStale, mail
  <2> QED BY <2>1, <2>2
<1>4. ASSUME NEW p \in Payment, notices'[p] > 0 PROVE p \in noted' /\ notices'[p] = 1
  <2>1. notices \in [Payment -> Nat]
    BY <1>t DEF TypeOK
  <2>2. CASE UNCHANGED notices
    BY <1>2, <1>4, <2>2 DEF MailInv
  <2>3. CASE /\ t.pc = "send" /\ t.payment \in Payment
             /\ notices' = [notices EXCEPT ![t.payment] = @ + 1]
    <3>1. t.payment \in noted /\ notices[t.payment] = 0
      BY <2>3 DEF MailInv
    <3> QED BY <1>2, <1>4, <2>1, <2>3, <3>1 DEF MailInv
  <2> QED BY <1>n, <2>2, <2>3
<1>5. LET u == task'[Worker] IN
      /\ u.pc = "refund" => (~Stamps(t.payment))'
      /\ u.pc \in {"notify", "send"} => Kept(t.payment)'
      /\ u.pc = "send" => u.payment \in noted' /\ notices'[u.payment] = 0
  <2>1. CASE task'[Worker] = task[Worker]
    <3>1. \A p \in Payment : IsQuote(p) /\ Stamps(p)' => Stamps(p)
      BY StampMoves
    <3>2. task'[Worker].pc \notin {"idle", "sweep"} => UNCHANGED notices \/ t.pc # "send"
      BY <1>n, <2>1
    <3> QED BY <1>t, <1>k, <1>2, <1>n, <2>1, <3>1, <3>2 DEF MailInv
  <2>2. ASSUME NEW p \in Payment, task'[Worker].payment = p, MarkQuotationPaid(p),
               task'[Worker].pc = "notify"
        PROVE  Kept(p)'
    <3>1. IsQuote(p) /\ QuoteOf[p] \in Quotation
      BY <2>2, QuoteOfType, ActorsAreApart, NoneIsNothing DEF MarkQuotationPaid, Runs, TypeInv, IsQuote
    <3> QED BY <1>t, <2>2, <3>1 DEF MarkQuotationPaid, TypeOK, Kept, IsQuote
  <2>3. ASSUME NEW p \in Payment, task'[Worker].payment = p, QuotationRefused(p),
               task'[Worker].pc = "refund"
        PROVE  ~Stamps(p)'
    BY <2>3 DEF QuotationRefused, Stamps, services
  <2>4. CASE /\ NoteQuotationPaid /\ task'[Worker].pc = "send"
             /\ t.payment \notin noted /\ task'[Worker].payment = t.payment
    <3>1. t.pc = "notify" /\ t.payment \in Payment /\ Kept(t.payment)
      BY <1>t, <2>4 DEF NoteQuotationPaid, At, MailInv
    <3>2. notices[t.payment] = 0 /\ UNCHANGED notices
      <4>1. ~(notices[t.payment] > 0) /\ notices[t.payment] \in Nat
        BY <1>t, <2>4, <3>1 DEF MailInv, TypeOK
      <4> QED BY <1>n, <3>1, <4>1
    <3>3. t.payment \in noted'
      <4>1. noted' = noted \cup {t.payment}
        BY <2>4 DEF NoteQuotationPaid
      <4> QED BY <4>1
    <3> QED BY <1>k, <2>4, <3>1, <3>2, <3>3
  <2> QED BY <1>t, <2>1, <2>2, <2>3, <2>4 DEF Moves, Ask, CommitLost, Apply
<1> QED BY <1>1, <1>3, <1>4, <1>5 DEF MailInv

(* A quotation is paid once, by a real charge that is not given back, and its
   parties are told once, for any payments, requests, errors and crashes. *)
THEOREM QuotesArePaidOnce == Spec => []QuotePaidOnce
<1> DEFINE Inv == TypeInv /\ PaysInv /\ MailInv
<1>1. Init => Inv
  BY TypeInit, PaysInit, MailInit
<1>2. Inv /\ [Next]_vars => Inv'
  BY TypeStep, PaysStep, MailStep
<1>3. Inv => QuotePaidOnce
  BY DEF QuotePaidOnce, PaysInv, MailInv, Kept, Stamps
<1> QED BY <1>1, <1>2, <1>3, PTL DEF Spec

(* While nothing fails, a completed payment is not forgotten either: it bought
   its quotation or membership, is given back, is in the queue (where a job out
   of attempts stays too), or is in the hands of whoever completed it. *)
Held(p) ==
  \/ \E a \in Actor : task[a].pc = "settle" /\ task[a].payment = p
  \/ IF IsQuote(p)
     THEN Kept(p) \/ refund[p] # "none" \/ job[p].state \in {"waiting", "failed"}
     ELSE p \in active

HeldInv ==
  faults = 0 => \A p \in Payment : status[p] = "COMPLETED" => Held(p)

(* Whoever is to settle a payment does, unless it fails. *)
Settles(a) ==
  task'[a] = task[a] \/ QueueQuotation(a) \/ ActivateMembership(a)

LEMMA SettleStays ==
  ASSUME TypeInv, [Next]_vars, faults = 0, faults' = 0,
         NEW a \in Actor, task[a].pc = "settle"
  PROVE  Settles(a)
<1>t. Tasks
  BY DEF TypeInv, Tasks, TypeOK
<1> USE DEF Settles
<1>f. ~Fault
  BY DEF Fault
<1>u. ASSUME UNCHANGED task PROVE Settles(a)
  BY <1>u
<1>l. ASSUME NEW b \in Actor, task[b].pc # "settle", Leave(b) \/ Goto(b, "send") \/ Goto(b, "settle")
      PROVE  Settles(a)
  BY <1>t, <1>l, LeaveMoves, GotoMoves
<1>1. ASSUME NEW h \in Handler, NEW p \in Payment,
             CreatePayment(h, p) \/ Return(h, p) \/ Webhook(h, p)
      PROVE  Settles(a)
  BY <1>1, <1>t DEF CreatePayment, Return, Webhook, Loads, Request, At, Tasks
<1>2. ASSUME NEW h \in Handler, Initiate(h) PROVE Settles(a)
  BY <1>2, <1>l, IdleType DEF Initiate, At
<1>3. ASSUME NEW b \in Actor, SettleStep(b) PROVE Settles(a)
  <2>1. CASE Ask(b)
    BY <1>t, <1>l, <2>1 DEF Ask, At, Tasks
  <2>2. CASE AskFails(b) \/ CommitLost(b)
    BY <1>f, <2>2 DEF AskFails, CommitLost
  <2>3. CASE Apply(b)
    BY <1>l, <2>3 DEF Apply, At
  <2>4. CASE QueueQuotation(b) \/ ActivateMembership(b)
    <3>1. Leave(b)
      BY <2>4 DEF QueueQuotation, ActivateMembership
    <3> QED BY <1>t, <2>4, <3>1, LeaveMoves
  <2> QED BY <1>3, <2>1, <2>2, <2>3, <2>4 DEF SettleStep
<1>4. ASSUME NEW p \in Payment, MarkQuotationPaid(p) \/ QuotationRefused(p) PROVE Settles(a)
  BY <1>t, <1>4 DEF MarkQuotationPaid, QuotationRefused, Runs, WorkerGoes, At, Tasks
<1>5. CASE RequestRefund \/ NoteQuotationPaid \/ NotifyQuotationPaid
  BY <1>l, <1>5, IdleType DEF RequestRefund, NoteQuotationPaid, NotifyQuotationPaid, At
<1>6. ASSUME NEW stale \in SUBSET opened, ExpireStale(stale) \/ StartSweep(stale) PROVE Settles(a)
  BY <1>t, <1>6 DEF ExpireStale, StartSweep, At, Tasks
<1>7. ASSUME NEW p \in Payment, AskNext(p) PROVE Settles(a)
  BY <1>t, <1>7 DEF AskNext, At, Tasks
<1>8. ASSUME NEW p \in Payment,
             Pay(p) \/ RefundEnds(p) \/ SkipQuotation(p) \/ MarkThrows(p)
      PROVE  Settles(a)
  BY <1>u, <1>8 DEF Pay, RefundEnds, SkipQuotation, MarkThrows
<1>9. ASSUME NEW q \in Quotation, Withdraw(q) PROVE Settles(a)
  BY <1>u, <1>9 DEF Withdraw
<1>10. ~Crash
  BY <1>f DEF Crash
<1>11. CASE UNCHANGED vars
  BY <1>u, <1>11 DEF vars
<1> HIDE DEF Settles
<1>12. ASSUME NEW p \in Payment, QuotationStep(p) PROVE Settles(a)
  BY <1>4, <1>8, <1>12 DEF QuotationStep
<1>13. CASE WorkerStep
  BY <1>5, <1>6, <1>7, <1>13 DEF WorkerStep
<1> QED
  BY <1>1, <1>2, <1>3, <1>6, <1>8, <1>9, <1>10, <1>11, <1>12, <1>13 DEF Next

(* A job leaves the queue for a payment that is not COMPLETED, or once the
   payment is given back or kept. *)
JobStays(p) ==
  \/ job'[p].state \in {"waiting", "failed"}
  \/ status'[p] # "COMPLETED" \/ refund'[p] # "none" \/ Kept(p)

LEMMA JobMoves ==
  ASSUME TypeInv, MailInv, [Next]_vars, NEW p \in Payment,
         job[p].state \in {"waiting", "failed"}
  PROVE  JobStays(p)
<1> USE DEF JobStays
<1>t. /\ job \in [Payment -> [state : {"none", "waiting", "done", "failed"}, made : Nat]]
      /\ refund \in [Payment -> {"none", "requested", "returned", "refused"}]
  BY DEF TypeInv, TypeOK
<1>u. ASSUME UNCHANGED job PROVE JobStays(p)
  BY <1>u
<1>1. ASSUME NEW a \in Actor, QueueQuotation(a) PROVE JobStays(p)
  BY <1>t, <1>1 DEF QueueQuotation
<1>2. ASSUME NEW r \in Payment, SkipQuotation(r) PROVE JobStays(p)
  BY <1>t, <1>2 DEF SkipQuotation, Done
<1>3. ASSUME NEW r, AttemptFails(r) PROVE JobStays(p)
  BY <1>t, <1>3 DEF AttemptFails
<1>4. CASE RequestRefund
  <2>1. ASSUME Done(task[Worker].payment),
               refund' = [refund EXCEPT ![task[Worker].payment] = "requested"]
        PROVE  JobStays(p)
    BY <1>t, <2>1 DEF Done
  <2> QED BY <1>3, <1>4, <2>1 DEF RequestRefund
<1>5. CASE NoteQuotationPaid \/ NotifyQuotationPaid
  <2>1. Kept(task[Worker].payment)
    BY <1>5 DEF NoteQuotationPaid, NotifyQuotationPaid, At, MailInv
  <2>2. UNCHANGED job \/ Done(task[Worker].payment)
    BY <1>5 DEF NoteQuotationPaid, NotifyQuotationPaid
  <2> QED BY <1>t, <2>1, <2>2 DEF Done
<1>6. ASSUME NEW r \in Payment, MarkThrows(r) PROVE JobStays(p)
  BY <1>3, <1>6 DEF MarkThrows
<1> HIDE DEF JobStays
<1>7. ASSUME NEW a \in Actor, SettleStep(a) PROVE JobStays(p)
  BY <1>1, <1>u, <1>7 DEF SettleStep, Ask, CommitLost, AskFails, Apply, ActivateMembership
<1>8. ASSUME NEW r \in Payment, QuotationStep(r) PROVE JobStays(p)
  BY <1>2, <1>6, <1>u, <1>8 DEF QuotationStep, MarkQuotationPaid, QuotationRefused
<1>9. CASE WorkerStep
  BY <1>4, <1>5, <1>u, <1>9 DEF WorkerStep, ExpireStale, AskNext
<1>10. ASSUME NEW h \in Handler, NEW r \in Payment,
              CreatePayment(h, r) \/ Return(h, r) \/ Webhook(h, r)
       PROVE  JobStays(p)
  BY <1>u, <1>10 DEF CreatePayment, Return, Webhook
<1>11. ASSUME NEW r \in Payment, Pay(r) \/ RefundEnds(r) PROVE JobStays(p)
  BY <1>u, <1>11 DEF Pay, RefundEnds
<1>12. CASE \/ \E h \in Handler : Initiate(h)
            \/ \E q \in Quotation : Withdraw(q)
            \/ Crash
            \/ \E stale \in SUBSET opened : StartSweep(stale)
            \/ UNCHANGED vars
  BY <1>u, <1>12 DEF Initiate, Withdraw, Crash, StartSweep, vars
<1> QED
  BY <1>7, <1>8, <1>9, <1>10, <1>11, <1>12 DEF Next

LEMMA HeldInit == Init => HeldInv
  BY DEF Init, HeldInv

LEMMA HeldStep ==
  ASSUME TypeInv, MailInv, HeldInv, [Next]_vars
  PROVE  HeldInv'
<1> SUFFICES ASSUME faults' = 0, NEW p \in Payment, status'[p] = "COMPLETED"
             PROVE  Held(p)'
  BY DEF HeldInv
<1>t. TypeOK
  BY DEF TypeInv
<1>f. faults = 0
  <2>1. Fault => faults = 0
    BY <1>t DEF Fault, TypeOK
  <2>2. UNCHANGED faults \/ Fault
    BY DEF Next, vars, Initiate, CreatePayment, Return, Webhook, SettleStep,
           Ask, CommitLost, AskFails, Apply, QueueQuotation, ActivateMembership, Pay,
           QuotationStep, SkipQuotation, MarkQuotationPaid, MarkThrows,
           QuotationRefused, RefundEnds, Withdraw, WorkerStep, RequestRefund,
           NoteQuotationPaid, NotifyQuotationPaid, ExpireStale, AskNext, Crash,
           StartSweep
  <2> QED BY <2>1, <2>2
<1>q. IsQuote(p)' <=> IsQuote(p)
  BY DEF IsQuote
<1>1. ASSUME NEW a \in Actor, Completes(a, p) PROVE Held(p)'
  BY <1>1 DEF Completes, Held
<1>2. ASSUME NEW a \in Actor, task[a].pc = "settle", task[a].payment = p
      PROVE  Held(p)'
  <2>1. CASE task'[a] = task[a]
    BY <1>2, <2>1 DEF Held
  <2>2. CASE QueueQuotation(a)
    <3>1. IsQuote(p) /\ job'[p].state \in {"waiting", "failed"}
      BY <1>t, <1>2, <2>2 DEF QueueQuotation, TypeOK
    <3> QED BY <1>q, <3>1 DEF Held
  <2>3. CASE ActivateMembership(a)
    <3>1. ~IsQuote(p) /\ p \in active'
      BY <1>f, <1>2, <2>3 DEF ActivateMembership, Fault
    <3> QED BY <1>q, <3>1 DEF Held
  <2> QED BY <1>f, <1>2, <2>1, <2>2, <2>3, SettleStays DEF Settles
<1>3. ASSUME IsQuote(p), Kept(p) \/ refund[p] # "none" \/ job[p].state \in {"waiting", "failed"}
      PROVE  Held(p)'
  <2>1. Kept(p) => Kept(p)'
    BY <1>3, StampMoves
  <2>2. refund[p] # "none" => refund'[p] # "none"
    <3>1. ASSUME NEW r \in Payment, RefundEnds(r), refund[p] # "none" PROVE refund'[p] # "none"
      BY <1>t, <3>1 DEF RefundEnds, TypeOK
    <3>2. ASSUME RequestRefund, refund[p] # "none" PROVE refund'[p] # "none"
      BY <1>t, <3>2 DEF RequestRefund, TypeOK
    <3>3. UNCHANGED refund \/ RequestRefund \/ \E r \in Payment : RefundEnds(r)
      BY Steps
      DEF Rows, RowStep, CreatePayment, Initiate, Ask, CommitLost, Apply,
          ActivateMembership, Pay, MarkQuotationPaid, MarkThrows, Withdraw,
          NoteQuotationPaid, NotifyQuotationPaid, ExpireStale
    <3> QED BY <3>1, <3>2, <3>3
  <2>3. job[p].state \in {"waiting", "failed"} =>
          job'[p].state \in {"waiting", "failed"} \/ refund'[p] # "none" \/ Kept(p)
    BY JobMoves DEF JobStays
  <2> QED BY <1>3, <1>q, <2>1, <2>2, <2>3 DEF Held
<1>4. ASSUME ~IsQuote(p), p \in active PROVE Held(p)'
  <2>1. active \subseteq active'
    BY Steps
    DEF Rows, RowStep, CreatePayment, Initiate, Ask, CommitLost, Apply,
        ActivateMembership, Pay, RefundEnds, MarkQuotationPaid, MarkThrows,
        Withdraw, RequestRefund, NoteQuotationPaid, NotifyQuotationPaid, ExpireStale
  <2> QED BY <1>4, <1>q, <2>1 DEF Held
<1>5. CASE status[p] = "COMPLETED"
  <2>1. Held(p)
    BY <1>f, <1>5 DEF HeldInv
  <2> QED BY <1>2, <1>3, <1>4, <2>1 DEF Held
<1> QED BY <1>1, <1>5, Completion

(* Whatever is paid for is on its way to the buyer, or back: no step of the
   handlers or of the worker drops a completed payment, unless a call of theirs
   fails; a job that used up its attempts stays in the queue as failed. *)
THEOREM CompletedQuotesAreHeld == Spec => []HeldInv
<1> DEFINE Inv == TypeInv /\ MailInv /\ HeldInv
<1>1. Init => Inv
  BY TypeInit, MailInit, HeldInit
<1>2. Inv /\ [Next]_vars => Inv'
  BY TypeStep, MailStep, HeldStep
<1> QED BY <1>1, <1>2, PTL DEF Spec
=============================================================================
