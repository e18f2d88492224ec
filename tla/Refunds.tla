------------------------------- MODULE Refunds -------------------------------
(***************************************************************************)
(* Giving money back (src/payments/settlement.service.ts): the refund rows *)
(* of charged payments, the BullMQ job that executes each of them, the     *)
(* provider's own books, and the Mercado Pago webhooks that report refunds *)
(* a store made from its own account.                                      *)
(*                                                                         *)
(* Steps are cut at every await that lets another actor in.  The actors    *)
(* are whoever calls requestRefund (an administrator, or settlement for an *)
(* automatic refund), the payments worker, which runs one job at a time,   *)
(* and the HTTP handlers of the webhooks.                                  *)
(***************************************************************************)
EXTENDS Integers, FiniteSets, Functions, Statuses

CONSTANTS
  Payment,        \* payment rows
  Order,          \* orders
  OrderOf,        \* the order each payment pays: [Payment -> Order]
  Amount,         \* what each payment charged: [Payment -> Nat]
  MercadoPago,    \* the payments of that provider; the others are Webpay's
  Refund,         \* identifiers for the refund rows the run may create
  RefundAmounts,  \* the amounts somebody asks back
  Epsilon,        \* rounding slack of the amount comparisons
  MaxAttempts,    \* attempts of a refund job
  Hook,           \* webhook deliveries handled at the same time
  Worker,         \* the payments worker
  None,           \* no payment, no refund
  MaxFaults       \* bound on database errors and crashes

ASSUME FiniteRefunds == IsFiniteSet(Refund)
ASSUME OrderOfType == OrderOf \in [Payment -> Order]
ASSUME AmountType == Amount \in [Payment -> Nat]
ASSUME RefundAmountsType == RefundAmounts \subseteq Nat \ {0}
ASSUME EpsilonType == Epsilon \in Nat
ASSUME MaxAttemptsType == MaxAttempts \in Nat \ {0}
ASSUME MaxFaultsType == MaxFaults \in Nat
ASSUME WorkerNotHook == Worker \notin Hook
ASSUME NoneIsNothing == None \notin Payment /\ None \notin Refund

VARIABLES
  payment,   \* Payment.status
  order,     \* Order.status
  refund,    \* PaymentRefund rows; status "NONE" is a row not created yet
  opening,   \* refunds committed whose requester has not queued the job yet
  job,       \* the process-refund job of each refund
  made,      \* attempts of that job that have failed
  restock,   \* the waiting RESTOCK job of each order: the payment it names
  task,      \* what each actor is in the middle of
  accepted,  \* provider: money it accepted to give back on each payment
  given,     \* provider: how much of that has moved, its refunded total
  granted,   \* provider: times it accepted each refund
  untold,    \* payments whose last movement no answered notification told of
  stalled,   \* jobs that were found stalled once
  faults     \* errors and crashes injected so far

vars == <<payment, order, refund, opening, job, made, restock, task,
          accepted, given, granted, untold, stalled, faults>>

Task == Hook \cup {Worker}

RefundRow == [status : RefundStatus \cup {"NONE"},
              payment : Payment \cup {None},
              amount : Nat]

NoRow == [status |-> "NONE", payment |-> None, amount |-> 0]

(* Where an actor stands between two awaits.  "provider" and "answered" are
   the worker's, "record" a webhook's; the rest is afterRefundCompleted. *)
Pc == {"idle", "provider", "answered", "record", "sum", "payment", "order",
       "restock"}

TaskState == [pc : Pc, payment : Payment \cup {None}, refund : Refund \cup {None},
              seen : Nat, full : BOOLEAN]

Idle == [pc |-> "idle", payment |-> None, refund |-> None, seen |-> 0,
         full |-> FALSE]

JobState == {"none", "waiting", "active", "done", "failed"}

TypeOK ==
  /\ payment \in [Payment -> PaymentStatus]
  /\ order \in [Order -> OrderStatus]
  /\ refund \in [Refund -> RefundRow]
  /\ opening \subseteq Refund
  /\ job \in [Refund -> JobState]
  /\ made \in [Refund -> Nat]
  /\ restock \in [Order -> Payment \cup {None}]
  /\ task \in [Task -> TaskState]
  /\ accepted \in [Payment -> Nat]
  /\ given \in [Payment -> Nat]
  /\ granted \in [Refund -> Nat]
  /\ untold \subseteq Payment
  /\ stalled \subseteq Refund
  /\ faults \in Nat

-----------------------------------------------------------------------------
(* The two aggregates the service computes over a payment's refund rows.   *)

Portion(rows, p, statuses) ==
  [r \in Refund |->
     IF rows[r].payment = p /\ rows[r].status \in statuses
     THEN rows[r].amount ELSE 0]

Claimed(p) == SumFunction(Portion(refund, p, OpenOrDone))

Returned(p) == SumFunction(Portion(refund, p, {"COMPLETED"}))

Free == {r \in Refund : refund[r].status = "NONE"}

(* Mutant: only finished refunds count against the charge. *)
Remaining_DoneOnly(p) == Amount[p] - Returned(p)

(* What is left to give back. *)
Remaining(p) == Amount[p] - Claimed(p)

(* Mutant: a strict comparison of sums stored as floats. *)
IsFull_Strict(p) == Returned(p) >= Amount[p]

(* Mutant: open refunds count as given back. *)
IsFull_Claimed(p) == Claimed(p) >= Amount[p] - Epsilon

IsFull(p) == Returned(p) >= Amount[p] - Epsilon

-----------------------------------------------------------------------------
(* requestRefund: the locked transaction, then the queue. *)

RequestRefund(p, amount) ==
  /\ payment[p] \in Refundable
  /\ amount <= Remaining(p) + Epsilon
  /\ \E r \in Free :
       /\ refund' = [refund EXCEPT ![r] = [status |-> "PENDING",
                                           payment |-> p, amount |-> amount]]
       /\ opening' = opening \cup {r}
  /\ UNCHANGED <<payment, order, job, made, restock, task, accepted, given,
                 granted, untold, stalled, faults>>

QueueRefund(r) ==
  /\ r \in opening
  /\ opening' = opening \ {r}
  /\ job' = [job EXCEPT ![r] = "waiting"]
  /\ UNCHANGED <<payment, order, refund, made, restock, task, accepted,
                 given, granted, untold, stalled, faults>>

-----------------------------------------------------------------------------
(* executeRefund, run by the worker. *)

(* Mutant: a completed refund is executed again. *)
StillOpen_NotFailed(r) == refund[r].status # "FAILED"

StillOpen(r) == refund[r].status \in Executable

(* The row is no longer open: the job has nothing to do. *)
SkipRefund(r) ==
  /\ task[Worker].pc = "idle"
  /\ job[r] = "waiting"
  /\ ~StillOpen(r)
  /\ job' = [job EXCEPT ![r] = "done"]
  /\ UNCHANGED <<payment, order, refund, opening, made, restock, task,
                 accepted, given, granted, untold, stalled, faults>>

StartRefund(r) ==
  /\ task[Worker].pc = "idle"
  /\ job[r] = "waiting"
  /\ StillOpen(r)
  /\ job' = [job EXCEPT ![r] = "active"]
  /\ refund' = [refund EXCEPT ![r].status = "PROCESSING"]
  /\ task' = [task EXCEPT ![Worker] = [Idle EXCEPT !.pc = "provider",
                                                   !.refund = r,
                                                   !.payment = refund[r].payment]]
  /\ UNCHANGED <<payment, order, opening, made, restock, accepted, given,
                 granted, untold, stalled, faults>>

(* Mercado Pago knows a refund by its idempotency key and accepts it once;
   Webpay takes each call as a new refund.  Neither accepts more than was
   charged. *)
ProviderTakes(r, p) ==
  IF p \in MercadoPago /\ granted[r] > 0
  THEN UNCHANGED <<accepted, granted>>
  ELSE /\ accepted[p] + refund[r].amount <= Amount[p]
       /\ accepted' = [accepted EXCEPT ![p] = @ + refund[r].amount]
       /\ granted' = [granted EXCEPT ![r] = @ + 1]

(* result.ok: approved, or in_process and the money moves later. *)
RefundApproved ==
  LET w == task[Worker] IN
  /\ w.pc = "provider"
  /\ ProviderTakes(w.refund, w.payment)
  /\ task' = [task EXCEPT ![Worker].pc = "answered"]
  /\ UNCHANGED <<payment, order, refund, opening, job, made, restock, given,
                 untold, stalled, faults>>

(* result.ok is false, or the row has no adapter.refund, token or config:
   finishFailed, and the job is over. *)
RefundRefused ==
  LET w == task[Worker] IN
  /\ w.pc = "provider"
  /\ refund' = [refund EXCEPT ![w.refund].status = "FAILED"]
  /\ job' = [job EXCEPT ![w.refund] = "done"]
  /\ task' = [task EXCEPT ![Worker] = Idle]
  /\ UNCHANGED <<payment, order, opening, made, restock, accepted, given,
                 granted, untold, stalled, faults>>

(* Mutant: fails the row whatever became of it. *)
FailRefund_Any(r) == refund' = [refund EXCEPT ![r].status = "FAILED"]

(* Mutant: the last attempt leaves the row as it is. *)
FailRefund_Never(r) == refund' = refund

(* failRefund, after the last attempt. *)
FailRefund(r) ==
  refund' = IF refund[r].status = "COMPLETED" THEN refund
            ELSE [refund EXCEPT ![r].status = "FAILED"]

IsLast(r) == made[r] + 1 >= MaxAttempts

(* PaymentProcessor.refund when executeRefund throws: the queue tries again
   until the attempts run out. *)
AttemptFails(r) ==
  /\ made' = [made EXCEPT ![r] = @ + 1]
  /\ job' = [job EXCEPT ![r] = IF IsLast(r) THEN "failed" ELSE "waiting"]
  /\ IF IsLast(r) THEN FailRefund(r) ELSE UNCHANGED refund
  /\ task' = [task EXCEPT ![Worker] = Idle]

(* The provider call throws; the refund may have been accepted or not. *)
RefundCallThrows ==
  LET w == task[Worker] IN
  /\ w.pc = "provider"
  /\ ProviderTakes(w.refund, w.payment) \/ UNCHANGED <<accepted, granted>>
  /\ AttemptFails(w.refund)
  /\ UNCHANGED <<payment, order, opening, restock, given, untold, stalled,
                 faults>>

CompleteRefund ==
  LET w == task[Worker] IN
  /\ w.pc = "answered"
  /\ refund' = [refund EXCEPT ![w.refund].status = "COMPLETED"]
  /\ task' = [task EXCEPT ![Worker].pc = "sum"]
  /\ UNCHANGED <<payment, order, opening, job, made, restock, accepted,
                 given, granted, untold, stalled, faults>>

-----------------------------------------------------------------------------
(* A Mercado Pago webhook on a charged payment (_followPaidCharge), and
   recordExternalRefund. *)

(* The money of accepted refunds reaches Mercado Pago's refunded total
   (transaction_amount_refunded), at once or later, and it notifies. *)
MoneyMoves(p, amount) ==
  /\ given[p] + amount <= accepted[p]
  /\ given' = [given EXCEPT ![p] = @ + amount]
  /\ untold' = untold \cup {p}
  /\ UNCHANGED <<payment, order, refund, opening, job, made, restock, task,
                 accepted, granted, stalled, faults>>

(* The store gives money back from its own Mercado Pago account. *)
StoreRefunds(p, amount) ==
  /\ p \in MercadoPago
  /\ accepted[p] + amount <= Amount[p]
  /\ accepted' = [accepted EXCEPT ![p] = @ + amount]
  /\ UNCHANGED <<payment, order, refund, opening, job, made, restock, task,
                 given, granted, untold, stalled, faults>>

(* Mutant: forgets a charge once part of it was given back. *)
Follows_Completed(p) == payment[p] = "COMPLETED"

Follows(p) == payment[p] \in Refundable

(* A notification, repeated or late, makes a handler read the charge. *)
InspectCharge(h, p) ==
  /\ p \in MercadoPago
  /\ task[h].pc = "idle"
  /\ Follows(p)
  /\ given[p] > 0
  /\ task' = [task EXCEPT ![h] = [Idle EXCEPT !.pc = "record", !.payment = p,
                                              !.seen = given[p]]]
  /\ UNCHANGED <<payment, order, refund, opening, job, made, restock,
                 accepted, given, granted, untold, stalled, faults>>

(* One about a payment given back whole is answered and changes nothing. *)
IgnoreNotice(p) ==
  /\ p \in untold
  /\ ~Follows(p)
  /\ untold' = untold \ {p}
  /\ UNCHANGED <<payment, order, refund, opening, job, made, restock, task,
                 accepted, given, granted, stalled, faults>>

(* A handler that ran to its end has answered the notifications of what it
   saw; Mercado Pago sends those no more. *)
Answers(h) ==
  LET p == task[h].payment IN
  untold' = IF task[h].seen = given[p] THEN untold \ {p} ELSE untold

(* Mutant: a refund still being executed is counted again. *)
Unrecorded_DoneOnly(h) == task[h].seen - Returned(task[h].payment)

(* What the provider reported, beyond what the rows account for. *)
Unrecorded(h) ==
  LET p == task[h].payment
      total == IF task[h].seen < Amount[p] THEN task[h].seen ELSE Amount[p]
  IN  total - Claimed(p)

(* Mutant: the slack is forgotten, and the sign with it. *)
HasUnrecorded_Any(h) == Unrecorded(h) # 0

HasUnrecorded(h) == Unrecorded(h) > Epsilon

RecordExternalRefund(h) ==
  LET p == task[h].payment IN
  /\ task[h].pc = "record"
  /\ payment[p] \in Refundable
  /\ HasUnrecorded(h)
  /\ \E r \in Free :
       refund' = [refund EXCEPT ![r] = [status |-> "COMPLETED", payment |-> p,
                                        amount |-> Unrecorded(h)]]
  /\ task' = [task EXCEPT ![h].pc = "sum"]
  /\ UNCHANGED <<payment, order, opening, job, made, restock, accepted,
                 given, granted, untold, stalled, faults>>

NothingToRecord(h) ==
  /\ task[h].pc = "record"
  /\ payment[task[h].payment] \notin Refundable \/ ~HasUnrecorded(h)
  /\ task' = [task EXCEPT ![h] = Idle]
  /\ Answers(h)
  /\ UNCHANGED <<payment, order, refund, opening, job, made, restock,
                 accepted, given, granted, stalled, faults>>

-----------------------------------------------------------------------------
(* afterRefundCompleted, by the worker or by a webhook. *)

SumReturned(t) ==
  LET p == task[t].payment IN
  /\ task[t].pc = "sum"
  /\ task' = [task EXCEPT ![t].pc = "payment",
                          ![t].full = IsFull(p)]
  /\ UNCHANGED <<payment, order, refund, opening, job, made, restock,
                 accepted, given, granted, untold, stalled, faults>>

MarkPayment(t) ==
  /\ task[t].pc = "payment"
  /\ payment' = [payment EXCEPT ![task[t].payment] =
                   IF task[t].full THEN "REFUNDED" ELSE "PARTIALLY_REFUNDED"]
  /\ task' = [task EXCEPT ![t].pc = "order"]
  /\ UNCHANGED <<order, refund, opening, job, made, restock, accepted,
                 given, granted, untold, stalled, faults>>

(* A task that has run to its end: a job completes, a webhook answers. *)
Finish(t) ==
  /\ task' = [task EXCEPT ![t] = Idle]
  /\ IF t = Worker
     THEN job' = [job EXCEPT ![task[t].refund] = "done"] /\ UNCHANGED untold
     ELSE Answers(t) /\ UNCHANGED job

MarkRefunded(t) ==
  LET o == OrderOf[task[t].payment] IN
  /\ task[t].pc = "order"
  /\ IF task[t].full
     THEN /\ order' = [order EXCEPT ![o] = IF @ = "PAID" THEN "REFUNDED" ELSE @]
          /\ task' = [task EXCEPT ![t].pc = "restock"]
          /\ UNCHANGED <<job, untold>>
     ELSE Finish(t) /\ UNCHANGED order
  /\ UNCHANGED <<payment, refund, opening, made, restock, accepted, given,
                 granted, stalled, faults>>

(* The queue ignores a job whose id (one per order) is already there. *)
QueueRestock(t) ==
  LET o == OrderOf[task[t].payment] IN
  /\ task[t].pc = "restock"
  /\ restock' = [restock EXCEPT ![o] = IF @ = None THEN task[t].payment ELSE @]
  /\ Finish(t)
  /\ UNCHANGED <<payment, order, refund, opening, made, accepted, given,
                 granted, stalled, faults>>

(* The worker takes the RESTOCK job; what it moves is the stock's business. *)
RunRestock(o) ==
  /\ task[Worker].pc = "idle"
  /\ restock[o] # None
  /\ restock' = [restock EXCEPT ![o] = None]
  /\ UNCHANGED <<payment, order, refund, opening, job, made, task, accepted,
                 given, granted, untold, stalled, faults>>

-----------------------------------------------------------------------------
(* Faults. *)

(* A database or queue call of the worker throws after the provider call. *)
WorkerThrows ==
  /\ faults < MaxFaults
  /\ faults' = faults + 1
  /\ task[Worker].pc \in {"answered", "sum", "payment", "order", "restock"}
  /\ AttemptFails(task[Worker].refund)
  /\ UNCHANGED <<payment, order, opening, restock, accepted, given, granted,
                 untold, stalled>>

(* The last attempt throws and so does failRefund (one outage): the row stays
   as it is, and no job is left to end it. *)
LastAttemptLost ==
  LET r == task[Worker].refund IN
  /\ faults < MaxFaults
  /\ faults' = faults + 1
  /\ task[Worker].pc # "idle"
  /\ IsLast(r)
  /\ \/ task[Worker].pc = "provider" /\ ProviderTakes(r, task[Worker].payment)
     \/ UNCHANGED <<accepted, granted>>
  /\ made' = [made EXCEPT ![r] = @ + 1]
  /\ job' = [job EXCEPT ![r] = "failed"]
  /\ task' = [task EXCEPT ![Worker] = Idle]
  /\ UNCHANGED <<payment, order, refund, opening, restock, given, untold,
                 stalled>>

(* A database call of a webhook throws; Mercado Pago will deliver it again. *)
WebhookThrows(h) ==
  /\ faults < MaxFaults
  /\ faults' = faults + 1
  /\ task[h].pc # "idle"
  /\ task' = [task EXCEPT ![h] = Idle]
  /\ UNCHANGED <<payment, order, refund, opening, job, made, restock,
                 accepted, given, granted, untold, stalled>>

Running == {r \in Refund : job[r] = "active"}

(* The process dies.  Rows, jobs and the provider's books survive; the job
   that was running is found stalled and runs again from its start, the
   second time it fails, past PaymentProcessor's catch. *)
Crash ==
  /\ faults < MaxFaults
  /\ faults' = faults + 1
  /\ task' = [t \in Task |-> Idle]
  /\ opening' = {}
  /\ job' = [r \in Refund |-> IF r \in Running \cap stalled THEN "failed"
                             ELSE IF r \in Running THEN "waiting" ELSE job[r]]
  /\ stalled' = stalled \cup Running
  /\ UNCHANGED <<payment, order, refund, made, restock, accepted, given,
                 granted, untold>>

-----------------------------------------------------------------------------
(* Every payment has been charged and its order marked paid. *)
Init ==
  /\ payment = [p \in Payment |-> "COMPLETED"]
  /\ order = [o \in Order |-> "PAID"]
  /\ refund = [r \in Refund |-> NoRow]
  /\ opening = {}
  /\ job = [r \in Refund |-> "none"]
  /\ made = [r \in Refund |-> 0]
  /\ restock = [o \in Order |-> None]
  /\ task = [t \in Task |-> Idle]
  /\ accepted = [p \in Payment |-> 0]
  /\ given = [p \in Payment |-> 0]
  /\ granted = [r \in Refund |-> 0]
  /\ untold = {}
  /\ stalled = {}
  /\ faults = 0

WorkerStep ==
  \/ \E r \in Refund : StartRefund(r) \/ SkipRefund(r)
  \/ RefundApproved \/ RefundRefused \/ RefundCallThrows \/ CompleteRefund
  \/ SumReturned(Worker) \/ MarkPayment(Worker) \/ MarkRefunded(Worker)
  \/ QueueRestock(Worker)
  \/ \E o \in Order : RunRestock(o)

WebhookStep(h) ==
  \/ RecordExternalRefund(h) \/ NothingToRecord(h)
  \/ SumReturned(h) \/ MarkPayment(h) \/ MarkRefunded(h) \/ QueueRestock(h)

Next ==
  \/ \E p \in Payment, a \in RefundAmounts :
       RequestRefund(p, a) \/ StoreRefunds(p, a) \/ MoneyMoves(p, a)
  \/ \E r \in Refund : QueueRefund(r)
  \/ WorkerStep
  \/ \E h \in Hook : WebhookStep(h) \/ WebhookThrows(h)
  \/ \E h \in Hook, p \in Payment : InspectCharge(h, p)
  \/ \E p \in Payment : IgnoreNotice(p)
  \/ WorkerThrows \/ LastAttemptLost
  \/ Crash

Spec == Init /\ [][Next]_vars

(* A live requester queues its job, the worker keeps taking jobs and every
   handler runs to its end. *)
Fairness ==
  /\ \A r \in Refund : WF_vars(QueueRefund(r))
  /\ WF_vars(WorkerStep)
  /\ \A h \in Hook : WF_vars(WebhookStep(h))

FairSpec == Spec /\ Fairness
-----------------------------------------------------------------------------
(* The refund cap, what requestRefund's row lock is for: however requests,
   jobs, retries and webhooks interleave, the refunds that are open or done
   never claim more of a payment than it charged, up to the rounding slack. *)
RefundCap == \A p \in Payment : Claimed(p) <= Amount[p] + Epsilon

(* Only money the provider agreed to give back is recorded as returned: the
   completed refunds of a payment, EKORU's own and those it learned of, never
   add up to more.  A refund in_process is completed before its money shows in
   the total a webhook reads, and a webhook may see a refund of EKORU's that
   is still being executed; counting either twice would break it. *)
ReturnedIsBacked == \A p \in Payment : Returned(p) <= accepted[p]

(* The statuses derived from refunds are earned.  A payment reads REFUNDED,
   and an order REFUNDED, only when one payment's completed refunds add up to
   its whole charge; PARTIALLY_REFUNDED only when something came back.  The
   sum is read before the statuses are written, so later rows must not be
   able to undo it. *)
Whole(p) == Returned(p) >= Amount[p] - Epsilon

StatusIsEarned ==
  /\ \A p \in Payment : payment[p] = "REFUNDED" => Whole(p)
  /\ \A p \in Payment : payment[p] = "PARTIALLY_REFUNDED" => Returned(p) > 0
  /\ \A o \in Order : order[o] = "REFUNDED" =>
       \E p \in Payment : OrderOf[p] = o /\ Whole(p)

(* A refund that ended keeps its end: a FAILED one, whose claim is free for
   another request, is never completed by a late attempt, and a COMPLETED one
   is never failed by the error path of a retry. *)
RefundEnds ==
  [][\A r \in Refund :
       refund[r].status \in {"COMPLETED", "FAILED"} => refund'[r] = refund[r]]_vars

(* No refund is left hanging: one that was requested ends, because its job is
   retried and the last failed attempt fails it. *)
RefundsEnd ==
  \A r \in Refund :
    refund[r].status \in Executable ~> refund[r].status \in {"COMPLETED", "FAILED"}

(* A full refund is carried through: once the completed refunds of a payment
   cover its charge, whoever completed them, its order stops being PAID. *)
FullRefundClosesOrder ==
  \A p \in Payment : Whole(p) ~> order[OrderOf[p]] # "PAID"

(* What a store gave back from its own account is accounted for, though
   Mercado Pago tells of a movement only until it is answered.  The exception
   is a refund of EKORU's that failed: while it was open it stood for the
   money a webhook saw, and when its claim is released nobody looks again. *)
Unaccounted(p) == given[p] - Claimed(p) > Epsilon

StoreRefundsAreRecorded ==
  \A p \in MercadoPago :
    Unaccounted(p) ~> \/ ~Unaccounted(p)
                      \/ \E r \in Refund : /\ refund[r].payment = p
                                           /\ refund[r].status = "FAILED"
                      \/ Free = {}

(* Mercado Pago repeats a notification until it is answered. *)
NotifiedSpec ==
  /\ FairSpec
  /\ \A p \in MercadoPago :
       SF_vars(p \in untold /\ (IgnoreNotice(p) \/ \E h \in Hook : InspectCharge(h, p)))

-----------------------------------------------------------------------------
(* The rows, jobs and webhooks implement the plain ledger: every step adds to
   or releases a claim within the payment, or returns money already claimed;
   what was returned is never taken back. *)
Ledger == INSTANCE RefundLedger WITH
  Limit <- [p \in Payment |-> Amount[p] + Epsilon],
  claimed <- [p \in Payment |-> Claimed(p)],
  returned <- [p \in Payment |-> Returned(p)]

KeepsLedger == Ledger!Spec
=============================================================================
