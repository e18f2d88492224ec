---------------------------- MODULE PaymentFlow ----------------------------
(***************************************************************************)
(* Paying an order (src/payments/payments.service.ts with the completion   *)
(* half of settlement.service.ts and the order statuses of                 *)
(* orders.service.ts): checkouts, the buyer at the provider, returns and   *)
(* webhooks handled concurrently, and the worker's sweep, which asks       *)
(* Mercado Pago about stale payments, expires them and cancels orders.     *)
(*                                                                         *)
(* Steps are cut at every await.  A refund is one step here, of the whole  *)
(* payment: Refunds models it in detail.                                   *)
(***************************************************************************)
EXTENDS Integers, FiniteSets, Statuses

CONSTANTS
  Payment,       \* payments the run may create
  Order,         \* orders
  OrderOf,       \* the order each payment pays: [Payment -> Order]
  MercadoPago,   \* the payments of that provider; the others are Webpay's
  Handler,       \* HTTP requests handled at the same time
  Worker,        \* the payments worker
  None,          \* no payment
  TakePayments,  \* payments one sweep asks about (take: 100)
  TakeOrders,    \* orders one sweep cancels (take: 500)
  MaxFaults      \* bound on errors and crashes

ASSUME PaymentOrders == OrderOf \in [Payment -> Order]
ASSUME MercadoPagoPayments == MercadoPago \subseteq Payment
ASSUME WorkerNotHandler == Worker \notin Handler
ASSUME NoneNotPayment == None \notin Payment

VARIABLES
  payment,    \* Payment.status; "NONE" is a row not created yet
  order,      \* Order.status
  age,        \* of a payment: 0 in the window, 1 past it, 2 half an hour past
  oldOrder,   \* orders created before the window
  checkout,   \* payments whose checkout the buyer was sent to
  books,      \* provider: what became of each checkout
  task,       \* what each actor is in the middle of
  sweep,      \* the expiry job: "idle", "ask", "expire", "list", "close"
  todo,       \* payments the sweep has yet to ask about
  closing,    \* orders the sweep has yet to cancel
  sale,       \* the waiting SALE job of each order: the payment it names
  taken,      \* payments whose SALE job ran (their STOCK row)
  refunding,  \* the automatic refund of each payment
  faults      \* errors and crashes so far

vars == <<payment, order, age, oldOrder, checkout, books, task, sweep, todo, closing,
          sale, taken, refunding, faults>>

Task == Handler \cup {Worker}

(* What providers know of a checkout.  Mercado Pago: attempts rejected,
   cancelled and approved.  Webpay: how the form ended, and whether the authorization was
   captured by a commit.  Both: given back. *)
Event == {"rejected", "cancelled", "approved", "authorized", "declined",
          "aborted", "timedout", "captured", "refunded"}

(* The ends of a Mercado Pago attempt. *)
AttemptEnd == {"rejected", "cancelled", "approved"}

(* Events that mean the buyer was charged. *)
Money == {"approved", "captured", "refunded"}

Charged(p) == books[p] \cap Money # {}

Outcome == {"COMPLETED", "FAILED", "CANCELLED", "EXPIRED", "PROCESSING"}

Pc == {"idle", "create", "initiate", "ask", "apply", "complete", "sell", "refund", "cancel"}

TaskState == [pc : Pc,
              payment : Payment \cup {None},
              read : PaymentStatus \cup {"NONE"},     \* the status it found
              asks : Event \cup {"lookup", "commit"},
              hook : BOOLEAN,                          \* a webhook, not a return
              result : Outcome]

Idle == [pc |-> "idle", payment |-> None, read |-> "NONE", asks |-> "lookup",
         hook |-> FALSE, result |-> "PROCESSING"]

TypeOK ==
  /\ payment \in [Payment -> PaymentStatus \cup {"NONE"}]
  /\ order \in [Order -> OrderStatus]
  /\ age \in [Payment -> 0..2]
  /\ oldOrder \subseteq Order
  /\ checkout \subseteq Payment
  /\ books \in [Payment -> SUBSET Event]
  /\ task \in [Task -> TaskState]
  /\ sweep \in {"idle", "ask", "expire", "list", "close"}
  /\ todo \subseteq Payment
  /\ closing \subseteq Order
  /\ sale \in [Order -> Payment \cup {None}]
  /\ taken \subseteq Payment
  /\ refunding \in [Payment -> {"no", "asked", "done"}]
  /\ faults \in Nat

Waiting == {"PENDING", "PROCESSING"}

(* FINAL_PAYMENT_STATUSES. *)
Final == {"COMPLETED", "FAILED", "CANCELLED", "EXPIRED", "REFUNDED",
          "PARTIALLY_REFUNDED"}

(* MERCADOPAGO_REOPENABLE. *)
Reopenable == {"FAILED", "EXPIRED"}

(* Mutant: a failed or expired Mercado Pago payment is never looked at again. *)
IsSettled_NoReopen(p) == payment[p] \in Final

IsSettled(p) ==
  /\ payment[p] \in Final
  /\ ~(p \in MercadoPago /\ payment[p] \in Reopenable)

Do(t, pc) == task' = [task EXCEPT ![t].pc = pc]

Rest(t) == task' = [task EXCEPT ![t] = Idle]

-----------------------------------------------------------------------------
(* createPayment: the order is read, then a row inserted and the buyer sent
   to the provider. *)

StartCheckout(h, p) ==
  /\ task[h].pc = "idle"
  /\ payment[p] = "NONE"
  /\ \A t \in Task : task[t].payment # p
  /\ order[OrderOf[p]] = "PENDING_PAYMENT"
  /\ task' = [task EXCEPT ![h] = [Idle EXCEPT !.pc = "create", !.payment = p]]
  /\ UNCHANGED <<payment, order, age, oldOrder, checkout, books, sweep, todo,
                 closing, sale, taken, refunding, faults>>

InsertPayment(h) ==
  /\ task[h].pc = "create"
  /\ payment' = [payment EXCEPT ![task[h].payment] = "PROCESSING"]
  /\ Do(h, "initiate")
  /\ UNCHANGED <<order, age, oldOrder, checkout, books, sweep, todo, closing,
                 sale, taken, refunding, faults>>

(* The provider answers with a checkout, or throws and the row fails. *)
Initiate(h) ==
  /\ task[h].pc = "initiate"
  /\ \/ checkout' = checkout \cup {task[h].payment} /\ UNCHANGED payment
     \/ /\ payment' = [payment EXCEPT ![task[h].payment] = "FAILED"]
        /\ UNCHANGED checkout
  /\ Rest(h)
  /\ UNCHANGED <<order, age, oldOrder, books, sweep, todo, closing, sale,
                 taken, refunding, faults>>

-----------------------------------------------------------------------------
(* The buyer at the provider, and the clock. *)

(* Checkout Pro: attempts that failed may be followed by an approved one.  The
   preference closes about when our window does, so one may land after it. *)
Attempt(p, e) ==
  /\ p \in MercadoPago \cap checkout
  /\ age[p] < 2
  /\ e \in AttemptEnd \ books[p]
  /\ ~Charged(p)
  /\ books' = [books EXCEPT ![p] = @ \cup {e}]
  /\ UNCHANGED <<payment, order, age, oldOrder, checkout, task, sweep, todo,
                 closing, sale, taken, refunding, faults>>

(* Webpay's form ends once, before our window does. *)
FormEnds(p, e) ==
  /\ p \in checkout \ MercadoPago
  /\ age[p] = 0
  /\ books[p] = {}
  /\ e \in {"authorized", "declined", "aborted", "timedout"}
  /\ books' = [books EXCEPT ![p] = {e}]
  /\ UNCHANGED <<payment, order, age, oldOrder, checkout, task, sweep, todo,
                 closing, sale, taken, refunding, faults>>

PaymentAges(p) ==
  /\ payment[p] # "NONE"
  /\ age[p] < 2
  /\ age' = [age EXCEPT ![p] = @ + 1]
  /\ oldOrder' = oldOrder \cup {OrderOf[p]}
  /\ UNCHANGED <<payment, order, checkout, books, task, sweep, todo, closing,
                 sale, taken, refunding, faults>>

OrderAges(o) ==
  /\ o \notin oldOrder
  /\ oldOrder' = oldOrder \cup {o}
  /\ UNCHANGED <<payment, order, age, checkout, books, task, sweep, todo,
                 closing, sale, taken, refunding, faults>>

-----------------------------------------------------------------------------
(* handleProviderReturn and _handleMercadoPagoWebhook: find the payment and
   read its status, ask the provider, then settle. *)

(* The buyer is back, or reloads the page.  Mercado Pago's return names an
   attempt or none; Webpay's commits when its form was authorized. *)
Return(h, p, asks) ==
  /\ task[h].pc = "idle"
  /\ p \in checkout
  /\ ~IsSettled(p)
  /\ IF p \in MercadoPago
     THEN asks \in (books[p] \cap AttemptEnd) \cup {"lookup"}
     ELSE asks = "commit" /\ books[p] # {}
  /\ task' = [task EXCEPT ![h] = [Idle EXCEPT !.pc = "ask", !.payment = p,
                                              !.read = payment[p], !.asks = asks]]
  /\ UNCHANGED <<payment, order, age, oldOrder, checkout, books, sweep, todo,
                 closing, sale, taken, refunding, faults>>

(* A Mercado Pago notification names one attempt, in any order, any number
   of times. *)
Webhook(h, p, attempt) ==
  /\ task[h].pc = "idle"
  /\ p \in MercadoPago \cap checkout
  /\ attempt \in books[p] \cap AttemptEnd
  /\ ~IsSettled(p)
  /\ task' = [task EXCEPT ![h] = [Idle EXCEPT !.pc = "ask", !.payment = p,
                                              !.read = payment[p],
                                              !.asks = attempt, !.hook = TRUE]]
  /\ UNCHANGED <<payment, order, age, oldOrder, checkout, books, sweep, todo,
                 closing, sale, taken, refunding, faults>>

(* mapMercadoPagoStatus: a refunded charge, or none yet, is still PROCESSING. *)
MapStatus(e) ==
  CASE e = "approved" -> "COMPLETED"
    [] e = "rejected" -> "FAILED"
    [] e = "cancelled" -> "CANCELLED"
    [] OTHER -> "PROCESSING"

(* The attempt a lookup by reference finds: an approved one, else the last;
   nothing follows a charge that was given back. *)
Found(p) ==
  IF "approved" \in books[p] THEN {"approved"}
  ELSE IF "refunded" \in books[p] THEN {"refunded"}
  ELSE books[p]

(* Mutant: Mercado Pago's own word for the outcome is stored. *)
Answer_Raw(p, asks) == books[p] \cup {"PROCESSING"}

(* Mercado Pago's answer, read back from its API: of the attempt that was
   named, whose charge may have been given back since, or of the one looked up. *)
Answer(p, asks) ==
  IF asks \in books[p] THEN {MapStatus(asks)}
  ELSE IF asks = "lookup" /\ Found(p) # {} THEN {MapStatus(e) : e \in Found(p)}
  ELSE {"PROCESSING"}

(* Mutant: any answer to the commit counts as an authorization. *)
CommitResult_Any(p) ==
  CASE "aborted" \in books[p] -> "CANCELLED"
    [] "timedout" \in books[p] -> "EXPIRED"
    [] OTHER -> "COMPLETED"

(* Webpay's: a commit captures an authorization once, a second one is
   refused; the other returns never commit. *)
CommitResult(p) ==
  CASE "authorized" \in books[p] -> "COMPLETED"
    [] "aborted" \in books[p] -> "CANCELLED"
    [] "timedout" \in books[p] -> "EXPIRED"
    [] OTHER -> "FAILED"

(* A return that learns nothing leaves a failed or expired payment as it is;
   a webhook that learns nothing ends there. *)
Drops(t, result) ==
  result = "PROCESSING" /\ (task[t].hook \/ task[t].read \notin Waiting)

Learn(t, result) ==
  task' = IF Drops(t, result) THEN [task EXCEPT ![t] = Idle]
          ELSE [task EXCEPT ![t].pc = "apply", ![t].result = result]

AskMercadoPago(h) ==
  LET p == task[h].payment IN
  /\ task[h].pc = "ask"
  /\ p \in MercadoPago
  /\ \E result \in Answer(p, task[h].asks) : Learn(h, result)
  /\ UNCHANGED <<payment, order, age, oldOrder, checkout, books, sweep, todo,
                 closing, sale, taken, refunding, faults>>

Commit(h) ==
  LET p == task[h].payment IN
  /\ task[h].pc = "ask"
  /\ p \notin MercadoPago
  /\ Learn(h, CommitResult(p))
  /\ books' = [books EXCEPT ![p] = IF "authorized" \in @ THEN {"captured"} ELSE @]
  /\ UNCHANGED <<payment, order, age, oldOrder, checkout, sweep, todo, closing,
                 sale, taken, refunding, faults>>

(* Transbank's answer to the commit is lost: the adapter reports FAILED. *)
CommitLost(h) ==
  LET p == task[h].payment IN
  /\ faults < MaxFaults
  /\ faults' = faults + 1
  /\ task[h].pc = "ask"
  /\ "authorized" \in books[p]
  /\ Learn(h, "FAILED")
  /\ books' = [books EXCEPT ![p] = {"captured"}]
  /\ UNCHANGED <<payment, order, age, oldOrder, checkout, sweep, todo, closing,
                 sale, taken, refunding>>

-----------------------------------------------------------------------------
(* _settle: _applyTerminalStatus, then onCompleted or markCanceled. *)

Closes == {"FAILED", "CANCELLED", "EXPIRED"}

(* A rejected Mercado Pago attempt leaves the order open for a retry. *)
KeepsOrderOpen(t) == task[t].payment \in MercadoPago /\ task[t].result = "FAILED"

Apply(t) ==
  LET result == task[t].result IN
  /\ task[t].pc = "apply"
  /\ payment' = [payment EXCEPT ![task[t].payment] = result]
  /\ \/ result = "COMPLETED" /\ Do(t, "complete")
     \/ result \in Closes /\ ~KeepsOrderOpen(t) /\ Do(t, "cancel")
     \/ (result = "PROCESSING" \/ KeepsOrderOpen(t)) /\ Rest(t)
  /\ UNCHANGED <<order, age, oldOrder, checkout, books, sweep, todo, closing,
                 sale, taken, refunding, faults>>

(* Mutant: markPaid takes an order whatever its status. *)
MarkPaid_Always(t) ==
  /\ task[t].pc = "complete"
  /\ order' = [order EXCEPT ![OrderOf[task[t].payment]] = "PAID"]
  /\ Do(t, "sell")
  /\ UNCHANGED <<payment, age, oldOrder, checkout, books, sweep, todo, closing,
                 sale, taken, refunding, faults>>

(* Mutant: a payment too many is not given back. *)
MarkPaid_KeepsDuplicate(t) ==
  LET o == OrderOf[task[t].payment] IN
  /\ task[t].pc = "complete"
  /\ order' = [order EXCEPT ![o] = IF @ = "PENDING_PAYMENT" THEN "PAID" ELSE @]
  /\ IF order[o] = "PENDING_PAYMENT" THEN Do(t, "sell") ELSE Rest(t)
  /\ UNCHANGED <<payment, age, oldOrder, checkout, books, sweep, todo, closing,
                 sale, taken, refunding, faults>>

(* onCompleted asks markPaid; a payment the order did not wait for is
   refunded. *)
MarkPaid(t) ==
  LET o == OrderOf[task[t].payment] IN
  /\ task[t].pc = "complete"
  /\ order' = [order EXCEPT ![o] = IF @ = "PENDING_PAYMENT" THEN "PAID" ELSE @]
  /\ Do(t, IF order[o] = "PENDING_PAYMENT" THEN "sell" ELSE "refund")
  /\ UNCHANGED <<payment, age, oldOrder, checkout, books, sweep, todo, closing,
                 sale, taken, refunding, faults>>

(* One SALE job id per order: the queue ignores a second one. *)
QueueSale(t) ==
  LET o == OrderOf[task[t].payment] IN
  /\ task[t].pc = "sell"
  /\ sale' = [sale EXCEPT ![o] = IF @ = None THEN task[t].payment ELSE @]
  /\ Rest(t)
  /\ UNCHANGED <<payment, order, age, oldOrder, checkout, books, sweep, todo,
                 closing, taken, refunding, faults>>

(* requestRefund throws unless the payment reads as charged and nothing of it
   is claimed yet. *)
AutoRefund(t) ==
  LET p == task[t].payment IN
  /\ task[t].pc = "refund"
  /\ refunding' = [refunding EXCEPT ![p] =
                     IF @ = "no" /\ payment[p] \in Refundable THEN "asked" ELSE @]
  /\ Rest(t)
  /\ UNCHANGED <<payment, order, age, oldOrder, checkout, books, sweep, todo,
                 closing, sale, taken, faults>>

(* Mutant: cancels an order whatever its status. *)
Canceled_Always(o) == order' = [order EXCEPT ![o] = "CANCELED"]

(* markCanceled. *)
Canceled(o) ==
  order' = [order EXCEPT ![o] = IF @ = "PENDING_PAYMENT" THEN "CANCELED" ELSE @]

MarkCanceled(t) ==
  /\ task[t].pc = "cancel"
  /\ Canceled(OrderOf[task[t].payment])
  /\ Rest(t)
  /\ UNCHANGED <<payment, age, oldOrder, checkout, books, sweep, todo, closing,
                 sale, taken, refunding, faults>>

-----------------------------------------------------------------------------
(* The worker, one job at a time: reconcileStale and expireStale. *)

WorkerFree == task[Worker].pc = "idle" /\ sweep = "idle"

(* What reconcileStale selects: the payments still waiting past the window,
   and those that failed and left it in the last half hour. *)
Unreconciled ==
  {p \in MercadoPago : \/ age[p] > 0 /\ payment[p] \in Waiting
                       \/ age[p] = 1 /\ payment[p] = "FAILED"}

(* Up to n of the rows a query selects. *)
Take(S, n) == {T \in SUBSET S : Cardinality(T) = IF Cardinality(S) < n
                                                 THEN Cardinality(S) ELSE n}

StartSweep ==
  /\ WorkerFree
  /\ sweep' = "ask"
  /\ todo' \in Take(Unreconciled, TakePayments)
  /\ UNCHANGED <<payment, order, age, oldOrder, checkout, books, task, closing,
                 sale, taken, refunding, faults>>

AskNext(p) ==
  /\ sweep = "ask" /\ task[Worker].pc = "idle"
  /\ p \in todo
  /\ todo' = todo \ {p}
  /\ \E result \in Answer(p, "lookup") :
       IF result = "PROCESSING" THEN UNCHANGED task
       ELSE task' = [task EXCEPT ![Worker] = [Idle EXCEPT !.pc = "apply", !.payment = p,
                                                          !.result = result]]
  /\ UNCHANGED <<payment, order, age, oldOrder, checkout, books, sweep, closing,
                 sale, taken, refunding, faults>>

(* Mercado Pago does not answer about one payment: it is logged. *)
LookupFails(p) ==
  /\ faults < MaxFaults
  /\ faults' = faults + 1
  /\ sweep = "ask" /\ task[Worker].pc = "idle"
  /\ p \in todo
  /\ todo' = todo \ {p}
  /\ UNCHANGED <<payment, order, age, oldOrder, checkout, books, task, sweep,
                 closing, sale, taken, refunding>>

ReconcileEnds ==
  /\ sweep = "ask" /\ task[Worker].pc = "idle"
  /\ todo = {}
  /\ sweep' = "expire"
  /\ UNCHANGED <<payment, order, age, oldOrder, checkout, books, task, todo,
                 closing, sale, taken, refunding, faults>>

ExpirePayments ==
  /\ sweep = "expire"
  /\ payment' = [p \in Payment |-> IF payment[p] \in Waiting /\ age[p] > 0
                                   THEN "EXPIRED" ELSE payment[p]]
  /\ sweep' = "list"
  /\ UNCHANGED <<order, age, oldOrder, checkout, books, task, todo, closing,
                 sale, taken, refunding, faults>>

(* Mutant: only orders nobody tried to pay. *)
StaleOrders_Unpaid ==
  {o \in oldOrder : /\ order[o] = "PENDING_PAYMENT"
                    /\ \A p \in Payment : OrderOf[p] = o => payment[p] = "NONE"}

StaleOrders ==
  {o \in oldOrder : /\ order[o] = "PENDING_PAYMENT"
                    /\ \A p \in Payment : OrderOf[p] = o =>
                         payment[p] = "NONE" \/ age[p] > 0}

ListOrders ==
  /\ sweep = "list"
  /\ closing' \in Take(StaleOrders, TakeOrders)
  /\ sweep' = "close"
  /\ UNCHANGED <<payment, order, age, oldOrder, checkout, books, task, todo,
                 sale, taken, refunding, faults>>

CloseOrder(o) ==
  /\ sweep = "close"
  /\ o \in closing
  /\ Canceled(o)
  /\ closing' = closing \ {o}
  /\ UNCHANGED <<payment, age, oldOrder, checkout, books, task, sweep, todo,
                 sale, taken, refunding, faults>>

SweepEnds ==
  /\ sweep = "close"
  /\ closing = {}
  /\ sweep' = "idle"
  /\ UNCHANGED <<payment, order, age, oldOrder, checkout, books, task, todo,
                 closing, sale, taken, refunding, faults>>

-----------------------------------------------------------------------------
(* The worker's other jobs. *)

(* takeStock: applied once per payment; what it takes is the stock's
   business. *)
RunSale(o) ==
  /\ WorkerFree
  /\ sale[o] # None
  /\ sale' = [sale EXCEPT ![o] = None]
  /\ taken' = taken \cup {sale[o]}
  /\ UNCHANGED <<payment, order, age, oldOrder, checkout, books, task, sweep,
                 todo, closing, refunding, faults>>

(* executeRefund and afterRefundCompleted of a whole payment. *)
RunRefund(p) ==
  LET o == OrderOf[p] IN
  /\ WorkerFree
  /\ refunding[p] = "asked"
  /\ refunding' = [refunding EXCEPT ![p] = "done"]
  /\ books' = [books EXCEPT ![p] = (@ \ {"approved", "captured"}) \cup {"refunded"}]
  /\ payment' = [payment EXCEPT ![p] = "REFUNDED"]
  /\ order' = [order EXCEPT ![o] = IF @ = "PAID" THEN "REFUNDED" ELSE @]
  /\ UNCHANGED <<age, oldOrder, checkout, task, sweep, todo, closing, sale,
                 taken, faults>>

-----------------------------------------------------------------------------
(* Faults. *)

(* A database or queue call of one handler throws; the sweep logs it and goes
   on with the next payment. *)
Throws(t) ==
  /\ faults < MaxFaults
  /\ faults' = faults + 1
  /\ task[t].pc # "idle"
  /\ Rest(t)
  /\ UNCHANGED <<payment, order, age, oldOrder, checkout, books, sweep, todo,
                 closing, sale, taken, refunding>>

(* The process dies: rows, jobs and the providers' books survive. *)
Crash ==
  /\ faults < MaxFaults
  /\ faults' = faults + 1
  /\ task' = [t \in Task |-> Idle]
  /\ sweep' = "idle"
  /\ todo' = {}
  /\ closing' = {}
  /\ UNCHANGED <<payment, order, age, oldOrder, checkout, books, sale, taken,
                 refunding>>

-----------------------------------------------------------------------------
Init ==
  /\ payment = [p \in Payment |-> "NONE"]
  /\ order = [o \in Order |-> "PENDING_PAYMENT"]
  /\ age = [p \in Payment |-> 0]
  /\ oldOrder = {}
  /\ checkout = {}
  /\ books = [p \in Payment |-> {}]
  /\ task = [t \in Task |-> Idle]
  /\ sweep = "idle"
  /\ todo = {}
  /\ closing = {}
  /\ sale = [o \in Order |-> None]
  /\ taken = {}
  /\ refunding = [p \in Payment |-> "no"]
  /\ faults = 0

Buyer ==
  \E p \in Payment :
    \/ \E h \in Handler : StartCheckout(h, p)
    \/ \E e \in Event : Attempt(p, e) \/ FormEnds(p, e)
    \/ \E h \in Handler, asks \in Event \cup {"lookup", "commit"} : Return(h, p, asks)

(* A step of whoever is in the middle of settling a payment. *)
SettleStep(t) ==
  Apply(t) \/ MarkPaid(t) \/ QueueSale(t) \/ AutoRefund(t) \/ MarkCanceled(t)

HandlerStep(h) ==
  InsertPayment(h) \/ Initiate(h) \/ AskMercadoPago(h) \/ Commit(h) \/ SettleStep(h)

WorkerStep ==
  \/ SettleStep(Worker)
  \/ \E p \in Payment : AskNext(p)
  \/ ReconcileEnds \/ ExpirePayments \/ ListOrders \/ SweepEnds
  \/ \E o \in Order : CloseOrder(o)

Jobs == (\E o \in Order : RunSale(o)) \/ (\E p \in Payment : RunRefund(p))

Next ==
  \/ Buyer
  \/ \E h \in Handler, p \in Payment, e \in Event : Webhook(h, p, e)
  \/ \E h \in Handler : HandlerStep(h) \/ CommitLost(h)
  \/ StartSweep \/ WorkerStep \/ Jobs
  \/ \E p \in Payment : PaymentAges(p) \/ LookupFails(p)
  \/ \E o \in Order : OrderAges(o)
  \/ \E t \in Task : Throws(t)
  \/ Crash

Spec == Init /\ [][Next]_vars

(* Requests run to their end, the worker keeps taking jobs (the sweep is
   scheduled every few minutes, other jobs are not starved by it), and time
   passes. *)
Fairness ==
  /\ \A h \in Handler : WF_vars(HandlerStep(h))
  /\ WF_vars(WorkerStep) /\ WF_vars(StartSweep)
  /\ \A o \in Order : SF_vars(RunSale(o)) /\ WF_vars(OrderAges(o))
  /\ \A p \in Payment : SF_vars(RunRefund(p)) /\ WF_vars(PaymentAges(p))

FairSpec == Spec /\ Fairness

(* A notice of this payment may have been answered for good. *)
Answered(p) == "approved" \in books[p] /\ IsSettled(p)

(* Mercado Pago delivers a notification again until it is answered, which it is
   at once when the payment is settled.  Nobody promises another one. *)
NotifiedSpec ==
  /\ FairSpec
  /\ \A p \in MercadoPago :
       <>Answered(p) \/ SF_vars(\E h \in Handler : Webhook(h, p, "approved"))

-----------------------------------------------------------------------------
Sold(p) == sale[OrderOf[p]] = p \/ p \in taken

(* What the providers say is what the rows say: a payment reads COMPLETED or
   REFUNDED only if its buyer was charged, an order is PAID or REFUNDED only
   if a buyer of it was. *)
ChargesAreReal ==
  /\ \A p \in Payment : payment[p] \in {"COMPLETED", "REFUNDED"} => Charged(p)
  /\ \A o \in Order : order[o] \in {"PAID", "REFUNDED"} =>
       \E p \in Payment : OrderOf[p] = o /\ Charged(p)

(* However many tabs, returns, webhooks and sweeps settle the payments of an
   order at once, it is sold once, by one payment, and an order that was
   canceled is never sold. *)
SoldOnce ==
  \A p \in Payment : Sold(p) =>
    /\ order[OrderOf[p]] \in {"PAID", "REFUNDED"}
    /\ \A q \in Payment \ {p} : OrderOf[q] = OrderOf[p] => ~Sold(q)

(* A buyer is not left with two charges for one order: when nothing is under
   way and nothing failed, all completed payments of an order but one are
   being given back. *)
NoDoubleCharge ==
  faults = 0 /\ (\A t \in Task : task[t].pc = "idle") =>
    \A p, q \in Payment :
      /\ p # q /\ OrderOf[p] = OrderOf[q]
      /\ payment[p] = "COMPLETED" /\ payment[q] = "COMPLETED"
      => refunding[p] # "no" \/ refunding[q] # "no"

(* A charged payment that was completed or cancelled is left failed or
   expired: who asked Mercado Pago before the charge wrote the older answer
   over it. *)
WrittenOver(p) ==
  /\ <>(Charged(p) /\ payment[p] \in {"COMPLETED", "CANCELLED"})
  /\ <>[](payment[p] \in Reopenable)

(* A charge has an end: the order it paid is sold, or the money goes back,
   also when it lands on a payment that failed or expired meanwhile.  The
   exceptions are a payment Mercado Pago once reported cancelled, which is
   never reopened, so that an attempt approved after that is not looked at, and
   one whose settled status is written over after its notice was answered. *)
ChargesSettle ==
  \A p \in Payment :
    \/ WrittenOver(p)
    \/ Charged(p) ~> Sold(p) \/ refunding[p] = "done" \/ payment[p] = "CANCELLED"

(* An order does not wait for its payment for ever. *)
OrdersClose ==
  \A o \in Order : order[o] = "PENDING_PAYMENT" ~> order[o] # "PENDING_PAYMENT"

(* The handlers, the sweep and the jobs implement the plain life of an order:
   it is paid or canceled once, and sold only when it was paid, by one
   payment. *)
Life == INSTANCE OrderLife WITH sold <- {p \in Payment : Sold(p)}

KeepsLife == Life!Spec

-----------------------------------------------------------------------------
(* What the comments, docs and tests also say of the program. *)

(* A payment is refunded automatically only because another payment paid the
   order, or the order had expired. *)
AutoRefundHasReason ==
  \A p \in Payment : refunding[p] # "no" =>
    \/ order[OrderOf[p]] = "CANCELED"
    \/ \E q \in Payment \ {p} : OrderOf[q] = OrderOf[p] /\ Charged(q)

(* A second payment of a paid order changes nothing of the order: it stays
   as the payment that sold it left it. *)
DuplicateChangesNothing ==
  \A p \in Payment :
    Sold(p) /\ payment[p] = "COMPLETED" /\ refunding[p] = "no"
      => order[OrderOf[p]] = "PAID"
=============================================================================
