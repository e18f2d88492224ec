------------------------------- MODULE Quotes -------------------------------
(***************************************************************************)
(* Payments without an order (src/payments): a client pays an accepted     *)
(* quotation of the services subgraph, a seller pays EKORU for a           *)
(* membership of the users subgraph.  A completed quotation payment is     *)
(* stamped on the quotation by a job, or refunded when services refuses    *)
(* it; a completed membership payment activates the membership at once.    *)
(*                                                                         *)
(* How a refund is carried out is module Refunds, the payments of orders   *)
(* are module PaymentFlow.  Returns and webhooks read the payment, ask the *)
(* provider and then write what it said: steps are cut at each.            *)
(***************************************************************************)
EXTENDS Integers

CONSTANTS
  Payment,
  Quotation,
  QuoteOf,     \* the quotation each payment pays, or None: a membership
  Provider,    \* "MERCADOPAGO", "WEBPAY" or "KHIPU": [Payment -> STRING]
  Handler,     \* requests handled at the same time
  Worker,      \* the worker of the payments queue
  MaxAttempts, \* attempts of a job
  None,
  MaxRequests, \* bound on the requests made
  MaxFaults    \* bound on calls that fail and on crashes

ASSUME QuoteOfType == QuoteOf \in [Payment -> Quotation \cup {None}]
ASSUME ProviderType ==
  Provider \in [Payment -> {"MERCADOPAGO", "WEBPAY", "KHIPU"}]
ASSUME BoundsType == /\ MaxAttempts \in Nat \ {0}
                     /\ MaxRequests \in Nat /\ MaxFaults \in Nat
ASSUME ActorsAreApart == Worker \notin Handler
ASSUME NoneIsNothing == None \notin Payment /\ None \notin Quotation

VARIABLES
  status,    \* Payment.status, "NONE" before the row
  opened,    \* payments the provider has a checkout for
  charge,    \* what the buyer did at the provider
  accepted,  \* services: quotations whose status is ACCEPTED
  paid,      \* services: the payment stamped on each quotation
  active,    \* users: the payments whose membership was activated
  job,       \* the job quotation-paid-<payment>
  refund,    \* the refund settlement asked for
  noted,     \* payments with a QUOTATION_PAID_NOTICE row
  notices,   \* the notices sent of each payment
  task,      \* where each handler and the worker stand
  requests,  \* requests made so far
  faults

provider == <<opened, charge>>

services == <<accepted, paid>>

mail == <<noted, notices>>

vars == <<status, provider, services, active, job, refund, mail,
          task, requests, faults>>

Actor == Handler \cup {Worker}

Waiting == {"PROCESSING"}

PaymentStatus == {"NONE", "PROCESSING", "COMPLETED", "FAILED", "CANCELLED", "EXPIRED",
                  "REFUNDED"}

Task == [pc : {"idle", "initiate", "ask", "apply", "settle", "sweep",
               "refund", "notify", "send"},
         payment : Payment \cup {None},
         from : {"return", "webhook", "sweep", None},
         seen : PaymentStatus \cup {None},    \* the status it loaded
         answer : PaymentStatus \cup {None},  \* what the provider said
         list : SUBSET Payment,               \* what the sweep still asks about
         stale : SUBSET Payment]              \* what was past the window

Idle == [pc |-> "idle", payment |-> None, from |-> None, seen |-> None,
         answer |-> None, list |-> {}, stale |-> {}]

TypeOK ==
  /\ status \in [Payment -> PaymentStatus]
  /\ opened \subseteq Payment
  /\ charge \in [Payment -> {"none", "authorized", "charged", "rejected", "cancelled"}]
  /\ accepted \subseteq Quotation
  /\ paid \in [Quotation -> Payment \cup {None}]
  /\ active \subseteq Payment
  /\ job \in [Payment -> [state : {"none", "waiting", "done", "failed"}, made : Nat]]
  /\ refund \in [Payment -> {"none", "requested", "returned", "refused"}]
  /\ noted \subseteq Payment
  /\ notices \in [Payment -> Nat]
  /\ task \in [Actor -> Task]
  /\ requests \in Nat
  /\ faults \in Nat

-----------------------------------------------------------------------------
IsQuote(p) == QuoteOf[p] # None

IsSettled(p) ==
  /\ status[p] \notin Waiting \cup {"NONE"}
  /\ ~(Provider[p] = "MERCADOPAGO" /\ status[p] \in {"FAILED", "EXPIRED"})

At(a, pc) == task[a].pc = pc

Goto(a, pc) == task' = [task EXCEPT ![a].pc = pc]

(* After a payment, a request is over, and the sweep goes on. *)
Leave(a) ==
  task' = [task EXCEPT ![a] =
    IF task[a].from = "sweep"
    THEN [Idle EXCEPT !.pc = "sweep", !.list = task[a].list, !.stale = task[a].stale]
    ELSE Idle]

Request(h) ==
  /\ At(h, "idle")
  /\ requests < MaxRequests
  /\ requests' = requests + 1

Fault == faults < MaxFaults /\ faults' = faults + 1

-----------------------------------------------------------------------------
(* createQuotationPayment and createMembershipPayment. *)

(* The charge as services or users gives it; a membership has a price at any
   time. *)
MayPay(p) ==
  IsQuote(p) => QuoteOf[p] \in accepted /\ paid[QuoteOf[p]] = None

(* The charge is read and the row inserted; another payment of the quotation
   may be open, and is not looked for. *)
CreatePayment(h, p) ==
  /\ Request(h)
  /\ status[p] = "NONE"
  /\ MayPay(p)
  /\ status' = [status EXCEPT ![p] = "PROCESSING"]
  /\ task' = [task EXCEPT ![h].pc = "initiate", ![h].payment = p]
  /\ UNCHANGED <<provider, services, active, job, refund, mail, faults>>

Initiate(h) ==
  /\ At(h, "initiate")
  /\ \/ opened' = opened \cup {task[h].payment} /\ UNCHANGED <<status, faults>>
     \/ /\ Fault
        /\ status' = [status EXCEPT ![task[h].payment] = "FAILED"]
        /\ UNCHANGED opened
  /\ Leave(h)
  /\ UNCHANGED <<charge, services, active, job, refund, mail, requests>>

(* The buyer at the provider pays, is rejected, or calls it off.  Webpay
   charges when the return commits, and only Mercado Pago lets a buyer whose
   attempt failed try again; the last attempt speaks for them all. *)
Pay(p) ==
  /\ p \in opened
  /\ \/ charge[p] = "none"
     \/ charge[p] \in {"rejected", "cancelled"} /\ Provider[p] = "MERCADOPAGO"
  /\ \/ charge' = [charge EXCEPT ![p] = IF Provider[p] = "WEBPAY"
                                        THEN "authorized" ELSE "charged"]
     \/ /\ charge[p] = "none"
        /\ \E end \in {"rejected", "cancelled"} : charge' = [charge EXCEPT ![p] = end]
  /\ UNCHANGED <<status, opened, services, active, job, refund, mail,
                 task, requests, faults>>

(* The provider withdraws the quotation, or its term passes. *)
Withdraw(q) ==
  /\ q \in accepted
  /\ accepted' = accepted \ {q}
  /\ UNCHANGED <<status, provider, paid, active, job, refund, mail, task,
                 requests, faults>>

-----------------------------------------------------------------------------
(* Returns and webhooks. *)

Loads(h, p, from) ==
  task' = [task EXCEPT ![h] = [Idle EXCEPT !.pc = "ask", !.payment = p,
                                           !.from = from, !.seen = status[p]]]

Return(h, p) ==
  /\ Request(h)
  /\ p \in opened /\ ~IsSettled(p)
  /\ Loads(h, p, "return")
  /\ UNCHANGED <<status, provider, services, active, job, refund, mail, faults>>

(* Khipu's key is that of the order's seller, and these payments have no
   order; Mercado Pago signs with EKORU's own secret. *)
Verifies(p) == Provider[p] # "KHIPU"

Webhook(h, p) ==
  /\ Request(h)
  /\ charge[p] # "none" /\ Provider[p] # "WEBPAY"
  /\ IF Verifies(p) /\ ~IsSettled(p) THEN Loads(h, p, "webhook")
     ELSE UNCHANGED task
  /\ UNCHANGED <<status, provider, services, active, job, refund, mail, faults>>

(* A Webpay return after the form timed out, after a payment, which is
   committed once and refused the second time, after a rejected card, or after
   the buyer aborted. *)
CommitResult ==
  [none |-> "EXPIRED", authorized |-> "COMPLETED", charged |-> "FAILED",
   rejected |-> "FAILED", cancelled |-> "CANCELLED"]

(* mapMercadoPagoStatus. *)
MapStatus ==
  [none |-> "PROCESSING", authorized |-> "PROCESSING", charged |-> "COMPLETED",
   rejected |-> "FAILED", cancelled |-> "CANCELLED"]

(* What the provider says; Khipu's return never tells the outcome. *)
Answer(p) ==
  CASE Provider[p] = "KHIPU" -> "PROCESSING"
    [] Provider[p] = "WEBPAY" -> CommitResult[charge[p]]
    [] OTHER -> MapStatus[charge[p]]

(* A buyer back without paying changes nothing of a failed or expired one, a
   webhook and the sweep take only an outcome. *)
Drops(t, answer) ==
  answer = "PROCESSING" /\ (t.from = "return" => t.seen \notin Waiting)

Ask(a) ==
  LET p == task[a].payment IN
  /\ At(a, "ask")
  /\ charge' = [charge EXCEPT ![p] = IF @ = "authorized" THEN "charged" ELSE @]
  /\ IF Drops(task[a], Answer(p)) THEN Leave(a)
     ELSE task' = [task EXCEPT ![a].pc = "apply", ![a].answer = Answer(p)]
  /\ UNCHANGED <<status, opened, services, active, job, refund, mail,
                 requests, faults>>

(* The answer to Webpay's commit is lost, before or after it charged: the
   payment reads FAILED. *)
CommitLost(a) ==
  LET p == task[a].payment IN
  /\ At(a, "ask")
  /\ Provider[p] = "WEBPAY" /\ charge[p] \in {"authorized", "charged", "rejected"}
  /\ Fault
  /\ \/ charge' = [charge EXCEPT ![p] = IF @ = "authorized" THEN "charged" ELSE @]
     \/ UNCHANGED charge
  /\ task' = [task EXCEPT ![a].pc = "apply", ![a].answer = "FAILED"]
  /\ UNCHANGED <<status, opened, services, active, job, refund, mail, requests>>

(* Mercado Pago, or a statement before the call, throws: the request ends, the
   sweep goes on. *)
AskFails(a) ==
  /\ At(a, "ask")
  /\ Fault
  /\ Leave(a)
  /\ UNCHANGED <<status, provider, services, active, job, refund, mail, requests>>

(* Mutant: whatever is not rejected counts as completed. *)
Apply_Optimist(a) ==
  /\ At(a, "apply")
  /\ status' = [status EXCEPT ![task[a].payment] = task[a].answer]
  /\ IF task[a].answer # "FAILED" THEN Goto(a, "settle") ELSE Leave(a)
  /\ UNCHANGED <<provider, services, active, job, refund, mail, requests, faults>>

(* _applyTerminalStatus. *)
Apply(a) ==
  /\ At(a, "apply")
  /\ status' = [status EXCEPT ![task[a].payment] = task[a].answer]
  /\ IF task[a].answer = "COMPLETED" THEN Goto(a, "settle") ELSE Leave(a)
  /\ UNCHANGED <<provider, services, active, job, refund, mail, requests, faults>>

(* Mutant: the job is queued under the quotation, not the payment. *)
QueueQuotation_Quote(a) ==
  LET q == QuoteOf[task[a].payment] IN
  /\ At(a, "settle") /\ IsQuote(task[a].payment)
  /\ job' = [x \in DOMAIN job \cup {q} |->
               IF x = q THEN [state |-> "waiting", made |-> 0] ELSE job[x]]
  /\ Leave(a)
  /\ UNCHANGED <<status, provider, services, active, refund, mail, requests, faults>>

(* onCompleted.  The queue ignores a job whose id is there; a completed job
   leaves none. *)
QueueQuotation(a) ==
  LET p == task[a].payment IN
  /\ At(a, "settle") /\ IsQuote(p)
  /\ job' = IF job[p].state \in {"waiting", "failed"} THEN job
            ELSE [job EXCEPT ![p] = [state |-> "waiting", made |-> 0]]
  /\ Leave(a)
  /\ UNCHANGED <<status, provider, services, active, refund, mail, requests, faults>>

(* _activateMembership: an error is logged, nothing tries again. *)
ActivateMembership(a) ==
  /\ At(a, "settle") /\ ~IsQuote(task[a].payment)
  /\ \/ active' = active \cup {task[a].payment} /\ UNCHANGED faults
     \/ Fault /\ UNCHANGED active
  /\ Leave(a)
  /\ UNCHANGED <<status, provider, services, job, refund, mail, requests>>

-----------------------------------------------------------------------------
(* settleQuotation. *)

Runs(p) == At(Worker, "idle") /\ job[p].state = "waiting"

Done(p) == job' = [job EXCEPT ![p].state = "done"]

AttemptFails(p) ==
  job' = [job EXCEPT ![p] =
    [made |-> @.made + 1,
     state |-> IF @.made + 1 >= MaxAttempts THEN "failed" ELSE "waiting"]]

WorkerGoes(pc, p) ==
  task' = [task EXCEPT ![Worker] = [Idle EXCEPT !.pc = pc, !.payment = p]]

(* services stamps an accepted quotation once, and answers the same payment
   again. *)
Stamps(p) ==
  LET q == QuoteOf[p] IN paid[q] = p \/ (paid[q] = None /\ q \in accepted)

SkipQuotation(p) ==
  /\ Runs(p) /\ status[p] # "COMPLETED"
  /\ Done(p)
  /\ UNCHANGED <<status, provider, services, active, refund, mail, task,
                 requests, faults>>

MarkQuotationPaid(p) ==
  /\ Runs(p) /\ status[p] = "COMPLETED"
  /\ Stamps(p)
  /\ paid' = [paid EXCEPT ![QuoteOf[p]] = p]
  /\ WorkerGoes("notify", p)
  /\ UNCHANGED <<status, provider, accepted, active, job, refund, mail,
                 requests, faults>>

(* Mutant: any error of the call is taken for a refusal. *)
MarkThrows_Refused(p) ==
  /\ Runs(p) /\ status[p] = "COMPLETED"
  /\ \/ Stamps(p) /\ paid' = [paid EXCEPT ![QuoteOf[p]] = p]
     \/ UNCHANGED paid
  /\ WorkerGoes("refund", p)
  /\ UNCHANGED <<status, provider, accepted, active, job, refund, mail,
                 requests, faults>>

(* The call throws, and services may have stamped the quotation. *)
MarkThrows(p) ==
  /\ Runs(p) /\ status[p] = "COMPLETED"
  /\ \/ Stamps(p) /\ paid' = [paid EXCEPT ![QuoteOf[p]] = p]
     \/ UNCHANGED paid
  /\ AttemptFails(p)
  /\ UNCHANGED <<status, provider, accepted, active, refund, mail, task,
                 requests, faults>>

(* Mutant: a refused payment is only logged. *)
QuotationRefused_Logged(p) ==
  /\ Runs(p) /\ status[p] = "COMPLETED"
  /\ ~Stamps(p)
  /\ Done(p)
  /\ UNCHANGED <<status, provider, services, active, refund, mail, task,
                 requests, faults>>

(* services answers BAD_REQUEST. *)
QuotationRefused(p) ==
  /\ Runs(p) /\ status[p] = "COMPLETED"
  /\ ~Stamps(p)
  /\ WorkerGoes("refund", p)
  /\ UNCHANGED <<status, provider, services, active, job, refund, mail,
                 requests, faults>>

(* requestRefund, of the whole payment: it throws when that is not left. *)
RequestRefund ==
  LET p == task[Worker].payment IN
  /\ At(Worker, "refund")
  /\ IF status[p] = "COMPLETED" /\ refund[p] \in {"none", "refused"}
     THEN refund' = [refund EXCEPT ![p] = "requested"] /\ Done(p)
     ELSE UNCHANGED refund /\ AttemptFails(p)
  /\ Leave(Worker)
  /\ UNCHANGED <<status, provider, services, active, mail, requests, faults>>

(* notifyQuotationPaid: the row is looked for and written, then both parties
   are told.  No error of it fails the job. *)
NoteQuotationPaid ==
  LET p == task[Worker].payment IN
  /\ At(Worker, "notify")
  /\ IF p \in noted
     THEN Done(p) /\ Leave(Worker) /\ UNCHANGED noted
     ELSE noted' = noted \cup {p} /\ Goto(Worker, "send") /\ UNCHANGED job
  /\ UNCHANGED <<status, provider, services, active, refund, notices,
                 requests, faults>>

NotifyQuotationPaid ==
  LET p == task[Worker].payment IN
  /\ At(Worker, "send")
  /\ \/ notices' = [notices EXCEPT ![p] = @ + 1] /\ UNCHANGED faults
     \/ Fault /\ UNCHANGED notices
  /\ Done(p)
  /\ Leave(Worker)
  /\ UNCHANGED <<status, provider, services, active, refund, noted, requests>>

(* executeRefund, in outline. *)
RefundEnds(p) ==
  /\ refund[p] = "requested"
  /\ \/ /\ refund' = [refund EXCEPT ![p] = "returned"]
        /\ status' = [status EXCEPT ![p] = "REFUNDED"]
     \/ refund' = [refund EXCEPT ![p] = "refused"] /\ UNCHANGED status
  /\ UNCHANGED <<provider, services, active, job, mail, task, requests, faults>>

-----------------------------------------------------------------------------
(* The job expire-stale: reconcileStale, then expireStale. *)

(* The payments that are past the window when the sweep starts. *)
StartSweep(stale) ==
  /\ At(Worker, "idle")
  /\ stale \subseteq opened
  /\ \E p \in stale : status[p] \in Waiting
  /\ task' = [task EXCEPT ![Worker] =
       [Idle EXCEPT !.pc = "sweep", !.stale = stale,
          !.list = {p \in stale : Provider[p] = "MERCADOPAGO"
                                    /\ status[p] \in Waiting \cup {"FAILED"}}]]
  /\ UNCHANGED <<status, provider, services, active, job, refund, mail,
                 requests, faults>>

AskNext(p) ==
  /\ At(Worker, "sweep")
  /\ p \in task[Worker].list
  /\ task' = [task EXCEPT ![Worker].pc = "ask", ![Worker].payment = p,
                          ![Worker].from = "sweep", ![Worker].list = @ \ {p}]
  /\ UNCHANGED <<status, provider, services, active, job, refund, mail,
                 requests, faults>>

(* And those past it when expireStale reads the clock again. *)
ExpireStale(stale) ==
  /\ At(Worker, "sweep")
  /\ task[Worker].stale \subseteq stale
  /\ task[Worker].list = {}
  /\ status' = [p \in Payment |->
       IF p \in stale /\ status[p] \in Waiting THEN "EXPIRED" ELSE status[p]]
  /\ task' = [task EXCEPT ![Worker] = Idle]
  /\ UNCHANGED <<provider, services, active, job, refund, mail, requests, faults>>

(* The process dies; the job it was running is taken again. *)
Crash ==
  /\ \E a \in Actor : ~At(a, "idle")
  /\ Fault
  /\ task' = [a \in Actor |-> Idle]
  /\ UNCHANGED <<status, provider, services, active, job, refund, mail, requests>>

-----------------------------------------------------------------------------
Init ==
  /\ status = [p \in Payment |-> "NONE"]
  /\ opened = {}
  /\ charge = [p \in Payment |-> "none"]
  /\ accepted = Quotation
  /\ paid = [q \in Quotation |-> None]
  /\ active = {}
  /\ job = [p \in Payment |-> [state |-> "none", made |-> 0]]
  /\ refund = [p \in Payment |-> "none"]
  /\ noted = {}
  /\ notices = [p \in Payment |-> 0]
  /\ task = [a \in Actor |-> Idle]
  /\ requests = 0
  /\ faults = 0

SettleStep(a) ==
  \/ Ask(a) \/ CommitLost(a) \/ AskFails(a) \/ Apply(a)
  \/ QueueQuotation(a) \/ ActivateMembership(a)

QuotationStep(p) ==
  SkipQuotation(p) \/ MarkQuotationPaid(p) \/ MarkThrows(p) \/ QuotationRefused(p)

WorkerStep ==
  \/ RequestRefund \/ NoteQuotationPaid \/ NotifyQuotationPaid
  \/ \E stale \in SUBSET opened : ExpireStale(stale)
  \/ \E p \in Payment : AskNext(p)

Next ==
  \/ \E h \in Handler :
       \/ Initiate(h)
       \/ \E p \in Payment : CreatePayment(h, p) \/ Return(h, p) \/ Webhook(h, p)
  \/ \E a \in Actor : SettleStep(a)
  \/ \E p \in Payment : Pay(p) \/ QuotationStep(p) \/ RefundEnds(p)
  \/ \E q \in Quotation : Withdraw(q)
  \/ WorkerStep \/ Crash \/ \E stale \in SUBSET opened : StartSweep(stale)

Spec == Init /\ [][Next]_vars

(* What has begun goes on, and a worker that keeps coming back to the queue
   takes a job of it. *)
Fairness ==
  /\ WF_vars(\E a \in Actor : SettleStep(a))
  /\ SF_vars(\E p \in Payment : QuotationStep(p))
  /\ WF_vars(WorkerStep)

FairSpec == Spec /\ Fairness
-----------------------------------------------------------------------------
(* A quotation is paid once and by a real charge: the payment that is stamped
   on it took the client's money and is not given back by settlement, also
   when the answer to the stamp was lost and the job ran again, and its
   parties are told once of it and of no other payment. *)
QuotePaidOnce ==
  \A p \in Payment :
    LET Kept == IsQuote(p) /\ paid[QuoteOf[p]] = p IN
    /\ Kept => charge[p] = "charged" /\ refund[p] = "none"
    /\ notices[p] > 0 => Kept /\ notices[p] = 1
    /\ p \in active => charge[p] = "charged"

(* Every completed payment buys what it was for or is given back: with no
   error or crash on the way, a quotation payment is stamped or refunded and a
   membership is active; once the job is queued, no crash loses it either.
   A job out of attempts is left for somebody to see, and a Webpay payment
   that is committed twice stops reading COMPLETED. *)
Honoured(p) ==
  IF IsQuote(p) THEN paid[QuoteOf[p]] = p \/ refund[p] # "none" ELSE p \in active

CompletedIsHonoured ==
  \A p \in {p \in Payment : Verifies(p)} :
    LET End == Honoured(p) \/ job[p].state = "failed" \/ status[p] # "COMPLETED" IN
    (status[p] = "COMPLETED" /\ (faults = 0 \/ job[p].state = "waiting"))
      ~> (End \/ (faults > 0 /\ job[p].state # "waiting"))
=============================================================================
