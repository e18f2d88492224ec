-------------------------------- MODULE Stock --------------------------------
(***************************************************************************)
(* The units of an order (takeStock and restock of                         *)
(* src/payments/settlement.service.ts): the SALE job takes them out of the *)
(* stores subgraph and asks for the money of those that were not there,    *)
(* the RESTOCK job, queued when a payment has been refunded in full, puts  *)
(* back what that payment took.                                            *)
(*                                                                         *)
(* How a refund is carried out is module Refunds; here a refund is asked   *)
(* for, and then returned or refused.  The worker runs one job at a time,  *)
(* and other jobs run between two attempts of one.                         *)
(***************************************************************************)
EXTENDS Integers, Functions, FiniteSets

CONSTANTS
  Order, Payment, Product,
  OrderOf,      \* the order each payment pays: [Payment -> Order]
  Payer,        \* the payment that got each order paid; others are duplicates
  Quantity,     \* units of each product an order holds
  Price,        \* their price in the order: [Product -> Nat]
  Amount,       \* what each payment charged: [Payment -> Nat]
  Shelf,        \* units in the stores at the start: [Product -> Nat]
  MaxAttempts,  \* attempts of a job
  MaxRequested, \* bound on what people ask back: [Payment -> Nat]
  None,
  MaxFaults     \* bound on crashes

ASSUME ShopIsFinite == IsFiniteSet(Order) /\ IsFiniteSet(Product)
ASSUME OrderOfType == OrderOf \in [Payment -> Order]
ASSUME PayerType == /\ Payer \in [Order -> Payment]
                    /\ \A o \in Order : OrderOf[Payer[o]] = o
ASSUME QuantityType == Quantity \in [Order -> [Product -> Nat]]
ASSUME MoneyType == Price \in [Product -> Nat] /\ Amount \in [Payment -> Nat]
ASSUME ShelfType == Shelf \in [Product -> Nat]
ASSUME BoundsType == /\ MaxAttempts \in Nat \ {0}
                     /\ MaxRequested \in [Payment -> Nat]
                     /\ MaxFaults \in Nat
ASSUME NoneIsNothing == None \notin Payment /\ None \notin Order
                          /\ None \notin [Product -> Nat]

VARIABLES
  shelf,      \* stores: units of each product
  sold,       \* stores: the movement `order:<id>:sale`, units applied
  back,       \* stores: the movement `order:<id>:restock`
  record,     \* the STOCK row of each payment: units applied
  sale,       \* the job stock-sale-<order>
  restock,    \* the job stock-restock-<order> and the payment it names
  requested,  \* the refunds ever asked of each payment, in all
  owed,       \* the part of them still open
  returned,   \* the part given back
  task,       \* what the worker is in the middle of
  faults

stores == <<shelf, sold, back>>

money == <<requested, owed, returned>>

vars == <<stores, record, sale, restock, money, task, faults>>

Units == [Product -> Nat]

JobState == {"none", "waiting", "done", "failed"}

SaleJob == [state : JobState, made : Nat]

RestockJob == [state : JobState, made : Nat, payment : Payment \cup {None}]

Task == [pc : {"idle", "record", "refund"}, order : Order \cup {None},
         applied : Units \cup {None}]

Idle == [pc |-> "idle", order |-> None, applied |-> None]

TypeOK ==
  /\ shelf \in [Product -> Int]
  /\ sold \in [Order -> Units \cup {None}]
  /\ back \in [Order -> Units \cup {None}]
  /\ record \in [Payment -> Units \cup {None}]
  /\ sale \in [Order -> SaleJob]
  /\ restock \in [Order -> RestockJob]
  /\ requested \in [Payment -> Nat]
  /\ owed \in [Payment -> Nat]
  /\ returned \in [Payment -> Nat]
  /\ task \in Task
  /\ faults \in Nat

-----------------------------------------------------------------------------
(* A failed attempt of a job: it waits for the next one, or stays failed. *)
Failed(job) == [job EXCEPT !.made = @ + 1,
                           !.state = IF job.made + 1 >= MaxAttempts
                                     THEN "failed" ELSE "waiting"]

Min(a, b) == IF a < b THEN a ELSE b

(* What the stores apply of a sale: as much as is there, and once per
   reference, so a repeated call gets the first answer. *)
Applied(o) ==
  IF sold[o] # None THEN sold[o]
  ELSE [i \in Product |-> Min(Quantity[o][i], shelf[i])]

(* Mutant: each attempt has a reference of its own. *)
SellReference_PerAttempt(o) ==
  LET applied == [i \in Product |-> Min(Quantity[o][i], shelf[i])] IN
  /\ sold' = [sold EXCEPT ![o] = applied]
  /\ shelf' = [i \in Product |-> shelf[i] - applied[i]]

SellReference(o) ==
  /\ sold' = [sold EXCEPT ![o] = Applied(o)]
  /\ shelf' = IF sold[o] # None THEN shelf
              ELSE [i \in Product |-> shelf[i] - Applied(o)[i]]

PutBackReference(o, units) ==
  /\ back' = [back EXCEPT ![o] = IF @ = None THEN units ELSE @]
  /\ shelf' = IF back[o] # None THEN shelf
              ELSE [i \in Product |-> shelf[i] + units[i]]

-----------------------------------------------------------------------------
(* Refunds, in outline. *)

Refundable(p) == returned[p] < Amount[p]

Ask(p, amount) ==
  /\ Refundable(p)
  /\ owed[p] + returned[p] + amount <= Amount[p]
  /\ owed' = [owed EXCEPT ![p] = @ + amount]
  /\ requested' = [requested EXCEPT ![p] = @ + amount]

(* Somebody asks for a refund: an administrator, or settlement for a payment
   of an order that another one already paid. *)
RequestRefund(p, amount) ==
  /\ requested[p] + amount <= MaxRequested[p]
  /\ Ask(p, amount)
  /\ UNCHANGED <<stores, record, sale, restock, returned, task, faults>>

RefuseRefund(p) ==
  /\ owed[p] > 0
  /\ owed' = [owed EXCEPT ![p] = 0]
  /\ UNCHANGED <<stores, record, sale, restock, requested, returned, task, faults>>

(* Mutant: the job names the order where the payment belongs. *)
QueueRestock_Order(p) ==
  LET o == OrderOf[p] IN
  restock' = [restock EXCEPT ![o] = [state |-> "waiting", made |-> 0,
                                     payment |-> o]]

(* The queue ignores a job whose id is there, waiting or failed. *)
QueueRestock(p) ==
  LET o == OrderOf[p] IN
  restock' = IF restock[o].state \in {"waiting", "failed"} THEN restock
             ELSE [restock EXCEPT ![o] = [state |-> "waiting", made |-> 0,
                                          payment |-> p]]

Return(p) ==
  /\ owed[p] > 0
  /\ owed' = [owed EXCEPT ![p] = 0]
  /\ returned' = [returned EXCEPT ![p] = @ + owed[p]]

(* afterRefundCompleted. *)
CompleteRefund(p) ==
  /\ Return(p)
  /\ IF returned[p] + owed[p] >= Amount[p] THEN QueueRestock(p)
     ELSE UNCHANGED restock
  /\ UNCHANGED <<stores, record, sale, requested, task, faults>>

(* The same, dying before the job is queued: the refund is COMPLETED, so its
   own job has nothing left to do. *)
CompleteRefundAndDie(p) ==
  /\ faults < MaxFaults
  /\ faults' = faults + 1
  /\ Return(p)
  /\ task' = Idle
  /\ UNCHANGED <<stores, record, sale, restock, requested>>

-----------------------------------------------------------------------------
(* takeStock. *)

QueueSale(o) ==
  /\ sale[o].state = "none"
  /\ sale' = [sale EXCEPT ![o].state = "waiting"]
  /\ UNCHANGED <<stores, record, restock, money, task, faults>>

CanRunSale(o) == task.pc = "idle" /\ sale[o].state = "waiting"

(* An earlier attempt recorded what the stores did, or the order has no store
   lines. *)
NothingToSell(o) ==
  record[Payer[o]] # None \/ \A i \in Product : Quantity[o][i] = 0

SkipSale(o) ==
  /\ CanRunSale(o)
  /\ NothingToSell(o)
  /\ sale' = [sale EXCEPT ![o].state = "done"]
  /\ UNCHANGED <<stores, record, restock, money, task, faults>>

Sell(o) ==
  /\ CanRunSale(o)
  /\ ~NothingToSell(o)
  /\ SellReference(o)
  /\ task' = [pc |-> "record", order |-> o, applied |-> Applied(o)]
  /\ UNCHANGED <<back, record, sale, restock, money, faults>>

(* The call throws; the stores may have applied it. *)
SellThrows(o) ==
  /\ CanRunSale(o)
  /\ ~NothingToSell(o)
  /\ SellReference(o) \/ UNCHANGED <<sold, shelf>>
  /\ sale' = [sale EXCEPT ![o] = Failed(@)]
  /\ UNCHANGED <<back, record, restock, money, task, faults>>

RecordStock ==
  LET o == task.order IN
  /\ task.pc = "record"
  /\ record' = [record EXCEPT ![Payer[o]] = task.applied]
  /\ IF task.applied = Quantity[o]
     THEN task' = Idle /\ sale' = [sale EXCEPT ![o].state = "done"]
     ELSE task' = [task EXCEPT !.pc = "refund"] /\ UNCHANGED sale
  /\ UNCHANGED <<stores, restock, money, faults>>

(* Mutant: only lines of which nothing was left are refunded. *)
Short_WholeLines(o, applied) ==
  SumFunction([i \in Product |->
    IF applied[i] = 0 THEN Quantity[o][i] * Price[i] ELSE 0])

Short(o, applied) ==
  SumFunction([i \in Product |-> (Quantity[o][i] - applied[i]) * Price[i]])

RefundDue(o, applied) ==
  IF \A i \in Product : applied[i] = 0 THEN Amount[Payer[o]]
  ELSE Short(o, applied)

RefundShort ==
  LET o == task.order
      due == RefundDue(o, task.applied)
  IN
  /\ task.pc = "refund"
  /\ IF due = 0 THEN UNCHANGED <<owed, requested>> ELSE Ask(Payer[o], due)
  /\ sale' = [sale EXCEPT ![o].state = "done"]
  /\ task' = Idle
  /\ UNCHANGED <<stores, record, restock, returned, faults>>

(* requestRefund refuses: the payment cannot be refunded, or not that much.
   The attempt fails, and the next one finds the STOCK row. *)
RefundShortRefused ==
  LET p == Payer[task.order]
      due == RefundDue(task.order, task.applied)
  IN
  /\ task.pc = "refund"
  /\ due > 0
  /\ ~Refundable(p) \/ owed[p] + returned[p] + due > Amount[p]
  /\ sale' = [sale EXCEPT ![task.order] = Failed(@)]
  /\ task' = Idle
  /\ UNCHANGED <<stores, record, restock, money, faults>>

-----------------------------------------------------------------------------
(* restock. *)

CanRunRestock(o) == task.pc = "idle" /\ restock[o].state = "waiting"

(* Mutant: the record of the order's sale, whoever's refund queued the job. *)
TakenBy_Order(o) == record[Payer[o]]

(* What the payment of the job took. *)
TakenBy(o) == record[restock[o].payment]

HasTaken(o) == TakenBy(o) # None /\ \E i \in Product : TakenBy(o)[i] > 0

(* Mutant: the units ordered go back, whatever was applied. *)
PutBack_Ordered(o) ==
  /\ CanRunRestock(o)
  /\ HasTaken(o)
  /\ PutBackReference(o, Quantity[o])
  /\ restock' = [restock EXCEPT ![o].state = "done"]
  /\ UNCHANGED <<sold, record, sale, money, task, faults>>

(* Mutant: the job ends without the call. *)
PutBack_Forgets(o) ==
  /\ CanRunRestock(o)
  /\ HasTaken(o)
  /\ restock' = [restock EXCEPT ![o].state = "done"]
  /\ UNCHANGED <<stores, record, sale, money, task, faults>>

PutBack(o) ==
  /\ CanRunRestock(o)
  /\ HasTaken(o)
  /\ PutBackReference(o, TakenBy(o))
  /\ restock' = [restock EXCEPT ![o].state = "done"]
  /\ UNCHANGED <<sold, record, sale, money, task, faults>>

PutBackThrows(o) ==
  /\ CanRunRestock(o)
  /\ HasTaken(o)
  /\ PutBackReference(o, TakenBy(o)) \/ UNCHANGED <<back, shelf>>
  /\ restock' = [restock EXCEPT ![o] = Failed(@)]
  /\ UNCHANGED <<sold, record, sale, money, task, faults>>

NothingToPutBack(o) ==
  /\ CanRunRestock(o)
  /\ ~HasTaken(o)
  /\ restock' = [restock EXCEPT ![o].state = "done"]
  /\ UNCHANGED <<stores, record, sale, money, task, faults>>

-----------------------------------------------------------------------------
(* The process dies; the job it was running starts again. *)
Crash ==
  /\ faults < MaxFaults
  /\ faults' = faults + 1
  /\ task.pc # "idle"
  /\ task' = Idle
  /\ UNCHANGED <<stores, record, sale, restock, money>>

Init ==
  /\ shelf = Shelf
  /\ sold = [o \in Order |-> None]
  /\ back = [o \in Order |-> None]
  /\ record = [p \in Payment |-> None]
  /\ sale = [o \in Order |-> [state |-> "none", made |-> 0]]
  /\ restock = [o \in Order |-> [state |-> "none", made |-> 0, payment |-> None]]
  /\ requested = [p \in Payment |-> 0]
  /\ owed = [p \in Payment |-> 0]
  /\ returned = [p \in Payment |-> 0]
  /\ task = Idle
  /\ faults = 0

WorkerStep ==
  \/ \E o \in Order :
       \/ SkipSale(o) \/ Sell(o) \/ SellThrows(o)
       \/ PutBack(o) \/ PutBackThrows(o) \/ NothingToPutBack(o)
  \/ RecordStock \/ RefundShort \/ RefundShortRefused

Next ==
  \/ \E p \in Payment : \/ \E amount \in 1..Amount[p] : RequestRefund(p, amount)
                        \/ RefuseRefund(p)
                        \/ CompleteRefund(p)
                        \/ CompleteRefundAndDie(p)
  \/ \E o \in Order : QueueSale(o)
  \/ WorkerStep
  \/ Crash

Spec == Init /\ [][Next]_vars

(* The worker keeps taking jobs, and gets to each job of the queue. *)
Fairness ==
  /\ \A o \in Order : /\ SF_vars(SkipSale(o) \/ Sell(o) \/ SellThrows(o))
                      /\ SF_vars(PutBack(o) \/ PutBackThrows(o) \/ NothingToPutBack(o))
  /\ WF_vars(RecordStock \/ RefundShort \/ RefundShortRefused)

FairSpec == Spec /\ Fairness
-----------------------------------------------------------------------------
(* No unit is lost or made: what is on the shelf, plus what each order took
   and did not put back, is what there was.  The jobs are retried after calls
   whose answer was lost, so it is the references that keep it true. *)
Out(o, i) == (IF sold[o] = None THEN 0 ELSE sold[o][i])
               - (IF back[o] = None THEN 0 ELSE back[o][i])

UnitsConserved ==
  \A i \in Product :
    shelf[i] + SumFunction([o \in Order |-> Out(o, i)]) = Shelf[i]

(* Units go back only for the payment that took them and only once all of its
   money did, never more of them than it took: the full refund of a duplicate
   payment must not empty an order that is still sold. *)
BackOnlyIfRefunded ==
  \A o \in Order : back[o] # None =>
    /\ returned[Payer[o]] >= Amount[Payer[o]]
    /\ sold[o] = back[o]

(* Units that were not there are refunded: when the SALE job is over, with no
   crash, their price has been asked back, or all that was charged when none
   was there, or that did not fit beside what others had asked of the
   payment. *)
Missing(o) ==
  LET applied == record[Payer[o]] IN
  IF \E i \in Product : applied[i] > 0
  THEN SumFunction([i \in Product |-> (Quantity[o][i] - applied[i]) * Price[i]])
  ELSE Amount[Payer[o]]

ShortIsRefunded ==
  \A o \in Order :
    LET p == Payer[o] IN
    sale[o].state = "done" /\ faults = 0 /\ record[p] # None
      => requested[p] >= Missing(o) \/ requested[p] + Missing(o) > Amount[p]

(* A sale that is refunded in full is put back, when the refund finds its
   STOCK row and no other payment of the order has used the job's id. *)
SoldThenRefunded(o) ==
  LET p == Payer[o] IN
  /\ record[p] # None
  /\ \E i \in Product : record[p][i] > 0
  /\ restock[o] = [state |-> "waiting", made |-> 0, payment |-> p]

SoldUnitsReturn ==
  \A o \in Order :
    SoldThenRefunded(o) ~> (back[o] = record[Payer[o]] \/ restock[o].state = "failed")
=============================================================================
