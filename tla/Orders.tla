------------------------------- MODULE Orders -------------------------------
(***************************************************************************)
(* Orders outside of their payment (src/orders): the checkout that prices  *)
(* a cart, EKORU's commission on it, the stages of its shipping, what the  *)
(* buyer and the seller are told, and the eco-points of a delivery.        *)
(*                                                                         *)
(* Payments and refunds are modules PaymentFlow and Refunds; here they     *)
(* only move the order's status.  Every request loads, checks and writes   *)
(* in separate steps, and the points are given in the background.          *)
(***************************************************************************)
EXTENDS Commission, Functions, FiniteSets

CONSTANTS
  Order, Product, Person,
  Buyer,       \* who orders: [Order -> Person]
  Cart,        \* the units ordered: [Order -> [Product -> Nat]]
  SellerOf,    \* [Product -> Person]
  StoreGoods,  \* products of stores, with stock and offers; others are used goods
  Price, OfferPrice,   \* [Product -> Nat]
  ShippingCost,        \* of the method each order chose: [Order -> Nat]
  StaffOf,     \* the store whose orders each person's panel handles, or None
  Operators,   \* platform admins with MANAGE_ORDERS
  Rates,       \* the commission rates admins may set, in percent
  Handler,     \* requests handled at the same time
  None,
  MaxRequests, \* bound on the requests made
  MaxChanges,  \* bound on what changes in the catalogues and connections
  MaxFaults    \* bound on calls that fail and on crashes

ASSUME PeopleType ==
  /\ Buyer \in [Order -> Person]
  /\ SellerOf \in [Product -> Person]
  /\ StaffOf \in [Person -> Person \cup {None}]
  /\ Operators \subseteq Person
ASSUME CartType == Cart \in [Order -> [Product -> Nat]]
ASSUME MoneyType == /\ Price \in [Product -> Nat] /\ OfferPrice \in [Product -> Nat]
                    /\ ShippingCost \in [Order -> Nat]
                    /\ Rates \subseteq Nat
ASSUME GoodsType == StoreGoods \subseteq Product /\ IsFiniteSet(Product)
ASSUME BoundsType == MaxRequests \in Nat /\ MaxChanges \in Nat /\ MaxFaults \in Nat
ASSUME NoneIsNothing == None \notin Person \cup Order \cup Nat

VARIABLES
  listed,    \* products that are active
  offered,   \* stores: products with an active offer
  empty,     \* stores: products with fewer units than any cart holds
  connected, \* sellers who can receive payments now
  rate,      \* the rate in force
  status,    \* Order.status, "NONE" before the order
  total,     \* Order.total
  fee,       \* Payment.fees of the order's payment, None before it
  stage,     \* ShippingStatus.status
  told,      \* the notices the parties of each order were sent
  delivered, \* history: orders that were ever DELIVERED
  withdrawn, \* history: orders whose shipping was ever CANCELED
  credited,  \* users: who earned points for which order
  ledger,    \* rows of the local points ledger, by order and role
  task,      \* where each request stands
  award,     \* where the points of its delivery stand
  requests,  \* requests made so far
  changes,
  faults

catalogue == <<listed, offered, empty, connected, rate>>

points == <<credited, ledger>>

orders == <<status, total, fee, stage, told, delivered, withdrawn>>

vars == <<catalogue, orders, points, task, award, requests, changes, faults>>

OrderStatus == {"NONE", "PENDING_PAYMENT", "PAID", "CANCELED", "REFUNDED"}

Stage == {"PREPARING", "SHIPPED", "DELIVERED", "RETURNED", "CANCELED"}

Notice == {"STARTED", "ORDER_CONFIRMED", "ORDER_SHIPPED", "ORDER_DELIVERED",
           "ORDER_CANCELLED", "PAYMENT_REFUNDED"}

Role == {"BUYER", "SELLER"}

Task == [pc : {"idle", "persist", "ship"}, order : Order \cup {None},
         total : Nat \cup {None}, to : Stage \cup {None}]

Idle == [pc |-> "idle", order |-> None, total |-> None, to |-> None]

Award == [pc : {"idle", "read", "credit"}, order : Order \cup {None},
          todo : SUBSET Role, fresh : SUBSET Role]

NoAward == [pc |-> "idle", order |-> None, todo |-> {}, fresh |-> {}]

TypeOK ==
  /\ listed \subseteq Product
  /\ offered \subseteq StoreGoods
  /\ empty \subseteq StoreGoods
  /\ connected \subseteq Person
  /\ rate \in Rates
  /\ status \in [Order -> OrderStatus]
  /\ total \in [Order -> Nat]
  /\ fee \in [Order -> Nat \cup {None}]
  /\ stage \in [Order -> Stage]
  /\ told \subseteq Order \X Notice
  /\ delivered \subseteq Order
  /\ withdrawn \subseteq Order
  /\ credited \subseteq Order \X Role
  /\ ledger \in [Order \X Role -> Nat]
  /\ task \in [Handler -> Task]
  /\ award \in [Handler -> Award]
  /\ requests \in Nat /\ changes \in Nat /\ faults \in Nat

-----------------------------------------------------------------------------
Fault == faults < MaxFaults /\ faults' = faults + 1

Request(h) ==
  /\ task[h].pc = "idle"
  /\ requests < MaxRequests
  /\ requests' = requests + 1

Leave(h) == task' = [task EXCEPT ![h] = Idle]

Tell(o, notice) == told' = told \cup {<<o, notice>>}

Lines(o) == {i \in Product : Cart[o][i] > 0}

Sellers(o) == {SellerOf[i] : i \in Lines(o)}

Seller(o) == CHOOSE s \in Person : Sellers(o) = {s}

(* What the owning subgraphs quote. *)
PriceOf(i) == IF i \in offered THEN OfferPrice[i] ELSE Price[i]

Total(o) ==
  ShippingCost[o] + SumFunction([i \in Product |-> Cart[o][i] * PriceOf(i)])

-----------------------------------------------------------------------------
(* createOrder: prices and availability are read, then the order is written. *)

OneSeller(o) == \E s \in Person \ {Buyer[o]} : Sellers(o) = {s}

Available(o) == Lines(o) \subseteq listed \ empty

LoadPrices(h, o) ==
  /\ Request(h)
  /\ status[o] = "NONE"
  /\ \A g \in Handler : task[g].order # o
  /\ Available(o) /\ OneSeller(o)
  /\ task' = [task EXCEPT ![h] = [Idle EXCEPT !.pc = "persist", !.order = o,
                                              !.total = Total(o)]]
  /\ UNCHANGED <<catalogue, orders, points, award, changes, faults>>

PersistOrder(h) ==
  LET o == task[h].order IN
  /\ task[h].pc = "persist"
  /\ Seller(o) \in connected
  /\ status' = [status EXCEPT ![o] = "PENDING_PAYMENT"]
  /\ total' = [total EXCEPT ![o] = task[h].total]
  /\ Tell(o, "STARTED")
  /\ Leave(h)
  /\ UNCHANGED <<catalogue, fee, stage, delivered, withdrawn, points, award,
                 requests, changes, faults>>

(* The seller cannot be paid (TRX-4). *)
RefuseOrder(h) ==
  /\ task[h].pc = "persist"
  /\ Seller(task[h].order) \notin connected
  /\ Leave(h)
  /\ UNCHANGED <<catalogue, orders, points, award, requests, changes, faults>>

-----------------------------------------------------------------------------
(* Payments and refunds. *)

(* createPayment keeps the commission of the day. *)
CreatePayment(o) ==
  /\ status[o] = "PENDING_PAYMENT" /\ fee[o] = None
  /\ Seller(o) \in connected
  /\ fee' = [fee EXCEPT ![o] = Fee(total[o], rate)]
  /\ UNCHANGED <<catalogue, status, total, stage, told, delivered, withdrawn, points,
                 task, award, requests, changes, faults>>

MarkPaid(o) ==
  /\ fee[o] # None
  /\ status[o] = "PENDING_PAYMENT"
  /\ status' = [status EXCEPT ![o] = "PAID"]
  /\ Tell(o, "ORDER_CONFIRMED")
  /\ UNCHANGED <<catalogue, total, fee, stage, delivered, withdrawn, points, task,
                 award, requests, changes, faults>>

(* A refund of one of the order's payments went through, all of it or a part.
   The parties are told whatever became of the order. *)
MarkRefunded(o, full) ==
  /\ fee[o] # None
  /\ status' = [status EXCEPT ![o] = IF full /\ @ = "PAID" THEN "REFUNDED" ELSE @]
  /\ Tell(o, "PAYMENT_REFUNDED")
  /\ UNCHANGED <<catalogue, total, fee, stage, delivered, withdrawn, points, task,
                 award, requests, changes, faults>>

(* Mutant: the parties are told whether or not the order was closed. *)
MarkCanceled_Tells(o) ==
  /\ status[o] # "NONE"
  /\ status' = IF status[o] = "PENDING_PAYMENT"
               THEN [status EXCEPT ![o] = "CANCELED"] ELSE status
  /\ Tell(o, "ORDER_CANCELLED")
  /\ UNCHANGED <<catalogue, total, fee, stage, delivered, withdrawn, points, task,
                 award, requests, changes, faults>>

(* Mutant: the payment's spelling of the status. *)
MarkCanceled_Spelling(o) ==
  /\ status[o] = "PENDING_PAYMENT"
  /\ status' = [status EXCEPT ![o] = "CANCELLED"]
  /\ Tell(o, "ORDER_CANCELLED")
  /\ UNCHANGED <<catalogue, total, fee, stage, delivered, withdrawn, points, task,
                 award, requests, changes, faults>>

MarkCanceled(o) ==
  /\ status[o] = "PENDING_PAYMENT"
  /\ status' = [status EXCEPT ![o] = "CANCELED"]
  /\ Tell(o, "ORDER_CANCELLED")
  /\ UNCHANGED <<catalogue, total, fee, stage, delivered, withdrawn, points, task,
                 award, requests, changes, faults>>

-----------------------------------------------------------------------------
(* updateShipping. *)

NextStage ==
  [PREPARING |-> {"SHIPPED", "DELIVERED", "CANCELED"},
   SHIPPED   |-> {"DELIVERED", "RETURNED"},
   DELIVERED |-> {"RETURNED"},
   RETURNED  |-> {},
   CANCELED  |-> {}]

(* Mutant: the order need not be paid. *)
ShippingMove_Unpaid(o, to) == status[o] # "NONE" /\ to \in NextStage[stage[o]]

(* assertShippingMove. *)
ShippingMove(o, to) == status[o] = "PAID" /\ to \in NextStage[stage[o]]

(* The seller, the store's panel team or an operator. *)
MayShip(u, o) ==
  u = Seller(o) \/ StaffOf[u] = Seller(o) \/ u \in Operators

LoadShipping(h, u, o, to) ==
  /\ Request(h)
  /\ status[o] # "NONE"
  /\ MayShip(u, o)
  /\ ShippingMove(o, to)
  /\ task' = [task EXCEPT ![h] = [Idle EXCEPT !.pc = "ship", !.order = o, !.to = to]]
  /\ UNCHANGED <<catalogue, orders, points, award, changes, faults>>

(* SHIPPING_STAGE_TO_TYPE: a return is told as a refund, though the money has
   not moved, and a shipping called off as the order's cancellation, though the
   order stays PAID. *)
NoticeOf ==
  [PREPARING |-> "ORDER_CONFIRMED",
   SHIPPED   |-> "ORDER_SHIPPED",
   DELIVERED |-> "ORDER_DELIVERED",
   RETURNED  |-> "PAYMENT_REFUNDED",
   CANCELED  |-> "ORDER_CANCELLED"]

(* The stage is written whatever became of the order; a delivery starts the
   points of both parties in the background (of one delivery at a time for
   each handler). *)
UpdateShipping(h) ==
  LET o == task[h].order
      to == task[h].to
  IN
  /\ task[h].pc = "ship"
  /\ award[h].pc = "idle"
  /\ stage' = [stage EXCEPT ![o] = to]
  /\ Tell(o, NoticeOf[to])
  /\ withdrawn' = IF to = "CANCELED" THEN withdrawn \cup {o} ELSE withdrawn
  /\ IF to = "DELIVERED"
     THEN /\ delivered' = delivered \cup {o}
          /\ award' = [award EXCEPT ![h] = [NoAward EXCEPT !.pc = "read", !.order = o]]
     ELSE UNCHANGED <<delivered, award>>
  /\ Leave(h)
  /\ UNCHANGED <<catalogue, status, total, fee, points, requests, changes, faults>>

-----------------------------------------------------------------------------
(* _awardOrderPoints. *)

ReadOrder(h) ==
  /\ award[h].pc = "read"
  /\ award' = [award EXCEPT ![h] =
       IF status[@.order] = "PAID" THEN [@ EXCEPT !.pc = "credit", !.todo = Role]
       ELSE NoAward]
  /\ UNCHANGED <<catalogue, orders, points, task, requests, changes, faults>>

(* Mutant: the local ledger does not look at what users credited. *)
Fresh_All(o, role) == {role}

(* users pays each party once for an order, and answers 0 from then on. *)
Fresh(o, role) == IF <<o, role>> \in credited THEN {} ELSE {role}

Credit(h, role) ==
  LET o == award[h].order IN
  /\ award[h].pc = "credit" /\ role \in award[h].todo
  /\ credited' = credited \cup {<<o, role>>}
  /\ award' = [award EXCEPT ![h].todo = @ \ {role}, ![h].fresh = @ \cup Fresh(o, role)]
  /\ UNCHANGED <<catalogue, orders, ledger, task, requests, changes, faults>>

(* A call throws, after users credited it or not: no row is written. *)
CreditThrows(h, role) ==
  /\ award[h].pc = "credit" /\ role \in award[h].todo
  /\ Fault
  /\ credited' = credited \/ credited' = credited \cup {<<award[h].order, role>>}
  /\ award' = [award EXCEPT ![h] = NoAward]
  /\ UNCHANGED <<catalogue, orders, ledger, task, requests, changes>>

WriteLedger(h) ==
  /\ award[h].pc = "credit" /\ award[h].todo = {}
  /\ ledger' = [e \in Order \X Role |->
       IF e[1] = award[h].order /\ e[2] \in award[h].fresh THEN ledger[e] + 1
       ELSE ledger[e]]
  /\ award' = [award EXCEPT ![h] = NoAward]
  /\ UNCHANGED <<catalogue, orders, credited, task, requests, changes, faults>>

-----------------------------------------------------------------------------
(* Catalogues, connections and the commission change at any time. *)
Change ==
  /\ changes < MaxChanges
  /\ changes' = changes + 1
  /\ \/ /\ \E i \in listed : listed' = listed \ {i}
        /\ UNCHANGED <<offered, empty, connected, rate>>
     \/ /\ \E i \in StoreGoods : \/ offered' = offered \cup {i} /\ UNCHANGED empty
                                 \/ empty' = empty \cup {i} /\ UNCHANGED offered
        /\ UNCHANGED <<listed, connected, rate>>
     \/ /\ \E s \in connected : connected' = connected \ {s}
        /\ UNCHANGED <<listed, offered, empty, rate>>
     \/ /\ rate' \in Rates
        /\ UNCHANGED <<listed, offered, empty, connected>>
  /\ UNCHANGED <<orders, points, task, award, requests, faults>>

(* The process dies with every request and award in it. *)
Crash ==
  /\ \E h \in Handler : task[h] # Idle \/ award[h] # NoAward
  /\ Fault
  /\ task' = [h \in Handler |-> Idle]
  /\ award' = [h \in Handler |-> NoAward]
  /\ UNCHANGED <<catalogue, orders, points, requests, changes>>

Init ==
  /\ listed = Product
  /\ offered = {}
  /\ empty = {}
  /\ connected = Person
  /\ rate \in Rates
  /\ status = [o \in Order |-> "NONE"]
  /\ total = [o \in Order |-> 0]
  /\ fee = [o \in Order |-> None]
  /\ stage = [o \in Order |-> "PREPARING"]
  /\ told = {}
  /\ delivered = {}
  /\ withdrawn = {}
  /\ credited = {}
  /\ ledger = [e \in Order \X Role |-> 0]
  /\ task = [h \in Handler |-> Idle]
  /\ award = [h \in Handler |-> NoAward]
  /\ requests = 0
  /\ changes = 0
  /\ faults = 0

Next ==
  \/ \E h \in Handler :
       \/ PersistOrder(h) \/ RefuseOrder(h) \/ UpdateShipping(h)
       \/ ReadOrder(h) \/ WriteLedger(h)
       \/ \E role \in Role : Credit(h, role) \/ CreditThrows(h, role)
       \/ \E o \in Order : LoadPrices(h, o)
       \/ \E u \in Person, o \in Order, to \in Stage : LoadShipping(h, u, o, to)
  \/ \E o \in Order :
       \/ CreatePayment(o) \/ MarkPaid(o) \/ MarkCanceled(o)
       \/ \E full \in BOOLEAN : MarkRefunded(o, full)
  \/ Change \/ Crash

Spec == Init /\ [][Next]_vars
-----------------------------------------------------------------------------
Sold(o) == status[o] \in {"PAID", "REFUNDED"}

(* Nothing ships, and nobody earns points or is told of a delivery, unless
   the buyer paid: whichever updates of the shipping run at once, and whatever
   the status became between their check and their write. *)
ShippedIsPaid ==
  \A o \in Order : (stage[o] # "PREPARING" \/ o \in delivered) => Sold(o)

(* Points come from a delivery, and each party has at most one row for them. *)
PointsAreEarned ==
  \A o \in Order, role \in Role :
    /\ <<o, role>> \in credited => o \in delivered
    /\ ledger[<<o, role>>] <= 1
    /\ ledger[<<o, role>>] = 1 => <<o, role>> \in credited

(* What the parties are told has happened: a confirmation is of a sale, a
   delivery of a delivery, a cancellation of an order that closed unpaid or of
   a shipping called off after the sale, and a refund of an order with a
   payment.  (It does not say that the money of a RETURNED order moved, or that
   an order told as cancelled is not PAID: see NoticeOf.) *)
ToldWhatHappened ==
  \A o \in Order :
    /\ <<o, "ORDER_CONFIRMED">> \in told => Sold(o)
    /\ <<o, "ORDER_CANCELLED">> \in told =>
         status[o] = "CANCELED" \/ (o \in withdrawn /\ Sold(o))
    /\ <<o, "ORDER_DELIVERED">> \in told => o \in delivered
    /\ <<o, "PAYMENT_REFUNDED">> \in told => fee[o] # None

(* The commission is part of the sale, also when the rate is a typo.  The
   comment of splitCommission has it that it "never reaches the whole amount":
   rounded to whole pesos it can be all of a sale of fifty pesos or less, and
   is less than any other. *)
FeeIsPart ==
  \A o \in Order : fee[o] # None =>
    /\ fee[o] \in 0..total[o]
    /\ total[o] > 50 => fee[o] < total[o]

(* What an order does after its checkout rests on what came before it. *)
OrdersAreEarned == ShippedIsPaid /\ PointsAreEarned /\ ToldWhatHappened /\ FeeIsPart
=============================================================================
