---------------------------- MODULE OrdersProofs ----------------------------
(***************************************************************************)
(* Proofs about Orders, for any orders, people and catalogues, any number  *)
(* of requests at the same time and any number of faults.                  *)
(***************************************************************************)
EXTENDS Orders, FiniteSetTheorems, WellFoundedInduction, TLAPS

-----------------------------------------------------------------------------
(* The sum of an order's lines is a natural.  SumFunction is defined by a
   recursion on the subsets of its domain; an induction over them is taken as a
   minimal counterexample, so that no induction theorem with an operator
   parameter is needed. *)

(***************************************************************************)
(* A nonempty set of subsets of a finite set has an inclusion-minimal one. *)
(***************************************************************************)
LEMMA SubsetMinimum ==
  ASSUME NEW S, IsFiniteSet(S), NEW B, B \subseteq SUBSET S, B # {}
  PROVE  \E T \in B : \A U \in SUBSET T : U # T => U \notin B
<1>1. PICK T \in B : \A U \in B : ~ (<<U, T>> \in StrictSubsetOrdering(S))
  BY FS_StrictSubsetOrderingWellFounded, FS_FiniteSubsetsOfFinite, WFMin
<1> QED BY <1>1 DEF StrictSubsetOrdering

(* One element of a set; the total of f over T, from that over smaller sets. *)
Some(T) == CHOOSE x \in T : TRUE

Adds(s, f, T) == IF T = {} THEN 0 ELSE f[Some(T)] + s[T \ {Some(T)}]

IsSumTable(s, f, S) ==
  s = [T \in SUBSET S |-> s[T]] /\ \A T \in SUBSET S : s[T] = Adds(s, f, T)

(***************************************************************************)
(* Every function has such a table.  One is filled in as far as it can be: *)
(* the smallest subset left out could be added.                            *)
(***************************************************************************)
LEMMA SumTableExists ==
  ASSUME NEW S, IsFiniteSet(S), NEW f
  PROVE  \E s : IsSumTable(s, f, S)
<1> DEFINE Filled(s, D) == \A T \in D : /\ s[T] = Adds(s, f, T)
                                        /\ T # {} => T \ {Some(T)} \in D
           Left == {E \in SUBSET SUBSET S : \E s : Filled(s, (SUBSET S) \ E)}
<1>1. IsFiniteSet(SUBSET S) /\ SUBSET S \in Left
  BY FS_SUBSET
<1>2. PICK E \in Left : \A F \in SUBSET E : F # E => F \notin Left
  <2>1. Left \subseteq SUBSET SUBSET S /\ Left # {}
    BY <1>1
  <2> HIDE DEF Left
  <2> QED BY <1>1, <2>1, SubsetMinimum
<1> DEFINE D == (SUBSET S) \ E
<1>3. PICK s : Filled(s, D)
  BY <1>2
<1>4. ASSUME E # {} PROVE FALSE
  <2>1. PICK T \in E : \A U \in SUBSET T : U # T => U \notin E
    <3>1. E \subseteq SUBSET S
      BY <1>2
    <3> QED BY <1>4, <3>1, SubsetMinimum
  <2> DEFINE t == [U \in SUBSET S |-> IF U = T THEN Adds(s, f, T) ELSE s[U]]
  <2>2. T \in SUBSET S /\ (T # {} => Some(T) \in T /\ T \ {Some(T)} \in D)
    BY <1>2, <2>1 DEF Some
  <2>3. t[T] = Adds(t, f, T)
    BY <2>2 DEF Adds
  <2>4. ASSUME NEW U \in D PROVE t[U] = Adds(t, f, U) /\ (U # {} => U \ {Some(U)} \in D)
    BY <1>3, <2>1 DEF Adds
  <2>5. Filled(t, (SUBSET S) \ (E \ {T}))
    <3> HIDE DEF t
    <3> QED BY <2>2, <2>3, <2>4
  <2> HIDE DEF t, Filled
  <2>6. E \ {T} \in SUBSET E /\ E \ {T} # E /\ E \ {T} \in Left
    BY <1>2, <2>5
  <2> QED BY <1>2, <2>6
<1> DEFINE t == [T \in SUBSET S |-> s[T]]
<1>5. ASSUME NEW T \in SUBSET S PROVE t[T] = Adds(t, f, T)
  <2>1. t[T] = Adds(s, f, T) /\ T \ {Some(T)} \in SUBSET S
    BY <1>3, <1>4
  <2> QED BY <2>1 DEF Adds
<1>6. t = [T \in SUBSET S |-> t[T]]
  OBVIOUS
<1> HIDE DEF t
<1> QED BY <1>5, <1>6 DEF IsSumTable

(***************************************************************************)
(* SumFunction reads such a table at the whole domain.                     *)
(***************************************************************************)
LEMMA SumFunctionTable ==
  ASSUME NEW f, IsFiniteSet(DOMAIN f)
  PROVE  \E s : IsSumTable(s, f, DOMAIN f) /\ SumFunction(f) = s[DOMAIN f]
<1> DEFINE S == DOMAIN f
           It(g) == [T \in SUBSET S |-> Adds(g, f, T)]
           it == CHOOSE g : g = It(g)
<1>1. it = It(it)
  BY SumTableExists DEF IsSumTable
<1>2. SumFunction(f) = it[S]
  BY DEF SumFunction, SumFunctionOnSet, FoldFunctionOnSet, MapThenFoldSet, Adds, Some
<1> HIDE DEF it
<1>3. IsSumTable(it, f, S)
  BY <1>1 DEF IsSumTable
<1> QED BY <1>2, <1>3

(***************************************************************************)
(* Sums of naturals.                                                       *)
(***************************************************************************)
LEMMA SumOfNaturals ==
  ASSUME NEW S, IsFiniteSet(S), NEW f \in [S -> Nat]
  PROVE  SumFunction(f) \in Nat
<1>1. PICK s : IsSumTable(s, f, S) /\ SumFunction(f) = s[S]
  BY SumFunctionTable
<1> DEFINE Bad == {T \in SUBSET S : s[T] \notin Nat}
<1>2. SUFFICES ASSUME Bad # {} PROVE FALSE
  BY <1>1
<1>3. PICK T \in Bad : \A U \in SUBSET T : U # T => U \notin Bad
  <2>1. Bad \subseteq SUBSET S
    OBVIOUS
  <2> HIDE DEF Bad
  <2> QED BY <1>2, <2>1, SubsetMinimum
<1>4. s[T] = Adds(s, f, T)
  BY <1>1 DEF IsSumTable
<1>5. T # {} => Some(T) \in T /\ s[T \ {Some(T)}] \in Nat
  BY <1>3 DEF Some
<1> QED BY <1>3, <1>4, <1>5 DEF Adds


USE DEF Task, Award

-----------------------------------------------------------------------------
(* The commission.  SafeRate is at most 99, so a hundredth of the product,
   rounded, stays within the amount, and below it from 51 pesos on. *)
LEMMA FeeBounds ==
  ASSUME NEW amount \in Nat, NEW r \in Nat
  PROVE  /\ Fee(amount, r) \in 0..amount
         /\ amount > 50 => Fee(amount, r) < amount
<1> DEFINE s == SafeRate(r)
           n == amount * s
<1>1. s \in Nat /\ s <= 99
  BY DEF SafeRate, MaxRate
<1> HIDE DEF s
<1>2. n \in Nat /\ n <= 99 * amount
  <2>1. amount * (99 - s) >= 0
    BY <1>1
  <2>2. amount * s \in Nat
    BY <1>1
  <2>3. amount * (99 - s) = 99 * amount - amount * s
    BY <1>1
  <2> QED BY <2>1, <2>2, <2>3
<1> HIDE DEF n
<1>3. /\ (n + 50) \div 100 \in 0..amount
      /\ amount > 50 => (n + 50) \div 100 < amount
  BY <1>2
<1> QED BY <1>3 DEF Fee, n, s

LEMMA TotalType == \A o \in Order : Total(o) \in Nat
<1> SUFFICES ASSUME NEW o \in Order PROVE Total(o) \in Nat
  OBVIOUS
<1> DEFINE f == [i \in Product |-> Cart[o][i] * PriceOf(i)]
<1>1. f \in [Product -> Nat]
  <2>1. ASSUME NEW i \in Product PROVE Cart[o][i] * PriceOf(i) \in Nat
    <3>1. Cart[o][i] \in Nat /\ PriceOf(i) \in Nat
      BY CartType, MoneyType DEF PriceOf
    <3> QED BY <3>1
  <2> QED BY <2>1
<1> HIDE DEF f
<1>2. SumFunction(f) \in Nat
  BY <1>1, GoodsType, SumOfNaturals
<1>3. Total(o) = ShippingCost[o] + SumFunction(f)
  BY DEF Total, f
<1> QED BY <1>2, <1>3, MoneyType

-----------------------------------------------------------------------------
(* Whoever is in the middle of something is so for an order. *)
TasksOK ==
  \A h \in Handler :
    /\ task[h].pc # "idle" => task[h].order \in Order
    /\ task[h].pc = "persist" => task[h].total \in Nat
    /\ task[h].pc = "ship" => task[h].to \in Stage
    /\ award[h].pc # "idle" => award[h].order \in Order

TypeInv == TypeOK /\ TasksOK

LEMMA IdleTypes == /\ Idle \in Task /\ Idle.pc = "idle" /\ Idle.order = None
                   /\ NoAward \in Award /\ NoAward.pc = "idle" /\ NoAward.fresh = {}
  BY DEF Idle, NoAward

(* What each stage is told as. *)
LEMMA NoticeTypes ==
  \A to \in Stage :
    /\ NoticeOf[to] \in Notice
    /\ NoticeOf[to] = "ORDER_CANCELLED" <=> to = "CANCELED"
    /\ NoticeOf[to] = "ORDER_DELIVERED" <=> to = "DELIVERED"
  BY DEF Stage, Notice, NoticeOf

LEMMA TypeInit == Init => TypeInv
  BY IdleTypes DEF Init, TypeInv, TypeOK, TasksOK, OrderStatus, Stage

(* What a request or an award becomes. *)
LEMMA LeaveTypes ==
  ASSUME TypeInv, NEW h \in Handler, Leave(h)
  PROVE  /\ task' \in [Handler -> Task]
         /\ task'[h] = Idle
         /\ \A g \in Handler \ {h} : task'[g] = task[g]
  BY IdleTypes DEF TypeInv, TypeOK, Leave

LEMMA TypeStep ==
  ASSUME TypeInv, [Next]_vars
  PROVE  TypeInv'
<1> USE IdleTypes DEF TypeInv, TypeOK, TasksOK, catalogue, orders, points
<1>1. ASSUME NEW h \in Handler, PersistOrder(h) PROVE TypeInv'
  <2>1. /\ task' \in [Handler -> Task] /\ task'[h] = Idle
        /\ \A g \in Handler \ {h} : task'[g] = task[g]
    BY <1>1, LeaveTypes DEF PersistOrder
  <2>2. /\ status' \in [Order -> OrderStatus] /\ total' \in [Order -> Nat]
        /\ told' \subseteq Order \X Notice
    BY <1>1 DEF PersistOrder, OrderStatus, Notice, Tell
  <2> QED BY <1>1, <2>1, <2>2 DEF PersistOrder
<1>2. ASSUME NEW h \in Handler, RefuseOrder(h) PROVE TypeInv'
  BY <1>2, LeaveTypes DEF RefuseOrder
<1>3. ASSUME NEW h \in Handler, UpdateShipping(h) PROVE TypeInv'
  <2> DEFINE x == [NoAward EXCEPT !.pc = "read", !.order = task[h].order]
  <2>1. x \in Award /\ x.order = task[h].order /\ task[h].order \in Order
    BY <1>3 DEF UpdateShipping, NoAward
  <2> HIDE DEF x
  <2>2. award' = award \/ award' = [award EXCEPT ![h] = x]
    BY <1>3 DEF UpdateShipping, x
  <2>3. award' \in [Handler -> Award]
    BY <2>1, <2>2
  <2>4. \A g \in Handler : award'[g].pc # "idle" => award'[g].order \in Order
    BY <2>1, <2>2
  <2>5. /\ stage' \in [Order -> Stage] /\ told' \subseteq Order \X Notice
        /\ delivered' \subseteq Order /\ withdrawn' \subseteq Order
    BY <1>3, <2>1, NoticeTypes DEF UpdateShipping, Tell
  <2>6. \A g \in Handler : task'[g] = Idle \/ task'[g] = task[g]
    BY <1>3, LeaveTypes DEF UpdateShipping
  <2>7. task' \in [Handler -> Task]
    BY <1>3, LeaveTypes DEF UpdateShipping
  <2> QED BY <1>3, <2>3, <2>4, <2>5, <2>6, <2>7 DEF UpdateShipping
<1>4. ASSUME NEW h \in Handler, ReadOrder(h) PROVE TypeInv'
  <2> DEFINE x == [award[h] EXCEPT !.pc = "credit", !.todo = Role]
  <2>1. x \in Award /\ x.order = award[h].order /\ award[h].order \in Order
    BY <1>4 DEF ReadOrder
  <2> HIDE DEF x
  <2>2. award' = [award EXCEPT ![h] = x] \/ award' = [award EXCEPT ![h] = NoAward]
    BY <1>4 DEF ReadOrder, x
  <2> QED BY <1>4, <2>1, <2>2 DEF ReadOrder
<1>5. ASSUME NEW h \in Handler, WriteLedger(h) PROVE TypeInv'
  BY <1>5 DEF WriteLedger
<1>6. ASSUME NEW h \in Handler, NEW role \in Role, Credit(h, role) PROVE TypeInv'
  <2> DEFINE o == award[h].order
             x == [award[h] EXCEPT !.todo = @ \ {role}, !.fresh = @ \cup Fresh(o, role)]
  <2>1. x \in Award /\ x.order = o /\ o \in Order
    BY <1>6 DEF Credit, Fresh
  <2>2. award' = [award EXCEPT ![h] = x]
    BY <1>6 DEF Credit
  <2>3. credited' \subseteq Order \X Role
    BY <1>6, <2>1 DEF Credit
  <2> HIDE DEF x, o
  <2>4. award' \in [Handler -> Award]
    BY <2>1, <2>2
  <2>5. \A g \in Handler : award'[g] = award[g] \/ award'[g] = x
    BY <2>2
  <2> QED BY <1>6, <2>1, <2>3, <2>4, <2>5 DEF Credit
<1>7. ASSUME NEW h \in Handler, NEW role \in Role, CreditThrows(h, role) PROVE TypeInv'
  BY <1>7 DEF CreditThrows, Fault
<1>8. ASSUME NEW h \in Handler, NEW o \in Order, LoadPrices(h, o) PROVE TypeInv'
  <2> DEFINE x == [Idle EXCEPT !.pc = "persist", !.order = o, !.total = Total(o)]
  <2>1. x \in Task /\ x.order = o /\ x.total \in Nat /\ x.pc = "persist"
    BY TotalType DEF Idle
  <2>2. task' = [task EXCEPT ![h] = x]
    BY <1>8 DEF LoadPrices
  <2> HIDE DEF x
  <2>3. task' \in [Handler -> Task]
    BY <2>1, <2>2
  <2>4. \A g \in Handler : task'[g] = task[g] \/ task'[g] = x
    BY <2>2
  <2>5. requests' \in Nat /\ UNCHANGED <<catalogue, orders, points, award, changes, faults>>
    BY <1>8 DEF LoadPrices, Request
  <2> QED BY <2>1, <2>3, <2>4, <2>5
<1>9. ASSUME NEW h \in Handler, NEW u \in Person, NEW o \in Order, NEW to \in Stage,
             LoadShipping(h, u, o, to)
      PROVE  TypeInv'
  <2> DEFINE x == [Idle EXCEPT !.pc = "ship", !.order = o, !.to = to]
  <2>1. x \in Task /\ x.order = o /\ x.to = to /\ x.pc = "ship"
    BY DEF Idle
  <2>2. task' = [task EXCEPT ![h] = x]
    BY <1>9 DEF LoadShipping
  <2> HIDE DEF x
  <2> QED BY <1>9, <2>1, <2>2 DEF LoadShipping, Request
<1>10. ASSUME NEW o \in Order, CreatePayment(o) PROVE TypeInv'
  <2>1. Fee(total[o], rate) \in Nat
    BY FeeBounds, MoneyType
  <2> QED BY <1>10, <2>1 DEF CreatePayment
<1>11. ASSUME NEW o \in Order, MarkPaid(o) PROVE TypeInv'
  BY <1>11 DEF MarkPaid, OrderStatus, Tell, Notice
<1>12. ASSUME NEW o \in Order, NEW full \in BOOLEAN, MarkRefunded(o, full) PROVE TypeInv'
  BY <1>12 DEF MarkRefunded, OrderStatus, Tell, Notice
<1>13. ASSUME NEW o \in Order, MarkCanceled(o) PROVE TypeInv'
  BY <1>13 DEF MarkCanceled, OrderStatus, Tell, Notice
<1>14. CASE Change
  BY <1>14, GoodsType DEF Change
<1>15. CASE Crash
  BY <1>15 DEF Crash, Fault
<1>16. CASE UNCHANGED vars
  BY <1>16 DEF vars
<1> HIDE DEF TypeInv, TypeOK, TasksOK
<1> QED BY <1>1, <1>2, <1>3, <1>4, <1>5, <1>6, <1>7, <1>8, <1>9, <1>10, <1>11, <1>12,
           <1>13, <1>14, <1>15, <1>16 DEF Next

(* The rows of orders are well typed, and so is whatever is under way. *)
THEOREM TypeCorrect == Spec => []TypeOK
<1>1. TypeInv => TypeOK
  BY DEF TypeInv
<1> QED BY TypeInit, TypeStep, <1>1, PTL DEF Spec

-----------------------------------------------------------------------------
(* The life of an order.  A checkout that is about to write its order is the *)
(* only one and finds none; a request past the shipping check is of a paid   *)
(* order, as PAID is only ever left for REFUNDED; a payment has an order, and *)
(* a sale or a refund a payment.                                             *)
LifeInv ==
  /\ \A h \in Handler : task[h].pc = "persist" =>
       /\ status[task[h].order] = "NONE"
       /\ \A g \in Handler : task[g].order = task[h].order => g = h
  /\ \A h \in Handler : task[h].pc = "ship" => Sold(task[h].order)
  /\ \A h \in Handler : award[h].pc # "idle" => award[h].order \in delivered
  /\ \A o \in Order : fee[o] # None =>
       /\ status[o] # "NONE" /\ fee[o] \in 0..total[o]
       /\ total[o] > 50 => fee[o] < total[o]
  /\ \A o \in Order : Sold(o) \/ <<o, "PAYMENT_REFUNDED">> \in told => fee[o] # None
  /\ \A o \in Order : \/ stage[o] # "PREPARING" \/ o \in delivered
                         \/ o \in withdrawn
                         \/ <<o, "ORDER_CONFIRMED">> \in told => Sold(o)
  /\ \A o \in Order : <<o, "ORDER_CANCELLED">> \in told =>
       status[o] = "CANCELED" \/ o \in withdrawn
  /\ \A o \in Order : <<o, "ORDER_DELIVERED">> \in told => o \in delivered

LEMMA LifeInit == Init => LifeInv
  BY IdleTypes DEF Init, LifeInv, Sold

LEMMA LifeStep ==
  ASSUME TypeInv, LifeInv, [Next]_vars
  PROVE  LifeInv'
<1>t. /\ status \in [Order -> OrderStatus] /\ total \in [Order -> Nat]
      /\ fee \in [Order -> Nat \cup {None}] /\ stage \in [Order -> Stage]
      /\ rate \in Rates /\ told \subseteq Order \X Notice /\ delivered \subseteq Order
      /\ withdrawn \subseteq Order
      /\ task \in [Handler -> Task] /\ award \in [Handler -> Award]
  BY DEF TypeInv, TypeOK
<1>o. \A h \in Handler : /\ task[h].pc # "idle" => task[h].order \in Order
                         /\ task[h].pc = "persist" => task[h].total \in Nat
                         /\ task[h].pc = "ship" => task[h].to \in Stage
                         /\ award[h].pc # "idle" => award[h].order \in Order
  BY DEF TypeInv, TasksOK
<1>l. ASSUME NEW h \in Handler, Leave(h)
      PROVE  \A g \in Handler : task'[g] = Idle \/ (g # h /\ task'[g] = task[g])
  BY <1>l, LeaveTypes
<1> USE <1>t, <1>o, IdleTypes DEF LifeInv, Sold, catalogue, orders, points
<1>1. ASSUME NEW h \in Handler, PersistOrder(h) PROVE LifeInv'
  <2> DEFINE o == task[h].order
  <2>1. \A g \in Handler : task'[g] = Idle \/ (g # h /\ task'[g] = task[g])
    BY <1>1, <1>l DEF PersistOrder
  <2>2. /\ o \in Order /\ status[o] = "NONE"
        /\ \A g \in Handler : g # h => task[g].order # o
    BY <1>1 DEF PersistOrder
  <2>3. /\ status' = [status EXCEPT ![o] = "PENDING_PAYMENT"]
        /\ total' = [total EXCEPT ![o] = task[h].total]
        /\ told' = told \cup {<<o, "STARTED">>}
        /\ UNCHANGED <<fee, stage, delivered, withdrawn, award>>
    BY <1>1 DEF PersistOrder, Tell
  <2> HIDE DEF o
  <2>4. \A g \in Handler : task'[g].pc = "persist" =>
          /\ status'[task'[g].order] = "NONE"
          /\ \A k \in Handler : task'[k].order = task'[g].order => k = g
    BY <2>1, <2>2, <2>3, NoneIsNothing
  <2>5. \A g \in Handler : task'[g].pc = "ship" => status'[task'[g].order] \in {"PAID", "REFUNDED"}
    BY <2>1, <2>2, <2>3
  <2>5a. /\ status'[o] = "PENDING_PAYMENT"
         /\ \A e \in Order \ {o} : status'[e] = status[e]
    BY <2>2, <2>3
  <2>5b. \A e \in Order \ {o} : total'[e] = total[e]
    BY <2>2, <2>3
  <2>6. ASSUME NEW e \in Order
        PROVE  /\ fee'[e] # None =>
                    /\ status'[e] # "NONE" /\ fee'[e] \in 0..total'[e]
                    /\ total'[e] > 50 => fee'[e] < total'[e]
               /\ (status'[e] \in {"PAID", "REFUNDED"} \/ <<e, "PAYMENT_REFUNDED">> \in told')
                    => fee'[e] # None
               /\ (\/ stage'[e] # "PREPARING" \/ e \in delivered' \/ e \in withdrawn'
                   \/ <<e, "ORDER_CONFIRMED">> \in told') => status'[e] \in {"PAID", "REFUNDED"}
               /\ <<e, "ORDER_CANCELLED">> \in told' =>
                    status'[e] = "CANCELED" \/ e \in withdrawn'
               /\ <<e, "ORDER_DELIVERED">> \in told' => e \in delivered'
    <3>1. \A n \in {"ORDER_CONFIRMED", "ORDER_CANCELLED", "ORDER_DELIVERED",
                    "PAYMENT_REFUNDED"} :
             <<e, n>> \in told' => <<e, n>> \in told
      BY <2>3
    <3>2. CASE e = o
      <4>1. /\ fee[o] = None /\ stage[o] = "PREPARING"
            /\ o \notin delivered /\ o \notin withdrawn
            /\ \A n \in {"ORDER_CONFIRMED", "ORDER_CANCELLED", "ORDER_DELIVERED",
                         "PAYMENT_REFUNDED"} : <<o, n>> \notin told
        BY <2>2
      <4> QED BY <2>3, <3>1, <3>2, <4>1
    <3>3. CASE e # o
      BY <2>3, <2>5a, <2>5b, <3>1, <3>3
    <3> QED BY <3>2, <3>3
  <2> QED BY <2>3, <2>4, <2>5, <2>6
<1>2. ASSUME NEW h \in Handler, RefuseOrder(h) PROVE LifeInv'
  <2>1. \A g \in Handler : task'[g] = Idle \/ (g # h /\ task'[g] = task[g])
    BY <1>2, <1>l DEF RefuseOrder
  <2>2. UNCHANGED <<orders, award>>
    BY <1>2 DEF RefuseOrder
  <2>3. ASSUME NEW g \in Handler, task'[g].pc = "persist"
        PROVE  /\ status'[task'[g].order] = "NONE"
               /\ \A k \in Handler : task'[k].order = task'[g].order => k = g
    <3>1. task'[g] = task[g] /\ task[g].order \in Order /\ status' = status
      BY <2>1, <2>2, <2>3
    <3>2. \A k \in Handler : task'[k].order = task[g].order => task'[k] = task[k]
      BY <2>1, <3>1, NoneIsNothing
    <3> QED BY <2>3, <3>1, <3>2
  <2> QED BY <2>1, <2>2, <2>3
<1>3. ASSUME NEW h \in Handler, UpdateShipping(h) PROVE LifeInv'
  <2> DEFINE x == [NoAward EXCEPT !.pc = "read", !.order = task[h].order]
  <2>1. x.order = task[h].order
    BY DEF NoAward
  <2>2. IF task[h].to = "DELIVERED"
        THEN delivered' = delivered \cup {task[h].order} /\ award' = [award EXCEPT ![h] = x]
        ELSE UNCHANGED <<delivered, award>>
    BY <1>3 DEF UpdateShipping
  <2> HIDE DEF x
  <2>3. \A g \in Handler : task'[g] = Idle \/ (g # h /\ task'[g] = task[g])
    BY <1>3, <1>l DEF UpdateShipping
  <2>4. Sold(task[h].order) /\ task[h].order \in Order /\ task[h].to \in Stage
    BY <1>3 DEF UpdateShipping
  <2>5. \A g \in Handler : award'[g].pc # "idle" => award'[g].order \in delivered'
    <3>1. CASE task[h].to = "DELIVERED"
      BY <2>1, <2>2, <3>1
    <3>2. CASE task[h].to # "DELIVERED"
      BY <2>2, <3>2
    <3> QED BY <3>1, <3>2
  <2>6. /\ stage' = [stage EXCEPT ![task[h].order] = task[h].to]
        /\ told' = told \cup {<<task[h].order, NoticeOf[task[h].to]>>}
        /\ withdrawn' = IF task[h].to = "CANCELED" THEN withdrawn \cup {task[h].order}
                        ELSE withdrawn
        /\ UNCHANGED <<status, total, fee>>
    BY <1>3 DEF UpdateShipping, Tell
  <2>6a. /\ NoticeOf[task[h].to] = "ORDER_CANCELLED" => task[h].to = "CANCELED"
         /\ NoticeOf[task[h].to] = "ORDER_DELIVERED" => task[h].to = "DELIVERED"
    BY <2>4, NoticeTypes
  <2>7. \A o \in Order : (\/ stage'[o] # "PREPARING" \/ o \in delivered'
                         \/ o \in withdrawn'
                         \/ <<o, "ORDER_CONFIRMED">> \in told') => Sold(o)'
    BY <2>2, <2>4, <2>6
  <2>7a. \A o \in Order : Sold(o)' \/ <<o, "PAYMENT_REFUNDED">> \in told' => fee'[o] # None
    BY <2>4, <2>6
  <2>8. \A o \in Order : <<o, "ORDER_CANCELLED">> \in told' =>
          status'[o] = "CANCELED" \/ o \in withdrawn'
    BY <2>4, <2>6, <2>6a
  <2>9. \A o \in Order : <<o, "ORDER_DELIVERED">> \in told' => o \in delivered'
    BY <2>2, <2>6, <2>6a
  <2>10. \A g \in Handler : task'[g].pc = "persist" =>
          /\ status'[task'[g].order] = "NONE"
          /\ \A k \in Handler : task'[k].order = task'[g].order => k = g
    <3>1. SUFFICES ASSUME NEW g \in Handler, task'[g].pc = "persist"
                   PROVE  /\ status[task'[g].order] = "NONE"
                          /\ \A k \in Handler : task'[k].order = task'[g].order => k = g
      BY <2>6
    <3>2. task'[g] = task[g] /\ task[g].order \in Order /\ task[g].order # None
      BY <2>3, <3>1, NoneIsNothing
    <3>3. \A k \in Handler : task'[k].order = task[g].order => task'[k] = task[k]
      BY <2>3, <3>2
    <3> QED BY <3>1, <3>2, <3>3
  <2>11. \A g \in Handler : task'[g].pc = "ship" => status'[task'[g].order] \in {"PAID", "REFUNDED"}
    BY <2>3, <2>6
  <2> QED BY <2>5, <2>6, <2>7, <2>7a, <2>8, <2>9, <2>10, <2>11
<1>4. ASSUME NEW h \in Handler, ReadOrder(h) PROVE LifeInv'
  BY <1>4 DEF ReadOrder
<1>5. ASSUME NEW h \in Handler, WriteLedger(h) PROVE LifeInv'
  BY <1>5 DEF WriteLedger
<1>6. ASSUME NEW h \in Handler, NEW role \in Role, Credit(h, role) PROVE LifeInv'
  BY <1>6 DEF Credit
<1>7. ASSUME NEW h \in Handler, NEW role \in Role, CreditThrows(h, role) PROVE LifeInv'
  BY <1>7 DEF CreditThrows
<1>8. ASSUME NEW h \in Handler, NEW o \in Order, LoadPrices(h, o) PROVE LifeInv'
  <2> DEFINE x == [Idle EXCEPT !.pc = "persist", !.order = o, !.total = Total(o)]
  <2>1. x.order = o /\ x.pc = "persist"
    BY DEF Idle
  <2>2. task' = [task EXCEPT ![h] = x]
    BY <1>8 DEF LoadPrices
  <2> HIDE DEF x
  <2> QED BY <1>8, <2>1, <2>2 DEF LoadPrices
<1>9. ASSUME NEW h \in Handler, NEW u \in Person, NEW o \in Order, NEW to \in Stage,
             LoadShipping(h, u, o, to)
      PROVE  LifeInv'
  <2> DEFINE x == [Idle EXCEPT !.pc = "ship", !.order = o, !.to = to]
  <2>1. x.order = o /\ x.pc = "ship"
    BY DEF Idle
  <2>2. task' = [task EXCEPT ![h] = x]
    BY <1>9 DEF LoadShipping
  <2> HIDE DEF x
  <2> QED BY <1>9, <2>1, <2>2 DEF LoadShipping, ShippingMove
<1>10. ASSUME NEW o \in Order, CreatePayment(o) PROVE LifeInv'
  <2>1. /\ Fee(total[o], rate) \in 0..total[o]
        /\ total[o] > 50 => Fee(total[o], rate) < total[o]
    BY FeeBounds, MoneyType
  <2> QED BY <1>10, <2>1, NoneIsNothing DEF CreatePayment
<1>11. ASSUME NEW o \in Order, MarkPaid(o) PROVE LifeInv'
  BY <1>11 DEF MarkPaid, Tell
<1>12. ASSUME NEW o \in Order, NEW full \in BOOLEAN, MarkRefunded(o, full) PROVE LifeInv'
  BY <1>12 DEF MarkRefunded, Tell
<1>13. ASSUME NEW o \in Order, MarkCanceled(o) PROVE LifeInv'
  BY <1>13 DEF MarkCanceled, Tell
<1>14. CASE Change
  BY <1>14 DEF Change
<1>15. CASE Crash
  BY <1>15 DEF Crash
<1>16. CASE UNCHANGED vars
  BY <1>16 DEF vars
<1> HIDE DEF LifeInv, Sold
<1> QED BY <1>1, <1>2, <1>3, <1>4, <1>5, <1>6, <1>7, <1>8, <1>9, <1>10, <1>11, <1>12,
           <1>13, <1>14, <1>15, <1>16 DEF Next

-----------------------------------------------------------------------------
(* The points.  A role an award found fresh is credited and has no row yet,
   and no other award holds it. *)
PointsInv ==
  /\ \A o \in Order, role \in Role :
       /\ <<o, role>> \in credited => o \in delivered
       /\ ledger[<<o, role>>] <= 1
       /\ ledger[<<o, role>>] = 1 => <<o, role>> \in credited
  /\ \A h \in Handler, role \in Role :
       award[h].pc # "idle" /\ role \in award[h].fresh =>
         /\ <<award[h].order, role>> \in credited
         /\ ledger[<<award[h].order, role>>] = 0
         /\ \A g \in Handler :
              /\ award[g].pc # "idle" /\ award[g].order = award[h].order
              /\ role \in award[g].fresh
              => g = h

LEMMA PointsInit == Init => PointsInv
  BY IdleTypes DEF Init, PointsInv

LEMMA PointsStep ==
  ASSUME TypeInv, LifeInv, PointsInv, [Next]_vars
  PROVE  PointsInv'
<1>t. /\ ledger \in [Order \X Role -> Nat] /\ award \in [Handler -> Award]
      /\ \A h \in Handler : award[h].pc # "idle" => award[h].order \in Order
  BY DEF TypeInv, TypeOK, TasksOK
<1> USE <1>t, IdleTypes DEF PointsInv
<1>1. CASE UNCHANGED <<award, credited, ledger, delivered>>
  BY <1>1
<1>3. ASSUME NEW h \in Handler, UpdateShipping(h) PROVE PointsInv'
  <2> DEFINE x == [NoAward EXCEPT !.pc = "read", !.order = task[h].order]
  <2>1. x.fresh = {}
    BY DEF NoAward
  <2>2. award' = award \/ award' = [award EXCEPT ![h] = x]
    BY <1>3 DEF UpdateShipping
  <2> HIDE DEF x
  <2>3. UNCHANGED <<credited, ledger>> /\ delivered \subseteq delivered'
    BY <1>3 DEF UpdateShipping, points
  <2>4. \A g \in Handler : award'[g] = award[g] \/ award'[g].fresh = {}
    BY <2>1, <2>2
  <2>5. ASSUME NEW g \in Handler, NEW role, role \in award'[g].fresh
        PROVE  award'[g] = award[g]
    BY <2>4, <2>5
  <2> QED BY <2>3, <2>5
<1>4. ASSUME NEW h \in Handler, ReadOrder(h) PROVE PointsInv'
  BY <1>4 DEF ReadOrder, orders, points
<1>5. ASSUME NEW h \in Handler, WriteLedger(h) PROVE PointsInv'
  BY <1>5 DEF WriteLedger, orders
<1>6. ASSUME NEW h \in Handler, NEW role \in Role, Credit(h, role) PROVE PointsInv'
  <2> DEFINE o == award[h].order
             x == [award[h] EXCEPT !.todo = @ \ {role}, !.fresh = @ \cup Fresh(o, role)]
  <2>1. /\ x.order = o /\ x.pc = award[h].pc /\ o \in Order /\ o \in delivered
        /\ x.fresh = IF <<o, role>> \in credited THEN award[h].fresh
                     ELSE award[h].fresh \cup {role}
    BY <1>6 DEF Credit, Fresh, LifeInv
  <2>2. award' = [award EXCEPT ![h] = x] /\ credited' = credited \cup {<<o, role>>}
    BY <1>6 DEF Credit
  <2> HIDE DEF x
  <2>3. UNCHANGED <<ledger, delivered>>
    BY <1>6 DEF Credit, orders
  <2>4. <<o, role>> \notin credited => ledger[<<o, role>>] = 0
    <3> DEFINE n == ledger[<<o, role>>]
    <3>1. n \in Nat /\ n <= 1 /\ (n = 1 => <<o, role>> \in credited)
      BY <2>1
    <3> HIDE DEF n
    <3>2. n = 0 \/ n = 1
      BY <3>1
    <3>3. <<o, role>> \notin credited => n = 0
      BY <3>1, <3>2
    <3> QED BY <3>3 DEF n
  <2>5. ASSUME NEW e \in Order, NEW r \in Role
        PROVE  /\ <<e, r>> \in credited' => e \in delivered'
               /\ ledger'[<<e, r>>] <= 1
               /\ ledger'[<<e, r>>] = 1 => <<e, r>> \in credited'
    BY <2>1, <2>2, <2>3
  <2>6. ASSUME NEW g \in Handler, NEW r \in Role, award'[g].pc # "idle", r \in award'[g].fresh
        PROVE  /\ <<award'[g].order, r>> \in credited'
               /\ ledger'[<<award'[g].order, r>>] = 0
    BY <2>1, <2>2, <2>3, <2>4, <2>6
  <2>7. ASSUME NEW g \in Handler, NEW k \in Handler, NEW r \in Role,
               award'[g].pc # "idle", r \in award'[g].fresh,
               award'[k].pc # "idle", r \in award'[k].fresh, award'[k].order = award'[g].order
        PROVE  k = g
    <3>1. \A f \in Handler : f # h => award'[f] = award[f]
      BY <2>2
    <3>2. award'[h] = x
      BY <2>2
    <3>2a. r \in x.fresh => r \in award[h].fresh \/ (r = role /\ <<o, r>> \notin credited)
      <4>1. CASE <<o, role>> \in credited
        BY <2>1, <4>1
      <4>2. CASE <<o, role>> \notin credited
        BY <2>1, <4>2
      <4> QED BY <4>1, <4>2
    <3>3. \A f \in Handler : award[f].pc # "idle" /\ r \in award[f].fresh
                              => <<award[f].order, r>> \in credited
      OBVIOUS
    <3>4. CASE g # h /\ k # h
      BY <2>7, <3>1, <3>4
    <3>5. CASE g = h /\ k # h
      BY <2>1, <2>7, <3>1, <3>2, <3>2a, <3>3, <3>5
    <3>6. CASE g # h /\ k = h
      BY <2>1, <2>7, <3>1, <3>2, <3>2a, <3>3, <3>6
    <3> QED BY <3>4, <3>5, <3>6
  <2> QED BY <2>5, <2>6, <2>7
<1>7. ASSUME NEW h \in Handler, NEW role \in Role, CreditThrows(h, role) PROVE PointsInv'
  BY <1>7 DEF CreditThrows, LifeInv, orders
<1>15. CASE Crash
  BY <1>15 DEF Crash, orders, points
<1> QED BY <1>1, <1>3, <1>4, <1>5, <1>6, <1>7, <1>15
        DEF Next, vars, PersistOrder, RefuseOrder, LoadPrices, LoadShipping, CreatePayment,
            MarkPaid, MarkRefunded, MarkCanceled, Change, orders, points

(* What an order does after its checkout rests on what came before it, for any
   number of requests, updates of the shipping and crashes in between. *)
THEOREM EverythingIsEarned == Spec => []OrdersAreEarned
<1>1. Init => TypeInv /\ LifeInv /\ PointsInv
  BY TypeInit, LifeInit, PointsInit
<1>2. TypeInv /\ LifeInv /\ PointsInv /\ [Next]_vars => (TypeInv /\ LifeInv /\ PointsInv)'
  BY TypeStep, LifeStep, PointsStep
<1>3. LifeInv /\ PointsInv => OrdersAreEarned
  BY DEF LifeInv, PointsInv, OrdersAreEarned, ShippedIsPaid, PointsAreEarned,
         ToldWhatHappened, FeeIsPart
<1> QED BY <1>1, <1>2, <1>3, PTL DEF Spec
=============================================================================
