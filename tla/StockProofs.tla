----------------------------- MODULE StockProofs -----------------------------
(***************************************************************************)
(* Proofs about Stock, for any finite set of orders and of products, any   *)
(* payments, quantities, prices, attempts and crashes.                     *)
(***************************************************************************)
EXTENDS Stock, FiniteSetTheorems, WellFoundedInduction, TLAPS

-----------------------------------------------------------------------------
(* The totals over orders and over products.  SumFunction is defined by a
   recursion on the subsets of its domain; an induction over them is taken as a
   minimal counterexample, so that no induction theorem with an operator
   parameter is needed. *)

(***************************************************************************)
(* A nonempty set of subsets of a finite set has an inclusion-minimal one. *)
(***************************************************************************)
LEMMA SubsetMinimum ==
  ASSUME NEW S, IsFiniteSet(S), NEW B, B \subseteq SUBSET S, B # {}
  PROVE  \E T \in B : \A U \in SUBSET T : U # T => U \notin B
<1>1. PICK T \in B : \A U \in B : ~ (<<U, T>> \in StrictSubsetOrdering(S))
  BY FS_StrictSubsetOrderingWellFounded, FS_FiniteSubsetsOfFinite, WFMin
<1> QED BY <1>1 DEF StrictSubsetOrdering

(* One element of a set; the total of f over T, from that over smaller sets. *)
Some(T) == CHOOSE x \in T : TRUE

Adds(s, f, T) == IF T = {} THEN 0 ELSE f[Some(T)] + s[T \ {Some(T)}]

IsSumTable(s, f, S) ==
  s = [T \in SUBSET S |-> s[T]] /\ \A T \in SUBSET S : s[T] = Adds(s, f, T)

(***************************************************************************)
(* Every function has such a table.  One is filled in as far as it can be: *)
(* the smallest subset left out could be added.                            *)
(***************************************************************************)
LEMMA SumTableExists ==
  ASSUME NEW S, IsFiniteSet(S), NEW f
  PROVE  \E s : IsSumTable(s, f, S)
<1> DEFINE Filled(s, D) == \A T \in D : /\ s[T] = Adds(s, f, T)
                                        /\ T # {} => T \ {Some(T)} \in D
           Left == {E \in SUBSET SUBSET S : \E s : Filled(s, (SUBSET S) \ E)}
<1>1. IsFiniteSet(SUBSET S) /\ SUBSET S \in Left
  BY FS_SUBSET
<1>2. PICK E \in Left : \A F \in SUBSET E : F # E => F \notin Left
  <2>1. Left \subseteq SUBSET SUBSET S /\ Left # {}
    BY <1>1
  <2> HIDE DEF Left
  <2> QED BY <1>1, <2>1, SubsetMinimum
<1> DEFINE D == (SUBSET S) \ E
<1>3. PICK s : Filled(s, D)
  BY <1>2
<1>4. ASSUME E # {} PROVE FALSE
  <2>1. PICK T \in E : \A U \in SUBSET T : U # T => U \notin E
    <3>1. E \subseteq SUBSET S
      BY <1>2
    <3> QED BY <1>4, <3>1, SubsetMinimum
  <2> DEFINE t == [U \in SUBSET S |-> IF U = T THEN Adds(s, f, T) ELSE s[U]]
  <2>2. T \in SUBSET S /\ (T # {} => Some(T) \in T /\ T \ {Some(T)} \in D)
    BY <1>2, <2>1 DEF Some
  <2>3. t[T] = Adds(t, f, T)
    BY <2>2 DEF Adds
  <2>4. ASSUME NEW U \in D PROVE t[U] = Adds(t, f, U) /\ (U # {} => U \ {Some(U)} \in D)
    BY <1>3, <2>1 DEF Adds
  <2>5. Filled(t, (SUBSET S) \ (E \ {T}))
    <3> HIDE DEF t
    <3> QED BY <2>2, <2>3, <2>4
  <2> HIDE DEF t, Filled
  <2>6. E \ {T} \in SUBSET E /\ E \ {T} # E /\ E \ {T} \in Left
    BY <1>2, <2>5
  <2> QED BY <1>2, <2>6
<1> DEFINE t == [T \in SUBSET S |-> s[T]]
<1>5. ASSUME NEW T \in SUBSET S PROVE t[T] = Adds(t, f, T)
  <2>1. t[T] = Adds(s, f, T) /\ T \ {Some(T)} \in SUBSET S
    BY <1>3, <1>4
  <2> QED BY <2>1 DEF Adds
<1>6. t = [T \in SUBSET S |-> t[T]]
  OBVIOUS
<1> HIDE DEF t
<1> QED BY <1>5, <1>6 DEF IsSumTable

(***************************************************************************)
(* SumFunction reads such a table at the whole domain.                     *)
(***************************************************************************)
LEMMA SumFunctionTable ==
  ASSUME NEW f, IsFiniteSet(DOMAIN f)
  PROVE  \E s : IsSumTable(s, f, DOMAIN f) /\ SumFunction(f) = s[DOMAIN f]
<1> DEFINE S == DOMAIN f
           It(g) == [T \in SUBSET S |-> Adds(g, f, T)]
           it == CHOOSE g : g = It(g)
<1>1. it = It(it)
  BY SumTableExists DEF IsSumTable
<1>2. SumFunction(f) = it[S]
  BY DEF SumFunction, SumFunctionOnSet, FoldFunctionOnSet, MapThenFoldSet, Adds, Some
<1> HIDE DEF it
<1>3. IsSumTable(it, f, S)
  BY <1>1 DEF IsSumTable
<1> QED BY <1>2, <1>3

(***************************************************************************)
(* Two functions that differ at x only.                                    *)
(***************************************************************************)
LEMMA SumTables ==
  ASSUME NEW S, IsFiniteSet(S), NEW f \in [S -> Int], NEW g \in [S -> Int],
         NEW x, \A y \in S : y # x => g[y] = f[y],
         NEW s, NEW t, IsSumTable(s, f, S), IsSumTable(t, g, S), NEW T \in SUBSET S
  PROVE  /\ s[T] \in Int
         /\ t[T] = s[T] + (IF x \in T THEN g[x] - f[x] ELSE 0)
         /\ (\A y \in T : f[y] >= 0) => s[T] >= 0
         /\ (\A y \in T : f[y] = 0) => s[T] = 0
<1> DEFINE P(X) == /\ s[X] \in Int
                   /\ t[X] = s[X] + (IF x \in X THEN g[x] - f[x] ELSE 0)
                   /\ (\A y \in X : f[y] >= 0) => s[X] >= 0
                   /\ (\A y \in X : f[y] = 0) => s[X] = 0
           Bad == {X \in SUBSET S : ~ P(X)}
<1>1. SUFFICES ASSUME Bad # {} PROVE FALSE
  OBVIOUS
<1>2. PICK X \in Bad : \A U \in SUBSET X : U # X => U \notin Bad
  <2>1. Bad \subseteq SUBSET S
    OBVIOUS
  <2> HIDE DEF Bad
  <2> QED BY <1>1, <2>1, SubsetMinimum
<1> DEFINE c == Some(X)
           U == X \ {c}
<1>3. s[X] = Adds(s, f, X) /\ t[X] = Adds(t, g, X)
  BY <1>2 DEF IsSumTable
<1>4. CASE X = {}
  BY <1>2, <1>3, <1>4 DEF Adds
<1>5. CASE X # {}
  <2>1. c \in X /\ c \in S
    BY <1>2, <1>5 DEF Some
  <2>2. P(U)
    BY <1>2, <2>1
  <2>3. s[X] = f[c] + s[U] /\ t[X] = g[c] + t[U]
    BY <1>3, <1>5 DEF Adds
  <2>4. f[c] \in Int /\ g[c] \in Int /\ (c # x => g[c] = f[c])
    BY <2>1
  <2>5. /\ \A y \in U : y \in X
        /\ x \in X <=> x = c \/ x \in U
        /\ c \notin U
    BY <2>1
  <2> HIDE DEF c, U
  <2>6. P(X)
    <3>1. s[X] \in Int
      BY <2>2, <2>3, <2>4
    <3>2. t[X] = s[X] + (IF x \in X THEN g[x] - f[x] ELSE 0)
      <4>1. CASE x = c
        BY <2>2, <2>3, <2>4, <2>5, <4>1
      <4>2. CASE x # c
        <5>1. (IF x \in U THEN g[x] - f[x] ELSE 0) \in Int
          <6>1. x \in U => x \in S
            BY <1>2, <2>5
          <6> QED BY <6>1
        <5> QED BY <2>2, <2>3, <2>4, <2>5, <4>2, <5>1
      <4> QED BY <4>1, <4>2
    <3>3. (\A y \in X : f[y] >= 0) => s[X] >= 0
      BY <2>1, <2>2, <2>3, <2>4, <2>5
    <3>4. (\A y \in X : f[y] = 0) => s[X] = 0
      BY <2>1, <2>2, <2>3, <2>4, <2>5
    <3> QED BY <3>1, <3>2, <3>3, <3>4
  <2> QED BY <1>2, <2>6
<1> QED BY <1>4, <1>5

(***************************************************************************)
(* One order's part of a total changes.                                    *)
(***************************************************************************)
LEMMA SumUpdate ==
  ASSUME NEW S, IsFiniteSet(S), NEW f \in [S -> Int], NEW g \in [S -> Int],
         NEW x \in S, \A y \in S : y # x => g[y] = f[y]
  PROVE  /\ SumFunction(f) \in Int
         /\ SumFunction(g) = SumFunction(f) + g[x] - f[x]
<1>1. PICK s : IsSumTable(s, f, S) /\ SumFunction(f) = s[S]
  BY SumFunctionTable
<1>2. PICK t : IsSumTable(t, g, S) /\ SumFunction(g) = t[S]
  BY SumFunctionTable
<1>3. s[S] \in Int /\ t[S] = s[S] + (IF x \in S THEN g[x] - f[x] ELSE 0)
  BY <1>1, <1>2, SumTables
<1> QED BY <1>1, <1>2, <1>3

LEMMA SumOfNaturals ==
  ASSUME NEW S, IsFiniteSet(S), NEW f \in [S -> Nat]
  PROVE  SumFunction(f) \in Nat
<1>1. PICK s : IsSumTable(s, f, S) /\ SumFunction(f) = s[S]
  BY SumFunctionTable
<1>2. s[S] \in Int /\ s[S] >= 0
  <2>1. f \in [S -> Int] /\ \A y \in S : f[y] >= 0
    OBVIOUS
  <2> QED BY <1>1, <2>1, SumTables
<1> QED BY <1>1, <1>2

LEMMA SumZero ==
  ASSUME NEW S, IsFiniteSet(S)
  PROVE  SumFunction([y \in S |-> 0]) = 0
<1> DEFINE f == [y \in S |-> 0]
<1>1. f \in [S -> Int] /\ \A y \in S : f[y] = 0
  OBVIOUS
<1> HIDE DEF f
<1>2. PICK s : IsSumTable(s, f, S) /\ SumFunction(f) = s[S]
  BY <1>1, SumFunctionTable
<1>3. s[S] = 0
  BY <1>1, <1>2, SumTables
<1> QED BY <1>2, <1>3 DEF f


USE DEF Units, JobState, SaleJob, RestockJob, Task

-----------------------------------------------------------------------------
(* Units of an order, no more than it holds. *)
PartOf(units, o) == units \in Units /\ \A i \in Product : units[i] <= Quantity[o][i]

(* The worker, when it is in the middle of a sale, holds its order and what
   the stores applied of it; a waiting RESTOCK job names a payment; no shelf is
   ever short of units. *)
TypeInv ==
  /\ TypeOK
  /\ shelf \in Units
  /\ \A o \in Order : sold[o] # None => PartOf(sold[o], o)
  /\ task.pc # "idle" => task.order \in Order /\ PartOf(task.applied, task.order)
  /\ \A o \in Order : restock[o].state = "waiting" => restock[o].payment \in Payment

LEMMA IdleType == Idle \in Task /\ Idle.pc = "idle"
  BY DEF Idle

LEMMA FailedTypes ==
  /\ \A j \in SaleJob : Failed(j) \in SaleJob
  /\ \A j \in RestockJob : Failed(j) \in RestockJob /\ Failed(j).payment = j.payment
<1>1. ASSUME NEW j \in SaleJob PROVE Failed(j) \in SaleJob
  <2> DEFINE s == IF j.made + 1 >= MaxAttempts THEN "failed" ELSE "waiting"
  <2>1. s \in JobState /\ j.made + 1 \in Nat
    OBVIOUS
  <2> HIDE DEF s
  <2>2. Failed(j) = [j EXCEPT !.made = @ + 1, !.state = s]
    BY DEF Failed, s
  <2> QED BY <2>1, <2>2
<1>2. ASSUME NEW j \in RestockJob
      PROVE  Failed(j) \in RestockJob /\ Failed(j).payment = j.payment
  <2> DEFINE s == IF j.made + 1 >= MaxAttempts THEN "failed" ELSE "waiting"
  <2>1. s \in JobState /\ j.made + 1 \in Nat
    OBVIOUS
  <2> HIDE DEF s
  <2>2. Failed(j) = [j EXCEPT !.made = @ + 1, !.state = s]
    BY DEF Failed, s
  <2> QED BY <2>1, <2>2
<1> QED BY <1>1, <1>2

LEMMA TypeInit == Init => TypeInv
  BY IdleType, ShelfType DEF Init, TypeInv, TypeOK

(* A call to the stores for a sale. *)
LEMMA SellTypes ==
  ASSUME TypeInv, NEW o \in Order, SellReference(o)
  PROVE  /\ PartOf(Applied(o), o)
         /\ sold' \in [Order -> Units \cup {None}] /\ shelf' \in Units
         /\ sold'[o] = Applied(o)
         /\ \A x \in Order \ {o} : sold'[x] = sold[x]
         /\ sold[o] # None => sold' = sold /\ shelf' = shelf
         /\ sold[o] = None => \A i \in Product : shelf'[i] = shelf[i] - Applied(o)[i]
<1> USE DEF TypeInv, TypeOK
<1>1. PartOf(Applied(o), o)
  <2>1. CASE sold[o] # None
    BY <2>1 DEF Applied
  <2>2. CASE sold[o] = None
    BY <2>2, QuantityType DEF Applied, Min, PartOf
  <2> QED BY <2>1, <2>2
<1>2. Applied(o) \in Units
  BY <1>1 DEF PartOf
<1>3. sold[o] = None => \A i \in Product : Applied(o)[i] <= shelf[i]
  BY QuantityType DEF Applied, Min
<1>4. sold[o] # None => Applied(o) = sold[o]
  BY DEF Applied
<1> HIDE DEF Units
<1>5. /\ sold' \in [Order -> Units \cup {None}]
      /\ sold'[o] = Applied(o)
      /\ \A x \in Order \ {o} : sold'[x] = sold[x]
      /\ sold[o] # None => sold' = sold
  BY <1>2, <1>4 DEF SellReference
<1>6. shelf' \in Units
  BY <1>2, <1>3 DEF SellReference, Units
<1>7. /\ sold[o] # None => shelf' = shelf
      /\ sold[o] = None => \A i \in Product : shelf'[i] = shelf[i] - Applied(o)[i]
  BY DEF SellReference
<1> QED BY <1>1, <1>5, <1>6, <1>7

(* A call to the stores that puts units back. *)
LEMMA PutBackTypes ==
  ASSUME TypeInv, NEW o \in Order, NEW units \in Units, PutBackReference(o, units)
  PROVE  /\ back' \in [Order -> Units \cup {None}] /\ shelf' \in Units
         /\ \A x \in Order \ {o} : back'[x] = back[x]
         /\ back[o] # None => back' = back /\ shelf' = shelf
         /\ back[o] = None => /\ back'[o] = units
                              /\ \A i \in Product : shelf'[i] = shelf[i] + units[i]
<1> USE DEF TypeInv, TypeOK
<1>1. /\ \A x \in Order \ {o} : back'[x] = back[x]
      /\ back[o] # None => back' = back
      /\ back[o] = None => back'[o] = units
  BY DEF PutBackReference
<1>2. back' \in [Order -> Units \cup {None}]
  BY DEF PutBackReference
<1>3. shelf' \in Units
  BY DEF PutBackReference
<1>4. /\ back[o] # None => shelf' = shelf
      /\ back[o] = None => \A i \in Product : shelf'[i] = shelf[i] + units[i]
  BY DEF PutBackReference
<1> QED BY <1>1, <1>2, <1>3, <1>4

(* What a waiting RESTOCK job puts back are units. *)
LEMMA TakenType ==
  ASSUME TypeInv, NEW o \in Order, CanRunRestock(o), HasTaken(o)
  PROVE  TakenBy(o) \in Units /\ restock[o].payment \in Payment
  BY DEF TypeInv, TypeOK, CanRunRestock, HasTaken, TakenBy

(* The price of missing units. *)
ShortOf(o, applied) ==
  SumFunction([i \in Product |-> (Quantity[o][i] - applied[i]) * Price[i]])

LEMMA ShortType ==
  ASSUME NEW o \in Order, NEW applied, PartOf(applied, o)
  PROVE  ShortOf(o, applied) \in Nat
<1> DEFINE f == [i \in Product |-> (Quantity[o][i] - applied[i]) * Price[i]]
<1>1. f \in [Product -> Nat]
  <2>1. ASSUME NEW i \in Product PROVE (Quantity[o][i] - applied[i]) * Price[i] \in Nat
    <3>1. Quantity[o][i] - applied[i] \in Nat /\ Price[i] \in Nat
      BY QuantityType, MoneyType DEF PartOf
    <3> QED BY <3>1
  <2> QED BY <2>1
<1> HIDE DEF f
<1>2. SumFunction(f) \in Nat
  BY <1>1, ShopIsFinite, SumOfNaturals
<1> QED BY <1>2 DEF ShortOf, f

LEMMA DueType ==
  ASSUME NEW o \in Order, NEW applied, PartOf(applied, o)
  PROVE  RefundDue(o, applied) \in Nat
  BY ShortType, PayerType, MoneyType DEF RefundDue, Short, ShortOf

LEMMA TypeStep ==
  ASSUME TypeInv, [Next]_vars
  PROVE  TypeInv'
<1> USE IdleType, FailedTypes DEF TypeInv, TypeOK, stores, money
<1> HIDE DEF Task
<1>1. ASSUME NEW p \in Payment, NEW amount \in 1..Amount[p], RequestRefund(p, amount)
      PROVE  TypeInv'
  BY <1>1, MoneyType DEF RequestRefund, Ask
<1>2. ASSUME NEW p \in Payment, RefuseRefund(p) PROVE TypeInv'
  BY <1>2 DEF RefuseRefund
<1>3. ASSUME NEW p \in Payment, CompleteRefund(p) PROVE TypeInv'
  <2> DEFINE o == OrderOf[p]
             j == [state |-> "waiting", made |-> 0, payment |-> p]
  <2>1. o \in Order /\ j \in RestockJob /\ j.payment = p
    BY OrderOfType
  <2>2. restock' = restock \/ restock' = [restock EXCEPT ![o] = j]
    BY <1>3 DEF CompleteRefund, QueueRestock
  <2> HIDE DEF o, j
  <2>3. /\ restock' \in [Order -> RestockJob]
        /\ \A x \in Order : restock'[x] = restock[x] \/ restock'[x] = j
    BY <2>1, <2>2, SMTT(30)
  <2>4. owed' \in [Payment -> Nat] /\ returned' \in [Payment -> Nat]
    BY <1>3 DEF CompleteRefund, Return
  <2>5. UNCHANGED <<stores, record, sale, requested, task, faults>>
    BY <1>3 DEF CompleteRefund
  <2>6. \A x \in Order : restock'[x].state = "waiting" => restock'[x].payment \in Payment
    BY <2>1, <2>3
  <2> QED BY <2>3, <2>4, <2>5, <2>6
<1>4. ASSUME NEW p \in Payment, CompleteRefundAndDie(p) PROVE TypeInv'
  BY <1>4 DEF CompleteRefundAndDie, Return
<1>5. ASSUME NEW o \in Order, QueueSale(o) PROVE TypeInv'
  BY <1>5 DEF QueueSale
<1>6. ASSUME NEW o \in Order, SkipSale(o) PROVE TypeInv'
  BY <1>6 DEF SkipSale
<1>7. ASSUME NEW o \in Order, Sell(o) PROVE TypeInv'
  <2>1. SellReference(o) /\ UNCHANGED <<back, record, sale, restock, money, faults>>
    BY <1>7 DEF Sell
  <2>2. /\ PartOf(Applied(o), o) /\ Applied(o) \in Units
        /\ sold' \in [Order -> Units \cup {None}] /\ shelf' \in Units
        /\ \A x \in Order : sold'[x] = sold[x] \/ (x = o /\ sold'[x] = Applied(o))
    BY <2>1, SellTypes DEF PartOf
  <2>3. task' = [pc |-> "record", order |-> o, applied |-> Applied(o)]
    BY <1>7 DEF Sell
  <2>4. task' \in Task /\ task'.order = o /\ task'.applied = Applied(o)
    BY <2>2, <2>3 DEF Task
  <2> QED BY <2>1, <2>2, <2>4
<1>8. ASSUME NEW o \in Order, SellThrows(o) PROVE TypeInv'
  <2>1. UNCHANGED <<back, record, restock, money, task, faults>>
    BY <1>8 DEF SellThrows
  <2>2. sale' \in [Order -> SaleJob]
    BY <1>8 DEF SellThrows
  <2>3. /\ sold' \in [Order -> Units \cup {None}] /\ shelf' \in Units
        /\ \A x \in Order : sold'[x] # None => PartOf(sold'[x], x)
    <3>1. CASE SellReference(o)
      BY <3>1, SellTypes
    <3>2. CASE UNCHANGED <<sold, shelf>>
      BY <3>2
    <3> QED BY <1>8, <3>1, <3>2 DEF SellThrows
  <2> QED BY <2>1, <2>2, <2>3
<1>9. CASE RecordStock
  <2>1. task.order \in Order /\ PartOf(task.applied, task.order)
    BY <1>9 DEF RecordStock
  <2>2. task' = Idle \/ task' = [task EXCEPT !.pc = "refund"]
    BY <1>9 DEF RecordStock
  <2>3. task' \in Task /\ (task'.pc # "idle" => /\ task'.order = task.order
                                                /\ task'.applied = task.applied)
    BY <2>2 DEF Task
  <2>4. record' \in [Payment -> Units \cup {None}]
    BY <1>9, <2>1, PayerType DEF RecordStock, PartOf
  <2>5. sale' \in [Order -> SaleJob]
    <3>1. sale' = sale \/ sale' = [sale EXCEPT ![task.order].state = "done"]
      BY <1>9 DEF RecordStock
    <3> QED BY <2>1, <3>1, SMTT(30)
  <2>6. UNCHANGED <<stores, restock, money, faults>>
    BY <1>9 DEF RecordStock
  <2> QED BY <2>1, <2>3, <2>4, <2>5, <2>6
<1>10. CASE RefundShort
  <2>1. task.order \in Order /\ RefundDue(task.order, task.applied) \in Nat
    BY <1>10, DueType DEF RefundShort
  <2>2. owed' \in [Payment -> Nat] /\ requested' \in [Payment -> Nat]
    BY <1>10, <2>1, PayerType DEF RefundShort, Ask
  <2>3. sale' \in [Order -> SaleJob] /\ task' = Idle
    BY <1>10, <2>1 DEF RefundShort
  <2> QED BY <1>10, <2>2, <2>3 DEF RefundShort
<1>11. CASE RefundShortRefused
  <2>1. sale' \in [Order -> SaleJob] /\ task' = Idle
    BY <1>11 DEF RefundShortRefused
  <2> QED BY <1>11, <2>1 DEF RefundShortRefused
<1>12. ASSUME NEW o \in Order, PutBack(o) PROVE TypeInv'
  <2>1. TakenBy(o) \in Units /\ PutBackReference(o, TakenBy(o))
    BY <1>12, TakenType DEF PutBack
  <2>2. back' \in [Order -> Units \cup {None}] /\ shelf' \in Units
    BY <2>1, PutBackTypes
  <2>3. /\ restock' \in [Order -> RestockJob]
        /\ \A x \in Order : restock'[x].state = "waiting" => restock'[x] = restock[x]
    BY <1>12 DEF PutBack
  <2>4. UNCHANGED <<sold, record, sale, money, task, faults>>
    BY <1>12 DEF PutBack
  <2> QED BY <2>2, <2>3, <2>4
<1>13. ASSUME NEW o \in Order, PutBackThrows(o) PROVE TypeInv'
  <2>1. back' \in [Order -> Units \cup {None}] /\ shelf' \in Units
    BY <1>13, TakenType, PutBackTypes DEF PutBackThrows
  <2>2. restock' \in [Order -> RestockJob]
    BY <1>13 DEF PutBackThrows
  <2>3. \A x \in Order : restock'[x].payment = restock[x].payment
    BY <1>13 DEF PutBackThrows
  <2>4. restock[o].state = "waiting"
    BY <1>13 DEF PutBackThrows, CanRunRestock
  <2>5. \A x \in Order : restock'[x].state = "waiting" => restock[x].state = "waiting"
    BY <1>13, <2>4 DEF PutBackThrows
  <2> QED BY <1>13, <2>1, <2>2, <2>3, <2>5 DEF PutBackThrows
<1>14. ASSUME NEW o \in Order, NothingToPutBack(o) PROVE TypeInv'
  BY <1>14 DEF NothingToPutBack
<1>15. CASE Crash
  BY <1>15 DEF Crash
<1>16. CASE UNCHANGED vars
  BY <1>16 DEF vars
<1> QED BY <1>1, <1>2, <1>3, <1>4, <1>5, <1>6, <1>7, <1>8, <1>9, <1>10, <1>11, <1>12,
           <1>13, <1>14, <1>15, <1>16 DEF Next, WorkerStep

(* Units, movements, records and jobs keep their types: what is asked back for
   missing units is never negative, though the stores answered it. *)
THEOREM TypeCorrect == Spec => []TypeOK
<1>1. TypeInv => TypeOK
  BY DEF TypeInv
<1> QED BY <1>1, TypeInit, TypeStep, PTL DEF Spec

-----------------------------------------------------------------------------
(* What a step does at the stores: nothing, a sale, or putting back what the
   payment of a waiting RESTOCK job took. *)
PutsBack(o) ==
  /\ CanRunRestock(o) /\ HasTaken(o)
  /\ PutBackReference(o, TakenBy(o))
  /\ UNCHANGED sold

LEMMA StoresStep ==
  ASSUME TypeInv, [Next]_vars
  PROVE  \/ UNCHANGED stores
         \/ \E o \in Order : SellReference(o) /\ UNCHANGED back
         \/ \E o \in Order : PutsBack(o)
<1> USE DEF stores
<1>1. ASSUME NEW p \in Payment, \/ \E amount \in 1..Amount[p] : RequestRefund(p, amount)
                                \/ RefuseRefund(p) \/ CompleteRefund(p)
                                \/ CompleteRefundAndDie(p)
      PROVE  UNCHANGED stores
  BY <1>1 DEF RequestRefund, RefuseRefund, CompleteRefund, CompleteRefundAndDie
<1>2. ASSUME NEW o \in Order, \/ QueueSale(o) \/ SkipSale(o) \/ NothingToPutBack(o)
      PROVE  UNCHANGED stores
  BY <1>2 DEF QueueSale, SkipSale, NothingToPutBack
<1>3. ASSUME NEW o \in Order, Sell(o) \/ SellThrows(o)
      PROVE  UNCHANGED stores \/ (SellReference(o) /\ UNCHANGED back)
  BY <1>3 DEF Sell, SellThrows
<1>4. ASSUME NEW o \in Order, PutBack(o) \/ PutBackThrows(o)
      PROVE  UNCHANGED stores \/ PutsBack(o)
  BY <1>4 DEF PutBack, PutBackThrows, PutsBack
<1>5. ASSUME RecordStock \/ RefundShort \/ RefundShortRefused \/ Crash \/ UNCHANGED vars
      PROVE  UNCHANGED stores
  BY <1>5 DEF RecordStock, RefundShort, RefundShortRefused, Crash, vars
<1> QED BY <1>1, <1>2, <1>3, <1>4, <1>5 DEF Next, WorkerStep

-----------------------------------------------------------------------------
(* What the stores keep of sales, and of restocks. *)
Movements == [Order -> Units \cup {None}]

(* The units of product i that order o holds, and all orders together, with
   the movements s of sales and b of restocks. *)
Holds(s, b, o, i) == (IF s[o] = None THEN 0 ELSE s[o][i])
                       - (IF b[o] = None THEN 0 ELSE b[o][i])

AllHold(s, b, i) == SumFunction([o \in Order |-> Holds(s, b, o, i)])

LEMMA HoldsType ==
  ASSUME NEW s \in Movements, NEW b \in Movements,
         NEW o \in Order, NEW i \in Product
  PROVE  Holds(s, b, o, i) \in Int
<1>1. (IF s[o] = None THEN 0 ELSE s[o][i]) \in Int
  BY DEF Movements
<1>2. (IF b[o] = None THEN 0 ELSE b[o][i]) \in Int
  BY DEF Movements
<1> QED BY <1>1, <1>2 DEF Holds

(* One order's movements changed: the total changes by as much. *)
LEMMA HeldByOne ==
  ASSUME NEW s \in Movements, NEW b \in Movements,
         NEW t \in Movements, NEW c \in Movements,
         NEW o \in Order, NEW i \in Product,
         \A x \in Order \ {o} : t[x] = s[x] /\ c[x] = b[x]
  PROVE  /\ AllHold(s, b, i) \in Int
         /\ AllHold(t, c, i) = AllHold(s, b, i) + Holds(t, c, o, i) - Holds(s, b, o, i)
<1> DEFINE f == [x \in Order |-> Holds(s, b, x, i)]
           g == [x \in Order |-> Holds(t, c, x, i)]
<1>1. f \in [Order -> Int] /\ g \in [Order -> Int]
  BY HoldsType
<1>2. \A x \in Order : x # o => g[x] = f[x]
  BY DEF Holds
<1>3. f[o] = Holds(s, b, o, i) /\ g[o] = Holds(t, c, o, i)
  OBVIOUS
<1> HIDE DEF f, g
<1>4. SumFunction(f) \in Int /\ SumFunction(g) = SumFunction(f) + g[o] - f[o]
  BY <1>1, <1>2, ShopIsFinite, SumUpdate
<1> QED BY <1>3, <1>4 DEF AllHold, f, g

LEMMA NobodyHolds ==
  ASSUME NEW s, NEW b, \A o \in Order : s[o] = None /\ b[o] = None, NEW i \in Product
  PROVE  AllHold(s, b, i) = 0
<1>1. [o \in Order |-> Holds(s, b, o, i)] = [o \in Order |-> 0]
  BY DEF Holds
<1> QED BY <1>1, ShopIsFinite, SumZero DEF AllHold

LEMMA ConservedStep ==
  ASSUME TypeInv, TypeInv', [Next]_vars,
         \A i \in Product : shelf[i] + AllHold(sold, back, i) = Shelf[i]
  PROVE  \A i \in Product : shelf'[i] + AllHold(sold', back', i) = Shelf[i]
<1>1. /\ sold \in Movements /\ back \in Movements
      /\ sold' \in Movements /\ back' \in Movements
      /\ shelf \in Units /\ shelf' \in Units
  BY DEF TypeInv, TypeOK, Movements
<1>2. CASE UNCHANGED stores
  BY <1>2 DEF stores
<1>3. ASSUME NEW o \in Order, SellReference(o), UNCHANGED back, NEW i \in Product
      PROVE  shelf'[i] + AllHold(sold', back', i) = Shelf[i]
  <2>1. CASE sold[o] # None
    BY <1>3, <2>1, SellTypes
  <2>2. CASE sold[o] = None
    <3>1. /\ sold'[o] = Applied(o) /\ Applied(o) \in Units
          /\ \A x \in Order \ {o} : sold'[x] = sold[x]
          /\ shelf'[i] = shelf[i] - Applied(o)[i]
      BY <1>3, <2>2, SellTypes DEF PartOf
    <3>2. Holds(sold', back', o, i) = Holds(sold, back, o, i) + Applied(o)[i]
      <4>1. (IF back[o] = None THEN 0 ELSE back[o][i]) \in Int
        BY <1>1 DEF Movements
      <4> QED BY <1>3, <2>2, <3>1, <4>1, NoneIsNothing DEF Holds
    <3>3. /\ AllHold(sold, back, i) \in Int
          /\ AllHold(sold', back', i)
               = AllHold(sold, back, i) + Holds(sold', back', o, i) - Holds(sold, back, o, i)
      <4>1. \A x \in Order \ {o} : sold'[x] = sold[x] /\ back'[x] = back[x]
        BY <1>3, <3>1
      <4> QED BY <1>1, <4>1, HeldByOne
    <3>4. Holds(sold, back, o, i) \in Int
      BY <1>1, HoldsType
    <3>5. Applied(o)[i] \in Int /\ shelf[i] \in Int
      BY <1>1, <3>1
    <3> QED BY <1>3, <3>1, <3>2, <3>3, <3>4, <3>5
  <2> QED BY <2>1, <2>2
<1>4. ASSUME NEW o \in Order, PutsBack(o), NEW i \in Product
      PROVE  shelf'[i] + AllHold(sold', back', i) = Shelf[i]
  <2> DEFINE units == TakenBy(o)
  <2>1. units \in Units /\ PutBackReference(o, units) /\ sold' = sold
    BY <1>4, TakenType DEF PutsBack
  <2> HIDE DEF units
  <2>2. CASE back[o] # None
    BY <2>1, <2>2, PutBackTypes
  <2>3. CASE back[o] = None
    <3>1. /\ back'[o] = units
          /\ \A x \in Order \ {o} : back'[x] = back[x]
          /\ shelf'[i] = shelf[i] + units[i]
      BY <2>1, <2>3, PutBackTypes
    <3>2. Holds(sold', back', o, i) = Holds(sold, back, o, i) - units[i]
      <4>1. (IF sold[o] = None THEN 0 ELSE sold[o][i]) \in Int
        BY <1>1 DEF Movements
      <4> QED BY <2>1, <2>3, <3>1, <4>1, NoneIsNothing DEF Holds
    <3>3. /\ AllHold(sold, back, i) \in Int
          /\ AllHold(sold', back', i)
               = AllHold(sold, back, i) + Holds(sold', back', o, i) - Holds(sold, back, o, i)
      <4>1. \A x \in Order \ {o} : sold'[x] = sold[x] /\ back'[x] = back[x]
        BY <2>1, <3>1
      <4> QED BY <1>1, <4>1, HeldByOne
    <3>4. Holds(sold, back, o, i) \in Int
      BY <1>1, HoldsType
    <3>5. units[i] \in Int /\ shelf[i] \in Int
      BY <1>1, <2>1
    <3> QED BY <3>1, <3>2, <3>3, <3>4, <3>5
  <2> QED BY <2>2, <2>3
<1> QED BY <1>2, <1>3, <1>4, StoresStep

(* Units are neither lost nor made: the shelf and what the orders hold of each
   product always add up to what there was, through retried calls whose answer
   was lost, refunds and crashes. *)
THEOREM UnitsAreConserved == Spec => []UnitsConserved
<1> DEFINE Inv == \A i \in Product : shelf[i] + AllHold(sold, back, i) = Shelf[i]
<1>1. Inv <=> UnitsConserved
  BY DEF UnitsConserved, AllHold, Holds, Out
<1>2. Init => Inv
  BY NobodyHolds, ShelfType DEF Init
<1>3. TypeInv /\ TypeInv' /\ Inv /\ [Next]_vars => Inv'
  BY ConservedStep
<1> QED BY <1>1, <1>2, <1>3, TypeInit, TypeStep, PTL DEF Spec

-----------------------------------------------------------------------------
(* A STOCK row is of the payment that got its order paid and says what the
   stores keep of the sale, and so does the worker in the middle of one; a
   waiting RESTOCK job is for a payment of its order that was given back. *)
RecordsTrue ==
  \A p \in Payment :
    record[p] # None => p = Payer[OrderOf[p]] /\ sold[OrderOf[p]] = record[p]

TaskTrue == task.pc # "idle" => sold[task.order] = task.applied

RestockDue ==
  \A o \in Order : restock[o].state = "waiting" =>
    /\ OrderOf[restock[o].payment] = o
    /\ returned[restock[o].payment] >= Amount[restock[o].payment]

BackInv == RecordsTrue /\ TaskTrue /\ RestockDue /\ BackOnlyIfRefunded

(* The stores never forget a sale. *)
LEMMA SoldStays ==
  ASSUME TypeInv, [Next]_vars, NEW o \in Order, sold[o] # None
  PROVE  sold'[o] = sold[o]
<1>1. CASE UNCHANGED stores
  BY <1>1 DEF stores
<1>2. ASSUME NEW x \in Order, SellReference(x) PROVE sold'[o] = sold[o]
  BY <1>2, SellTypes
<1>3. ASSUME NEW x \in Order, PutsBack(x) PROVE sold'[o] = sold[o]
  BY <1>3 DEF PutsBack
<1> QED BY <1>1, <1>2, <1>3, StoresStep

(* Money given back stays given back. *)
LEMMA ReturnedGrows ==
  ASSUME TypeInv, [Next]_vars, NEW p \in Payment
  PROVE  returned'[p] >= returned[p]
<1> USE DEF TypeInv, TypeOK, money
<1>1. ASSUME NEW q \in Payment, CompleteRefund(q) \/ CompleteRefundAndDie(q)
      PROVE  returned'[p] >= returned[p]
  BY <1>1 DEF CompleteRefund, CompleteRefundAndDie, Return
<1>2. \/ UNCHANGED returned
      \/ \E q \in Payment : CompleteRefund(q) \/ CompleteRefundAndDie(q)
  BY DEF Next, WorkerStep, RequestRefund, RefuseRefund, QueueSale, SkipSale, Sell,
         SellThrows, PutBack, PutBackThrows, NothingToPutBack, RecordStock,
         RefundShort, RefundShortRefused, Crash, vars
<1>3. CASE UNCHANGED returned
  BY <1>3
<1> QED BY <1>1, <1>2, <1>3

(* Only the worker writes a STOCK row, of the sale it is in the middle of. *)
LEMMA RecordStep ==
  ASSUME [Next]_vars
  PROVE  \/ UNCHANGED record
         \/ /\ RecordStock
            /\ record' = [record EXCEPT ![Payer[task.order]] = task.applied]
  BY DEF Next, WorkerStep, RequestRefund, RefuseRefund, CompleteRefund,
         CompleteRefundAndDie, QueueSale, SkipSale, Sell, SellThrows, PutBack,
         PutBackThrows, NothingToPutBack, RecordStock, RefundShort,
         RefundShortRefused, Crash, vars

(* The worker begins with a sale, and is otherwise where it was. *)
LEMMA TaskStep ==
  ASSUME [Next]_vars
  PROVE  \/ task' = task \/ task' = Idle
         \/ RecordStock /\ task' = [task EXCEPT !.pc = "refund"]
         \/ \E o \in Order :
              Sell(o) /\ task' = [pc |-> "record", order |-> o, applied |-> Applied(o)]
  BY DEF Next, WorkerStep, RequestRefund, RefuseRefund, CompleteRefund,
         CompleteRefundAndDie, QueueSale, SkipSale, Sell, SellThrows, PutBack,
         PutBackThrows, NothingToPutBack, RecordStock, RefundShort,
         RefundShortRefused, Crash, vars

LEMMA RecordsTrueStep ==
  ASSUME TypeInv, BackInv, [Next]_vars
  PROVE  RecordsTrue'
<1> SUFFICES ASSUME NEW p \in Payment, record'[p] # None
             PROVE  p = Payer[OrderOf[p]] /\ sold'[OrderOf[p]] = record'[p]
  BY DEF RecordsTrue
<1> USE DEF TypeInv, TypeOK
<1>1. CASE record'[p] = record[p]
  <2>1. p = Payer[OrderOf[p]] /\ sold[OrderOf[p]] = record[p] /\ record[p] # None
    BY <1>1 DEF BackInv, RecordsTrue
  <2>2. sold'[OrderOf[p]] = sold[OrderOf[p]]
    BY <2>1, OrderOfType, SoldStays
  <2> QED BY <1>1, <2>1, <2>2
<1>2. CASE record'[p] # record[p]
  <2>1. /\ RecordStock /\ p = Payer[task.order]
        /\ record'[p] = task.applied
    BY <1>2, RecordStep
  <2>2. task.pc # "idle" /\ sold' = sold
    BY <2>1 DEF RecordStock, stores
  <2>3. task.order \in Order /\ sold[task.order] = task.applied
    BY <2>2 DEF BackInv, TaskTrue
  <2>4. OrderOf[p] = task.order
    BY <2>1, <2>3, PayerType
  <2> QED BY <2>1, <2>2, <2>3, <2>4
<1> QED BY <1>1, <1>2

LEMMA TaskTrueStep ==
  ASSUME TypeInv, BackInv, [Next]_vars
  PROVE  TaskTrue'
<1> USE DEF TaskTrue
<1>1. CASE task' = Idle
  BY <1>1, IdleType
<1>2. ASSUME task'.pc # "idle" => task.pc # "idle" /\ task'.order = task.order
                                   /\ task'.applied = task.applied
      PROVE  TaskTrue'
  <2> SUFFICES ASSUME task'.pc # "idle" PROVE sold'[task'.order] = task'.applied
    OBVIOUS
  <2>1. task.order \in Order /\ task.applied \in Units /\ sold[task.order] = task.applied
    BY <1>2 DEF TypeInv, PartOf, BackInv
  <2>2. sold'[task.order] = sold[task.order]
    BY <2>1, SoldStays, NoneIsNothing
  <2> QED BY <1>2, <2>1, <2>2
<1>3. CASE RecordStock /\ task' = [task EXCEPT !.pc = "refund"]
  <2>1. task.pc # "idle" /\ task'.order = task.order /\ task'.applied = task.applied
    BY <1>3 DEF RecordStock, TypeInv, TypeOK
  <2> QED BY <1>2, <2>1
<1>4. ASSUME NEW o \in Order, Sell(o),
             task' = [pc |-> "record", order |-> o, applied |-> Applied(o)]
      PROVE  TaskTrue'
  BY <1>4, SellTypes DEF Sell
<1> QED BY <1>1, <1>2, <1>3, <1>4, TaskStep

LEMMA RestockDueStep ==
  ASSUME TypeInv, BackInv, [Next]_vars
  PROVE  RestockDue'
<1> SUFFICES ASSUME NEW o \in Order, restock'[o].state = "waiting"
             PROVE  /\ OrderOf[restock'[o].payment] = o
                    /\ returned'[restock'[o].payment] >= Amount[restock'[o].payment]
  BY DEF RestockDue
<1> USE DEF TypeInv, TypeOK
<1>1. ASSUME NEW p \in Payment, CompleteRefund(p), restock'[o] # restock[o]
      PROVE  restock'[o].payment = p /\ OrderOf[p] = o /\ returned'[p] >= Amount[p]
  BY <1>1, MoneyType, OrderOfType DEF CompleteRefund, Return, QueueRestock
<1>2. ASSUME NEW x \in Order, PutBackThrows(x) \/ PutBack(x) \/ NothingToPutBack(x)
      PROVE  restock[o].state = "waiting" /\ restock'[o].payment = restock[o].payment
  <2>1. restock[x].state = "waiting"
    BY <1>2 DEF PutBackThrows, PutBack, NothingToPutBack, CanRunRestock
  <2>2. CASE PutBackThrows(x)
    BY <2>1, <2>2, FailedTypes DEF PutBackThrows
  <2>3. CASE PutBack(x) \/ NothingToPutBack(x)
    BY <2>3, ZenonT(60) DEF PutBack, NothingToPutBack
  <2> QED BY <1>2, <2>2, <2>3
<1>3. \/ restock'[o] = restock[o]
      \/ \E p \in Payment : CompleteRefund(p)
      \/ \E x \in Order : PutBackThrows(x) \/ PutBack(x) \/ NothingToPutBack(x)
  BY DEF Next, WorkerStep, RequestRefund, RefuseRefund, CompleteRefundAndDie,
         QueueSale, SkipSale, Sell, SellThrows, RecordStock, RefundShort,
         RefundShortRefused, Crash, vars
<1>4. ASSUME restock[o].state = "waiting", restock'[o].payment = restock[o].payment
      PROVE  /\ OrderOf[restock'[o].payment] = o
             /\ returned'[restock'[o].payment] >= Amount[restock'[o].payment]
  <2> DEFINE p == restock[o].payment
  <2>1. p \in Payment /\ OrderOf[p] = o /\ returned[p] >= Amount[p]
    BY <1>4 DEF BackInv, RestockDue
  <2> HIDE DEF p
  <2>2. returned'[p] >= returned[p]
    BY <2>1, ReturnedGrows
  <2>3. returned'[p] \in Nat /\ returned[p] \in Nat /\ Amount[p] \in Nat
    BY <2>1, TypeStep, MoneyType
  <2> QED BY <1>4, <2>1, <2>2, <2>3 DEF p
<1> QED BY <1>1, <1>2, <1>3, <1>4

LEMMA BackStep ==
  ASSUME TypeInv, BackInv, [Next]_vars
  PROVE  BackOnlyIfRefunded'
<1> SUFFICES ASSUME NEW o \in Order, back'[o] # None
             PROVE  returned'[Payer[o]] >= Amount[Payer[o]] /\ sold'[o] = back'[o]
  BY DEF BackOnlyIfRefunded
<1> USE DEF TypeInv, TypeOK
<1>1. ASSUME returned[Payer[o]] >= Amount[Payer[o]], sold[o] = back'[o]
      PROVE  returned'[Payer[o]] >= Amount[Payer[o]] /\ sold'[o] = back'[o]
  <2>1. sold'[o] = sold[o]
    BY <1>1, SoldStays
  <2>2. Payer[o] \in Payment /\ returned'[Payer[o]] >= returned[Payer[o]]
    BY PayerType, ReturnedGrows
  <2>3. /\ returned'[Payer[o]] \in Nat /\ returned[Payer[o]] \in Nat
        /\ Amount[Payer[o]] \in Nat
    BY <2>2, TypeStep, MoneyType
  <2> QED BY <1>1, <2>1, <2>2, <2>3
<1>2. CASE back'[o] = back[o]
  BY <1>1, <1>2 DEF BackInv, BackOnlyIfRefunded
<1>3. CASE back'[o] # back[o]
  <2>1. PICK x \in Order : PutsBack(x)
    BY <1>3, StoresStep DEF stores
  <2> DEFINE p == restock[x].payment
  <2>2. TakenBy(x) \in Units /\ p \in Payment
    BY <2>1, TakenType DEF PutsBack
  <2>3. x = o /\ back'[o] = TakenBy(o)
    BY <1>3, <2>1, <2>2, PutBackTypes DEF PutsBack
  <2>4. OrderOf[p] = o /\ returned[p] >= Amount[p]
    BY <2>1, <2>3 DEF PutsBack, CanRunRestock, BackInv, RestockDue
  <2>5. record[p] # None /\ TakenBy(o) = record[p]
    BY <2>1, <2>3 DEF PutsBack, HasTaken, TakenBy
  <2>6. p = Payer[o] /\ sold[o] = record[p]
    BY <2>2, <2>4, <2>5 DEF BackInv, RecordsTrue
  <2> QED BY <1>1, <2>3, <2>4, <2>5, <2>6
<1> QED BY <1>2, <1>3

(* Units go back to the shelf only for the payment that took them, once all of
   its money did and as many as it took, whoever's refund queued the job. *)
THEOREM BackIsRefunded == Spec => []BackOnlyIfRefunded
<1>1. Init => BackInv
  BY IdleType DEF Init, BackInv, RecordsTrue, TaskTrue, RestockDue, BackOnlyIfRefunded
<1>2. TypeInv /\ BackInv /\ [Next]_vars => BackInv'
  BY RecordsTrueStep, TaskTrueStep, RestockDueStep, BackStep DEF BackInv
<1>3. BackInv => BackOnlyIfRefunded
  BY DEF BackInv
<1> QED BY <1>1, <1>2, <1>3, TypeInit, TypeStep, PTL DEF Spec

-----------------------------------------------------------------------------
(* What is due for the units an order did not get, and that it was asked of
   the money req, or did not fit beside it. *)
DueFor(o, applied) ==
  IF \E i \in Product : applied[i] > 0 THEN ShortOf(o, applied) ELSE Amount[Payer[o]]

AskedFor(req, o, applied) ==
  \/ req[Payer[o]] >= DueFor(o, applied)
  \/ req[Payer[o]] + DueFor(o, applied) > Amount[Payer[o]]

LEMMA DueIsRefundDue ==
  ASSUME NEW o \in Order, NEW applied, PartOf(applied, o)
  PROVE  DueFor(o, applied) = RefundDue(o, applied) /\ DueFor(o, applied) \in Nat
<1>1. (\E i \in Product : applied[i] > 0) <=> ~(\A i \in Product : applied[i] = 0)
  BY DEF PartOf
<1>2. DueFor(o, applied) = RefundDue(o, applied)
  BY <1>1 DEF DueFor, RefundDue, Short, ShortOf
<1> QED BY <1>2, DueType

(* An order of which all units were there is due nothing. *)
LEMMA NothingDue ==
  ASSUME NEW o \in Order, \E i \in Product : Quantity[o][i] # 0
  PROVE  DueFor(o, Quantity[o]) = 0
<1>1. \E i \in Product : Quantity[o][i] > 0
  BY QuantityType
<1>2. [i \in Product |-> (Quantity[o][i] - Quantity[o][i]) * Price[i]]
        = [i \in Product |-> 0]
  <2>1. ASSUME NEW i \in Product PROVE (Quantity[o][i] - Quantity[o][i]) * Price[i] = 0
    <3>1. Quantity[o][i] \in Nat /\ Price[i] \in Nat
      BY QuantityType, MoneyType
    <3>2. Quantity[o][i] - Quantity[o][i] = 0
      BY <3>1
    <3> QED BY <3>1, <3>2
  <2> QED BY <2>1
<1>3. ShortOf(o, Quantity[o]) = 0
  BY <1>2, ShopIsFinite, SumZero DEF ShortOf
<1> QED BY <1>1, <1>3 DEF DueFor

(* No more is open or returned of a payment than was ever asked. *)
MoneyAsked == \A p \in Payment : owed[p] + returned[p] <= requested[p]

(* The worker sells only what an order has, in a job that is not over, and has
   written the row of a sale by the time it asks for a refund. *)
TaskSells ==
  /\ task.pc # "idle" => sale[task.order].state = "waiting"
  /\ task.pc # "idle" => \E i \in Product : Quantity[task.order][i] # 0
  /\ task.pc = "refund" => record[Payer[task.order]] = task.applied

(* With no crash so far, whoever has a STOCK row was asked for, or is about to
   be, by the worker that wrote it. *)
AskedOrAsking ==
  faults = 0 =>
    \A o \in Order : record[Payer[o]] # None =>
      \/ AskedFor(requested, o, record[Payer[o]])
      \/ task.pc = "refund" /\ task.order = o

ShortInv == MoneyAsked /\ TaskSells /\ AskedOrAsking

LEMMA MoneyMoves ==
  ASSUME [Next]_vars
  PROVE  \/ UNCHANGED money
         \/ \E p \in Payment : \E amount \in 1..Amount[p] : RequestRefund(p, amount)
         \/ \E p \in Payment : RefuseRefund(p)
         \/ \E p \in Payment : Return(p) /\ UNCHANGED requested
         \/ RefundShort
<1> USE DEF money
<1>1. ASSUME NEW p \in Payment, CompleteRefund(p) \/ CompleteRefundAndDie(p)
      PROVE  Return(p) /\ UNCHANGED requested
  BY <1>1 DEF CompleteRefund, CompleteRefundAndDie
<1>2. ASSUME NEW o \in Order, \/ QueueSale(o) \/ SkipSale(o) \/ Sell(o) \/ SellThrows(o)
                              \/ PutBack(o) \/ PutBackThrows(o) \/ NothingToPutBack(o)
      PROVE  UNCHANGED money
  BY <1>2 DEF QueueSale, SkipSale, Sell, SellThrows, PutBack, PutBackThrows,
              NothingToPutBack
<1>3. ASSUME RecordStock \/ RefundShortRefused \/ Crash \/ UNCHANGED vars
      PROVE  UNCHANGED money
  BY <1>3 DEF RecordStock, RefundShortRefused, Crash, vars
<1>4. \/ \E p \in Payment : \E amount \in 1..Amount[p] : RequestRefund(p, amount)
      \/ \E p \in Payment : RefuseRefund(p)
      \/ \E p \in Payment : CompleteRefund(p) \/ CompleteRefundAndDie(p)
      \/ \E o \in Order : \/ QueueSale(o) \/ SkipSale(o) \/ Sell(o) \/ SellThrows(o)
                         \/ PutBack(o) \/ PutBackThrows(o) \/ NothingToPutBack(o)
      \/ RefundShort
      \/ RecordStock \/ RefundShortRefused \/ Crash \/ UNCHANGED vars
  BY DEF Next, WorkerStep
<1> HIDE DEF money
<1>5. ASSUME \E p \in Payment : CompleteRefund(p) \/ CompleteRefundAndDie(p)
      PROVE  \E p \in Payment : Return(p) /\ UNCHANGED requested
  BY <1>1, <1>5
<1>6. ASSUME \E o \in Order : \/ QueueSale(o) \/ SkipSale(o) \/ Sell(o) \/ SellThrows(o)
                             \/ PutBack(o) \/ PutBackThrows(o) \/ NothingToPutBack(o)
      PROVE  UNCHANGED money
  BY <1>2, <1>6
<1> QED BY <1>3, <1>4, <1>5, <1>6

LEMMA MoneyStep ==
  ASSUME TypeInv, MoneyAsked, [Next]_vars
  PROVE  /\ MoneyAsked'
         /\ \A p \in Payment : requested'[p] >= requested[p]
<1> USE DEF TypeInv, TypeOK, MoneyAsked, money
<1>1. ASSUME NEW p \in Payment, NEW amount \in Nat, Ask(p, amount), UNCHANGED returned
      PROVE  MoneyAsked' /\ \A q \in Payment : requested'[q] >= requested[q]
  BY <1>1 DEF Ask
<1>2. ASSUME NEW p \in Payment, RefuseRefund(p)
      PROVE  MoneyAsked' /\ \A q \in Payment : requested'[q] >= requested[q]
  BY <1>2 DEF RefuseRefund
<1>3. ASSUME NEW p \in Payment, Return(p), UNCHANGED requested
      PROVE  MoneyAsked' /\ \A q \in Payment : requested'[q] >= requested[q]
  BY <1>3 DEF Return
<1>4. CASE UNCHANGED money
  BY <1>4
<1>5. ASSUME RefundShort
      PROVE  UNCHANGED money \/ \E amount \in Nat :
               Ask(Payer[task.order], amount) /\ UNCHANGED returned
             /\ Payer[task.order] \in Payment
  BY <1>5, DueType, PayerType DEF RefundShort
<1>6. ASSUME NEW p \in Payment, NEW amount \in 1..Amount[p], RequestRefund(p, amount)
      PROVE  amount \in Nat /\ Ask(p, amount) /\ UNCHANGED returned
  BY <1>6, MoneyType DEF RequestRefund
<1> QED BY <1>1, <1>2, <1>3, <1>4, <1>5, <1>6, MoneyMoves

(* The job of a busy worker's sale goes on waiting. *)
LEMMA SaleWaits ==
  ASSUME TypeInv, [Next]_vars, NEW o \in Order, sale[o].state = "waiting",
         task.pc # "idle", task' # Idle
  PROVE  sale'[o].state = "waiting"
<1> USE DEF TypeInv, TypeOK
<1>1. ASSUME NEW x \in Order, \/ SkipSale(x) \/ Sell(x) \/ SellThrows(x) \/ PutBack(x)
                              \/ PutBackThrows(x) \/ NothingToPutBack(x)
      PROVE  FALSE
  BY <1>1 DEF SkipSale, Sell, SellThrows, PutBack, PutBackThrows, NothingToPutBack,
              CanRunSale, CanRunRestock
<1>2. ASSUME NEW p \in Payment, \/ \E amount \in 1..Amount[p] : RequestRefund(p, amount)
                                \/ RefuseRefund(p) \/ CompleteRefund(p)
                                \/ CompleteRefundAndDie(p)
      PROVE  UNCHANGED sale
  BY <1>2 DEF RequestRefund, RefuseRefund, CompleteRefund, CompleteRefundAndDie
<1>3. ASSUME NEW x \in Order, QueueSale(x) PROVE sale'[o].state = "waiting"
  BY <1>3 DEF QueueSale
<1>4. ASSUME RecordStock \/ Crash \/ UNCHANGED vars PROVE UNCHANGED sale
  BY <1>4 DEF RecordStock, Crash, vars
<1>5. ASSUME RefundShort \/ RefundShortRefused PROVE FALSE
  BY <1>5 DEF RefundShort, RefundShortRefused
<1> QED BY <1>1, <1>2, <1>3, <1>4, <1>5 DEF Next, WorkerStep

LEMMA TaskSellsStep ==
  ASSUME TypeInv, TaskSells, [Next]_vars
  PROVE  TaskSells'
<1> USE DEF TaskSells
<1>1. CASE task' = Idle
  BY <1>1, IdleType
<1>2. CASE task' = task
  <2>1. ~RecordStock
    BY <1>2, IdleType DEF RecordStock, TypeInv, TypeOK
  <2>2. UNCHANGED record
    BY <2>1, RecordStep
  <2>3. ASSUME task.pc # "idle" PROVE sale'[task.order].state = "waiting"
    BY <1>2, <2>3, IdleType, SaleWaits DEF TypeInv
  <2> QED BY <1>2, <2>2, <2>3
<1>3. CASE RecordStock /\ task' = [task EXCEPT !.pc = "refund"]
  <2>1. /\ task.pc # "idle" /\ task.order \in Order
        /\ task'.order = task.order /\ task'.applied = task.applied
    BY <1>3 DEF RecordStock, TypeInv, TypeOK
  <2>2. record'[Payer[task.order]] = task.applied
    BY <1>3, <2>1, PayerType DEF RecordStock, TypeInv, TypeOK
  <2>3. task' # Idle
    BY <2>1, <1>3, IdleType DEF TypeInv, TypeOK
  <2>4. sale'[task.order].state = "waiting"
    BY <2>1, <2>3, SaleWaits
  <2> QED BY <2>1, <2>2, <2>4
<1>4. ASSUME NEW o \in Order, Sell(o),
             task' = [pc |-> "record", order |-> o, applied |-> Applied(o)]
      PROVE  TaskSells'
  BY <1>4, QuantityType DEF Sell, NothingToSell, CanRunSale
<1> QED BY <1>1, <1>2, <1>3, <1>4, TaskStep

(* Once asked, always asked: requests are never forgotten. *)
LEMMA AskedStays ==
  ASSUME TypeInv, TypeInv', MoneyAsked, [Next]_vars, NEW o \in Order, NEW applied,
         PartOf(applied, o), AskedFor(requested, o, applied)
  PROVE  AskedFor(requested', o, applied)
<1> DEFINE p == Payer[o]
           due == DueFor(o, applied)
<1>1. p \in Payment /\ due \in Nat /\ Amount[p] \in Nat
  BY PayerType, MoneyType, DueIsRefundDue
<1>2. requested[p] \in Nat /\ requested'[p] \in Nat /\ requested'[p] >= requested[p]
  BY <1>1, MoneyStep DEF TypeInv, TypeOK
<1>3. requested[p] >= due \/ requested[p] + due > Amount[p]
  BY DEF AskedFor
<1> HIDE DEF p, due
<1>4. requested'[p] >= due \/ requested'[p] + due > Amount[p]
  BY <1>1, <1>2, <1>3
<1> QED BY <1>4 DEF AskedFor, p, due

(* Where the worker stops asking. *)
LEMMA RefundShortAsks ==
  ASSUME TypeInv, TypeInv', ShortInv, RefundShort \/ RefundShortRefused
  PROVE  AskedFor(requested', task.order, record[Payer[task.order]])
<1> USE DEF TypeInv, TypeOK
<1> DEFINE o == task.order
           p == Payer[o]
           due == RefundDue(o, task.applied)
<1>1. task.pc = "refund"
  BY DEF RefundShort, RefundShortRefused
<1>2. o \in Order /\ p \in Payment /\ PartOf(task.applied, o)
  BY <1>1, PayerType
<1>3. record[p] = task.applied /\ DueFor(o, record[p]) = due /\ due \in Nat
  BY <1>1, <1>2, DueIsRefundDue DEF ShortInv, TaskSells
<1>4. /\ requested[p] \in Nat /\ owed[p] \in Nat /\ returned[p] \in Nat
      /\ Amount[p] \in Nat /\ owed[p] + returned[p] <= requested[p]
  BY <1>2, MoneyType DEF ShortInv, MoneyAsked
<1>5. requested'[p] >= due \/ requested'[p] + due > Amount[p]
  <2>1. CASE RefundShort /\ due = 0
    BY <1>2, <2>1
  <2>2. CASE RefundShort /\ due # 0
    <3>1. requested' = [requested EXCEPT ![p] = @ + due]
      BY <2>2 DEF RefundShort, Ask
    <3>2. requested'[p] = requested[p] + due
      BY <1>2, <3>1
    <3> QED BY <1>3, <1>4, <3>2
  <2>3. CASE RefundShortRefused
    <3>1. /\ due > 0 /\ requested' = requested
          /\ ~(returned[p] < Amount[p]) \/ owed[p] + returned[p] + due > Amount[p]
      BY <2>3 DEF RefundShortRefused, Refundable, money
    <3> HIDE DEF due, p, o
    <3> QED BY <1>3, <1>4, <3>1
  <2> QED BY <2>1, <2>2, <2>3
<1> QED BY <1>3, <1>5 DEF AskedFor

(* Without a crash, a worker about to ask goes on to do so. *)
LEMMA AskingEnds ==
  ASSUME TypeInv, [Next]_vars, task.pc = "refund", task' # task, faults' = 0
  PROVE  RefundShort \/ RefundShortRefused
<1> USE DEF TypeInv, TypeOK
<1>1. ASSUME NEW o \in Order, \/ SkipSale(o) \/ Sell(o) \/ SellThrows(o) \/ PutBack(o)
                              \/ PutBackThrows(o) \/ NothingToPutBack(o)
      PROVE  FALSE
  BY <1>1 DEF SkipSale, Sell, SellThrows, PutBack, PutBackThrows, NothingToPutBack,
              CanRunSale, CanRunRestock
<1>2. ASSUME NEW p \in Payment, \/ \E amount \in 1..Amount[p] : RequestRefund(p, amount)
                                \/ RefuseRefund(p) \/ CompleteRefund(p)
                                \/ CompleteRefundAndDie(p)
      PROVE  FALSE
  BY <1>2 DEF RequestRefund, RefuseRefund, CompleteRefund, CompleteRefundAndDie
<1>3. ASSUME NEW o \in Order, QueueSale(o) PROVE FALSE
  BY <1>3 DEF QueueSale
<1>4. ASSUME RecordStock \/ Crash \/ UNCHANGED vars PROVE FALSE
  BY <1>4 DEF RecordStock, Crash, vars
<1> QED BY <1>1, <1>2, <1>3, <1>4 DEF Next, WorkerStep

LEMMA FaultsGrow ==
  ASSUME TypeInv, [Next]_vars
  PROVE  faults' = faults \/ faults' = faults + 1
  BY DEF Next, WorkerStep, RequestRefund, RefuseRefund, CompleteRefund,
         CompleteRefundAndDie, QueueSale, SkipSale, Sell, SellThrows, PutBack,
         PutBackThrows, NothingToPutBack, RecordStock, RefundShort,
         RefundShortRefused, Crash, vars

LEMMA AskedOrAskingStep ==
  ASSUME TypeInv, TypeInv', BackInv, ShortInv, [Next]_vars
  PROVE  AskedOrAsking'
<1> SUFFICES ASSUME faults' = 0, NEW o \in Order, record'[Payer[o]] # None
             PROVE  \/ AskedFor(requested', o, record'[Payer[o]])
                    \/ task'.pc = "refund" /\ task'.order = o
  BY DEF AskedOrAsking
<1> DEFINE p == Payer[o]
<1>1. p \in Payment /\ OrderOf[p] = o /\ faults = 0
  BY PayerType, FaultsGrow DEF TypeInv, TypeOK
<1>2. CASE record'[p] = record[p]
  <2>1. PartOf(record[p], o)
    BY <1>1, <1>2 DEF TypeInv, BackInv, RecordsTrue
  <2>2. CASE AskedFor(requested, o, record[p])
    BY <1>2, <2>1, <2>2, AskedStays DEF ShortInv
  <2>3. CASE task.pc = "refund" /\ task.order = o
    <3>1. CASE task' = task
      BY <2>3, <3>1
    <3>2. CASE task' # task
      BY <1>2, <2>3, <3>2, AskingEnds, RefundShortAsks
    <3> QED BY <3>1, <3>2
  <2> QED BY <1>1, <1>2, <2>2, <2>3 DEF ShortInv, AskedOrAsking
<1>3. CASE record'[p] # record[p]
  <2>1. RecordStock /\ task.pc = "record" /\ task.order \in Order
    BY <1>3, RecordStep DEF RecordStock, TypeInv
  <2>2. p = Payer[task.order] /\ record'[p] = task.applied
    BY <1>1, <1>3, <2>1, RecordStep DEF TypeInv, TypeOK
  <2>3. task.order = o
    BY <1>1, <2>1, <2>2, PayerType
  <2>4. CASE task.applied = Quantity[o]
    <3>1. DueFor(o, record'[p]) = 0
      BY <2>1, <2>2, <2>3, <2>4, NothingDue DEF ShortInv, TaskSells
    <3>2. requested'[p] \in Nat
      BY <1>1 DEF TypeInv, TypeOK
    <3> QED BY <3>1, <3>2 DEF AskedFor
  <2>5. CASE task.applied # Quantity[o]
    BY <2>1, <2>3, <2>5 DEF RecordStock, TypeInv, TypeOK, Task
  <2> QED BY <2>4, <2>5
<1> QED BY <1>2, <1>3

(* Without crashes, an order that did not get all of its units had their price
   asked back by the time its SALE job is over, also when attempts of the job
   failed after the stores answered. *)
THEOREM ShortIsAsked == Spec => []ShortIsRefunded
<1>1. Init => BackInv /\ ShortInv
  BY IdleType, PayerType DEF Init, BackInv, RecordsTrue, TaskTrue, RestockDue,
     BackOnlyIfRefunded, ShortInv, MoneyAsked, TaskSells, AskedOrAsking
<1>2. TypeInv /\ BackInv /\ [Next]_vars => BackInv'
  BY RecordsTrueStep, TaskTrueStep, RestockDueStep, BackStep DEF BackInv
<1>3. TypeInv /\ TypeInv' /\ BackInv /\ ShortInv /\ [Next]_vars => ShortInv'
  BY MoneyStep, TaskSellsStep, AskedOrAskingStep DEF ShortInv
<1>4. ShortInv => ShortIsRefunded
  <2> SUFFICES ASSUME ShortInv, NEW o \in Order, sale[o].state = "done", faults = 0,
                      record[Payer[o]] # None
               PROVE  AskedFor(requested, o, record[Payer[o]])
    BY DEF ShortIsRefunded, Missing, AskedFor, DueFor, ShortOf
  <2> QED BY DEF ShortInv, AskedOrAsking, TaskSells
<1> QED BY <1>1, <1>2, <1>3, <1>4, TypeInit, TypeStep, PTL DEF Spec
=============================================================================
