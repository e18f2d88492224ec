---------------------------- MODULE RefundsProofs ----------------------------
(***************************************************************************)
(* Proofs about Refunds, for any set of payments, any number of refund     *)
(* rows and of webhooks in flight, any amounts and any number of faults.   *)
(***************************************************************************)
EXTENDS Refunds, FiniteSetTheorems, WellFoundedInduction, TLAPS

-----------------------------------------------------------------------------
(* The totals of refund rows.  SumFunction is defined by a recursion on the
   subsets of its domain; an induction over them is taken as a minimal
   counterexample, so that no induction theorem with an operator parameter is
   needed. *)

(***************************************************************************)
(* A nonempty set of subsets of a finite set has an inclusion-minimal one. *)
(***************************************************************************)
LEMMA SubsetMinimum ==
  ASSUME NEW S, IsFiniteSet(S), NEW B, B \subseteq SUBSET S, B # {}
  PROVE  \E T \in B : \A U \in SUBSET T : U # T => U \notin B
<1>1. PICK T \in B : \A U \in B : ~ (<<U, T>> \in StrictSubsetOrdering(S))
  BY FS_StrictSubsetOrderingWellFounded, FS_FiniteSubsetsOfFinite, WFMin
<1> QED BY <1>1 DEF StrictSubsetOrdering

(* One element of a set; the total of f over T, from that over smaller sets. *)
Some(T) == CHOOSE x \in T : TRUE

Adds(s, f, T) == IF T = {} THEN 0 ELSE f[Some(T)] + s[T \ {Some(T)}]

IsSumTable(s, f, S) ==
  s = [T \in SUBSET S |-> s[T]] /\ \A T \in SUBSET S : s[T] = Adds(s, f, T)

(***************************************************************************)
(* Every function has such a table.  One is filled in as far as it can be: *)
(* the smallest subset left out could be added.                            *)
(***************************************************************************)
LEMMA SumTableExists ==
  ASSUME NEW S, IsFiniteSet(S), NEW f
  PROVE  \E s : IsSumTable(s, f, S)
<1> DEFINE Filled(s, D) == \A T \in D : /\ s[T] = Adds(s, f, T)
                                        /\ T # {} => T \ {Some(T)} \in D
           Left == {E \in SUBSET SUBSET S : \E s : Filled(s, (SUBSET S) \ E)}
<1>1. IsFiniteSet(SUBSET S) /\ SUBSET S \in Left
  BY FS_SUBSET
<1>2. PICK E \in Left : \A F \in SUBSET E : F # E => F \notin Left
  <2>1. Left \subseteq SUBSET SUBSET S /\ Left # {}
    BY <1>1
  <2> HIDE DEF Left
  <2> QED BY <1>1, <2>1, SubsetMinimum
<1> DEFINE D == (SUBSET S) \ E
<1>3. PICK s : Filled(s, D)
  BY <1>2
<1>4. ASSUME E # {} PROVE FALSE
  <2>1. PICK T \in E : \A U \in SUBSET T : U # T => U \notin E
    <3>1. E \subseteq SUBSET S
      BY <1>2
    <3> QED BY <1>4, <3>1, SubsetMinimum
  <2> DEFINE t == [U \in SUBSET S |-> IF U = T THEN Adds(s, f, T) ELSE s[U]]
  <2>2. T \in SUBSET S /\ (T # {} => Some(T) \in T /\ T \ {Some(T)} \in D)
    BY <1>2, <2>1 DEF Some
  <2>3. t[T] = Adds(t, f, T)
    BY <2>2 DEF Adds
  <2>4. ASSUME NEW U \in D PROVE t[U] = Adds(t, f, U) /\ (U # {} => U \ {Some(U)} \in D)
    BY <1>3, <2>1 DEF Adds
  <2>5. Filled(t, (SUBSET S) \ (E \ {T}))
    <3> HIDE DEF t
    <3> QED BY <2>2, <2>3, <2>4
  <2> HIDE DEF t, Filled
  <2>6. E \ {T} \in SUBSET E /\ E \ {T} # E /\ E \ {T} \in Left
    BY <1>2, <2>5
  <2> QED BY <1>2, <2>6
<1> DEFINE t == [T \in SUBSET S |-> s[T]]
<1>5. ASSUME NEW T \in SUBSET S PROVE t[T] = Adds(t, f, T)
  <2>1. t[T] = Adds(s, f, T) /\ T \ {Some(T)} \in SUBSET S
    BY <1>3, <1>4
  <2> QED BY <2>1 DEF Adds
<1>6. t = [T \in SUBSET S |-> t[T]]
  OBVIOUS
<1> HIDE DEF t
<1> QED BY <1>5, <1>6 DEF IsSumTable

(***************************************************************************)
(* SumFunction reads such a table at the whole domain.                     *)
(***************************************************************************)
LEMMA SumFunctionTable ==
  ASSUME NEW f, IsFiniteSet(DOMAIN f)
  PROVE  \E s : IsSumTable(s, f, DOMAIN f) /\ SumFunction(f) = s[DOMAIN f]
<1> DEFINE S == DOMAIN f
           It(g) == [T \in SUBSET S |-> Adds(g, f, T)]
           it == CHOOSE g : g = It(g)
<1>1. it = It(it)
  BY SumTableExists DEF IsSumTable
<1>2. SumFunction(f) = it[S]
  BY DEF SumFunction, SumFunctionOnSet, FoldFunctionOnSet, MapThenFoldSet, Adds, Some
<1> HIDE DEF it
<1>3. IsSumTable(it, f, S)
  BY <1>1 DEF IsSumTable
<1> QED BY <1>2, <1>3

(***************************************************************************)
(* Two functions that differ at x only.                                    *)
(***************************************************************************)
LEMMA SumTables ==
  ASSUME NEW S, IsFiniteSet(S), NEW f \in [S -> Int], NEW g \in [S -> Int],
         NEW x, \A y \in S : y # x => g[y] = f[y],
         NEW s, NEW t, IsSumTable(s, f, S), IsSumTable(t, g, S), NEW T \in SUBSET S
  PROVE  /\ s[T] \in Int
         /\ t[T] = s[T] + (IF x \in T THEN g[x] - f[x] ELSE 0)
         /\ (\A y \in T : f[y] >= 0) => s[T] >= 0
         /\ (\A y \in T : f[y] = 0) => s[T] = 0
<1> DEFINE P(X) == /\ s[X] \in Int
                   /\ t[X] = s[X] + (IF x \in X THEN g[x] - f[x] ELSE 0)
                   /\ (\A y \in X : f[y] >= 0) => s[X] >= 0
                   /\ (\A y \in X : f[y] = 0) => s[X] = 0
           Bad == {X \in SUBSET S : ~ P(X)}
<1>1. SUFFICES ASSUME Bad # {} PROVE FALSE
  OBVIOUS
<1>2. PICK X \in Bad : \A U \in SUBSET X : U # X => U \notin Bad
  <2>1. Bad \subseteq SUBSET S
    OBVIOUS
  <2> HIDE DEF Bad
  <2> QED BY <1>1, <2>1, SubsetMinimum
<1> DEFINE c == Some(X)
           U == X \ {c}
<1>3. s[X] = Adds(s, f, X) /\ t[X] = Adds(t, g, X)
  BY <1>2 DEF IsSumTable
<1>4. CASE X = {}
  BY <1>2, <1>3, <1>4 DEF Adds
<1>5. CASE X # {}
  <2>1. c \in X /\ c \in S
    BY <1>2, <1>5 DEF Some
  <2>2. P(U)
    BY <1>2, <2>1
  <2>3. s[X] = f[c] + s[U] /\ t[X] = g[c] + t[U]
    BY <1>3, <1>5 DEF Adds
  <2>4. f[c] \in Int /\ g[c] \in Int /\ (c # x => g[c] = f[c])
    BY <2>1
  <2>5. /\ \A y \in U : y \in X
        /\ x \in X <=> x = c \/ x \in U
        /\ c \notin U
    BY <2>1
  <2> HIDE DEF c, U
  <2>6. P(X)
    <3>1. s[X] \in Int
      BY <2>2, <2>3, <2>4
    <3>2. t[X] = s[X] + (IF x \in X THEN g[x] - f[x] ELSE 0)
      <4>1. CASE x = c
        BY <2>2, <2>3, <2>4, <2>5, <4>1
      <4>2. CASE x # c
        <5>1. (IF x \in U THEN g[x] - f[x] ELSE 0) \in Int
          <6>1. x \in U => x \in S
            BY <1>2, <2>5
          <6> QED BY <6>1
        <5> QED BY <2>2, <2>3, <2>4, <2>5, <4>2, <5>1
      <4> QED BY <4>1, <4>2
    <3>3. (\A y \in X : f[y] >= 0) => s[X] >= 0
      BY <2>1, <2>2, <2>3, <2>4, <2>5
    <3>4. (\A y \in X : f[y] = 0) => s[X] = 0
      BY <2>1, <2>2, <2>3, <2>4, <2>5
    <3> QED BY <3>1, <3>2, <3>3, <3>4
  <2> QED BY <1>2, <2>6
<1> QED BY <1>4, <1>5

(***************************************************************************)
(* What one row changing its amount or status does to an aggregate.         *)
(***************************************************************************)
LEMMA SumUpdate ==
  ASSUME NEW S, IsFiniteSet(S), NEW f \in [S -> Int], NEW g \in [S -> Int],
         NEW x \in S, \A y \in S : y # x => g[y] = f[y]
  PROVE  /\ SumFunction(f) \in Int
         /\ SumFunction(g) = SumFunction(f) + g[x] - f[x]
<1>1. PICK s : IsSumTable(s, f, S) /\ SumFunction(f) = s[S]
  BY SumFunctionTable
<1>2. PICK t : IsSumTable(t, g, S) /\ SumFunction(g) = t[S]
  BY SumFunctionTable
<1>3. s[S] \in Int /\ t[S] = s[S] + (IF x \in S THEN g[x] - f[x] ELSE 0)
  BY <1>1, <1>2, SumTables
<1> QED BY <1>1, <1>2, <1>3

(***************************************************************************)
(* A function that is below another everywhere has the smaller total, and  *)
(* a total of naturals is a natural.                                       *)
(***************************************************************************)
LEMMA SumMonotone ==
  ASSUME NEW S, IsFiniteSet(S), NEW f \in [S -> Nat], NEW g \in [S -> Nat],
         \A y \in S : f[y] <= g[y]
  PROVE  /\ SumFunction(f) \in Nat
         /\ SumFunction(g) \in Nat
         /\ SumFunction(f) <= SumFunction(g)
<1>0. /\ f \in [S -> Int] /\ g \in [S -> Int]
      /\ \A y \in S : f[y] >= 0 /\ g[y] >= 0
  OBVIOUS
<1>1. PICK s : IsSumTable(s, f, S) /\ SumFunction(f) = s[S]
  BY SumFunctionTable
<1>2. PICK t : IsSumTable(t, g, S) /\ SumFunction(g) = t[S]
  BY SumFunctionTable
<1> DEFINE Bad == {T \in SUBSET S : ~ (s[T] <= t[T])}
<1>3. SUFFICES ASSUME Bad # {} PROVE FALSE
  <2>1. \A T \in SUBSET S : s[T] \in Int /\ t[T] \in Int
    BY <1>0, <1>1, <1>2, SumTables
  <2>2. s[S] >= 0 /\ t[S] >= 0
    BY <1>0, <1>1, <1>2, SumTables
  <2> QED BY <1>1, <1>2, <2>1, <2>2
<1>4. PICK T \in Bad : \A U \in SUBSET T : U # T => U \notin Bad
  <2>1. Bad \subseteq SUBSET S
    OBVIOUS
  <2> HIDE DEF Bad
  <2> QED BY <1>3, <2>1, SubsetMinimum
<1> DEFINE c == Some(T)
           U == T \ {c}
<1>5. s[T] = Adds(s, f, T) /\ t[T] = Adds(t, g, T)
  BY <1>1, <1>2, <1>4 DEF IsSumTable
<1>6. T # {}
  BY <1>4, <1>5 DEF Adds
<1>7. c \in T /\ c \in S
  BY <1>4, <1>6 DEF Some
<1>8. s[U] <= t[U] /\ U \in SUBSET S
  BY <1>4, <1>7
<1>9. s[U] \in Int /\ t[U] \in Int /\ f[c] \in Int /\ g[c] \in Int /\ f[c] <= g[c]
  BY <1>0, <1>1, <1>2, <1>7, <1>8, SumTables
<1>10. s[T] = f[c] + s[U] /\ t[T] = g[c] + t[U]
  BY <1>5, <1>6 DEF Adds
<1> HIDE DEF c, U
<1> QED BY <1>4, <1>8, <1>9, <1>10

LEMMA SumZero ==
  ASSUME NEW S, IsFiniteSet(S)
  PROVE  SumFunction([y \in S |-> 0]) = 0
<1> DEFINE f == [y \in S |-> 0]
<1>1. f \in [S -> Int] /\ \A y \in S : f[y] = 0
  OBVIOUS
<1> HIDE DEF f
<1>2. PICK s : IsSumTable(s, f, S) /\ SumFunction(f) = s[S]
  BY <1>1, SumFunctionTable
<1>3. s[S] = 0
  BY <1>1, <1>2, SumTables
<1> QED BY <1>2, <1>3 DEF f


-----------------------------------------------------------------------------
(* afterRefundCompleted is under way. *)
After == {"sum", "payment", "order", "restock"}

(* A row that was not created has no job and was granted nothing; the others name
   a payment and an amount. *)
RowsOK == \A r \in Refund :
  /\ refund[r].status = "NONE" =>
       /\ refund[r].payment = None
       /\ granted[r] = 0
       /\ job[r] = "none"
       /\ r \notin opening
  /\ refund[r].status # "NONE" => refund[r].payment \in Payment /\ refund[r].amount > 0

(* A webhook is never ahead of the provider's books, and the row the worker
   executes is the one it believes to be executing. *)
HooksOK == \A h \in Hook :
  /\ task[h].pc \in {"idle", "record"} \cup After
  /\ task[h].pc # "idle" => task[h].payment \in Payment
  /\ task[h].pc = "record" => task[h].seen <= accepted[task[h].payment]

WorkerOK ==
  LET w == task[Worker] IN
  /\ w.pc # "record"
  /\ w.pc # "idle" => /\ w.refund \in Refund
                      /\ w.payment \in Payment
                      /\ refund[w.refund].payment = w.payment
  /\ w.pc \in {"provider", "answered"} => refund[w.refund].status = "PROCESSING"
  /\ w.pc = "answered" => granted[w.refund] > 0
  /\ w.pc \in After => refund[w.refund].status = "COMPLETED"

(* Only accepted money moves. *)
BooksOK == \A p \in Payment : given[p] <= accepted[p]

Inv1 == TypeOK /\ RowsOK /\ HooksOK /\ WorkerOK /\ BooksOK

(* All of it but the books, which have a lemma of their own. *)
TasksOK == TypeOK /\ RowsOK /\ HooksOK /\ WorkerOK

USE FiniteRefunds, OrderOfType, AmountType, RefundAmountsType, EpsilonType,
    MaxAttemptsType, MaxFaultsType, WorkerNotHook, NoneIsNothing

(***************************************************************************)
(* The two aggregates are sums of naturals, and follow the one row that    *)
(* changes.                                                                *)
(***************************************************************************)
LEMMA PortionSum ==
  ASSUME NEW rows \in [Refund -> RefundRow], NEW p, NEW S
  PROVE  /\ Portion(rows, p, S) \in [Refund -> Nat]
         /\ SumFunction(Portion(rows, p, S)) \in Nat
<1>1. Portion(rows, p, S) \in [Refund -> Nat]
  BY DEF Portion, RefundRow
<1> QED BY <1>1, SumMonotone

LEMMA PortionUpdate ==
  ASSUME NEW rows \in [Refund -> RefundRow], NEW rows2 \in [Refund -> RefundRow],
         NEW x \in Refund, \A r \in Refund : r # x => rows2[r] = rows[r],
         NEW p, NEW S
  PROVE  SumFunction(Portion(rows2, p, S)) =
           SumFunction(Portion(rows, p, S)) + Portion(rows2, p, S)[x]
                                            - Portion(rows, p, S)[x]
<1> DEFINE f == Portion(rows, p, S)
           g == Portion(rows2, p, S)
<1>1. f \in [Refund -> Int] /\ g \in [Refund -> Int]
  BY DEF Portion, RefundRow
<1>2. \A r \in Refund : r # x => g[r] = f[r]
  BY DEF Portion
<1> HIDE DEF f, g
<1>3. SumFunction(g) = SumFunction(f) + g[x] - f[x]
  BY <1>1, <1>2, SumUpdate
<1> QED BY <1>3 DEF f, g

LEMMA PortionWithin ==
  ASSUME NEW rows \in [Refund -> RefundRow], NEW p
  PROVE  SumFunction(Portion(rows, p, {"COMPLETED"})) <=
           SumFunction(Portion(rows, p, OpenOrDone))
<1> DEFINE f == Portion(rows, p, {"COMPLETED"})
           g == Portion(rows, p, OpenOrDone)
<1>1. f \in [Refund -> Nat] /\ g \in [Refund -> Nat]
  BY PortionSum
<1>2. \A r \in Refund : f[r] <= g[r]
  BY DEF Portion, OpenOrDone, RefundRow
<1> HIDE DEF f, g
<1>3. SumFunction(f) <= SumFunction(g)
  BY <1>1, <1>2, SumMonotone
<1> QED BY <1>3 DEF f, g

LEMMA ReturnedWithinClaimed ==
  ASSUME TypeOK, NEW p
  PROVE  Returned(p) \in Nat /\ Claimed(p) \in Nat /\ Returned(p) <= Claimed(p)
BY PortionSum, PortionWithin DEF TypeOK, Returned, Claimed

-----------------------------------------------------------------------------
(***************************************************************************)
(* What the updates shared by several actions do to each variable.         *)
(***************************************************************************)
LEMMA SetIdle ==
  ASSUME NEW tasks \in [Task -> TaskState], NEW t \in Task,
         NEW tasks2, tasks2 = [tasks EXCEPT ![t] = Idle]
  PROVE  /\ tasks2 \in [Task -> TaskState]
         /\ \A u \in Task : u # t => tasks2[u] = tasks[u]
         /\ tasks2[t] = Idle
         /\ tasks2[t].pc = "idle"
<1>1. Idle \in TaskState
  BY DEF Idle, TaskState, Pc
<1>2. Idle.pc = "idle"
  BY DEF Idle
<1> QED BY <1>1, <1>2

LEMMA WorkerIdles ==
  ASSUME TypeOK, task' = [task EXCEPT ![Worker] = Idle]
  PROVE  /\ task' \in [Task -> TaskState]
         /\ \A u \in Task : u # Worker => task'[u] = task[u]
         /\ task'[Worker].pc = "idle"
BY SetIdle DEF TypeOK, Task

LEMMA ProviderStep ==
  ASSUME TypeOK, NEW r \in Refund, NEW p \in Payment, ProviderTakes(r, p)
  PROVE  /\ accepted' \in [Payment -> Nat]
         /\ granted' \in [Refund -> Nat]
         /\ \A q \in Payment : accepted[q] <= accepted'[q]
         /\ \A q \in Refund : q # r => granted'[q] = granted[q]
         /\ granted'[r] > 0
         /\ \/ granted[r] > 0
            \/ accepted'[p] = accepted[p] + refund[r].amount
<1>1. refund[r].amount \in Nat
  BY DEF TypeOK, RefundRow
<1>2. CASE p \in MercadoPago /\ granted[r] > 0
  BY <1>2 DEF ProviderTakes, TypeOK
<1>3. CASE ~(p \in MercadoPago /\ granted[r] > 0)
  BY <1>1, <1>3 DEF ProviderTakes, TypeOK
<1> QED BY <1>2, <1>3

LEMMA AttemptStep ==
  ASSUME TypeOK, NEW r \in Refund, AttemptFails(r)
  PROVE  /\ refund' \in [Refund -> RefundRow]
         /\ job' \in [Refund -> JobState]
         /\ made' \in [Refund -> Nat]
         /\ task' \in [Task -> TaskState]
         /\ \A q \in Refund : q # r => refund'[q] = refund[q] /\ job'[q] = job[q]
         /\ \/ refund'[r] = refund[r]
            \/ /\ refund[r].status # "COMPLETED"
               /\ refund'[r].status = "FAILED"
         /\ refund'[r].payment = refund[r].payment
         /\ refund'[r].amount = refund[r].amount
         /\ \A u \in Task : u # Worker => task'[u] = task[u]
         /\ task'[Worker].pc = "idle"
<1>1. task' = [task EXCEPT ![Worker] = Idle]
  BY DEF AttemptFails
<1>2. /\ task' \in [Task -> TaskState]
      /\ \A u \in Task : u # Worker => task'[u] = task[u]
      /\ task'[Worker].pc = "idle"
  BY <1>1, SetIdle DEF TypeOK, Task
<1>3. job' \in [Refund -> JobState] /\ \A q \in Refund : q # r => job'[q] = job[q]
  BY DEF AttemptFails, TypeOK, JobState
<1>4. made' \in [Refund -> Nat]
  BY DEF AttemptFails, TypeOK
<1>5. refund' = refund \/ (refund[r].status # "COMPLETED"
                            /\ refund' = [refund EXCEPT ![r].status = "FAILED"])
  BY DEF AttemptFails, FailRefund
<1>6. /\ refund' \in [Refund -> RefundRow]
      /\ \A q \in Refund : q # r => refund'[q] = refund[q]
      /\ \/ refund'[r] = refund[r]
         \/ refund[r].status # "COMPLETED" /\ refund'[r].status = "FAILED"
      /\ refund'[r].payment = refund[r].payment
      /\ refund'[r].amount = refund[r].amount
  <2>1. CASE refund' = refund
    BY <2>1 DEF TypeOK
  <2>2. CASE refund[r].status # "COMPLETED" /\ refund' = [refund EXCEPT ![r].status = "FAILED"]
    <3>1. refund' = [refund EXCEPT ![r].status = "FAILED"] /\ refund \in [Refund -> RefundRow]
      BY <2>2 DEF TypeOK
    <3>2. /\ refund' \in [Refund -> RefundRow]
          /\ \A q \in Refund : q # r => refund'[q] = refund[q]
          /\ refund'[r].status = "FAILED"
          /\ refund'[r].payment = refund[r].payment
          /\ refund'[r].amount = refund[r].amount
      BY <3>1 DEF RefundRow, RefundStatus
    <3> QED BY <2>2, <3>2
  <2> QED BY <1>5, <2>1, <2>2
<1> QED BY <1>2, <1>3, <1>4, <1>6

-----------------------------------------------------------------------------
LEMMA FinishStep ==
  ASSUME TypeOK, NEW t \in Task, Finish(t),
         t = Worker => /\ task[t].refund \in Refund
                       /\ refund[task[t].refund].status = "COMPLETED"
  PROVE  /\ task' \in [Task -> TaskState]
         /\ \A u \in Task : u # t => task'[u] = task[u]
         /\ task'[t].pc = "idle"
         /\ job' \in [Refund -> JobState]
         /\ \A q \in Refund : refund[q].status = "NONE" => job'[q] = job[q]
         /\ untold' \subseteq Payment
<1>1. task' = [task EXCEPT ![t] = Idle]
  BY DEF Finish
<1>2. job' = IF t = Worker THEN [job EXCEPT ![task[t].refund] = "done"] ELSE job
  BY DEF Finish
<1>3. /\ task' \in [Task -> TaskState]
      /\ \A u \in Task : u # t => task'[u] = task[u]
      /\ task'[t].pc = "idle"
  BY <1>1, SetIdle DEF TypeOK
<1>4. /\ job' \in [Refund -> JobState]
      /\ \A q \in Refund : refund[q].status = "NONE" => job'[q] = job[q]
  BY <1>2 DEF TypeOK, JobState
<1>5. untold' \subseteq Payment
  BY DEF Finish, Answers, TypeOK
<1> QED BY <1>3, <1>4, <1>5

LEMMA InitInv1 == Init => Inv1
BY DEF Init, Inv1, TypeOK, RowsOK, HooksOK, WorkerOK, BooksOK, NoRow, Idle, RefundRow,
       TaskState, Pc, JobState, Task, PaymentStatus, OrderStatus, After

LEMMA NextTasksOK == Inv1 /\ [Next]_vars => TasksOK'
<1> SUFFICES ASSUME Inv1, [Next]_vars PROVE TasksOK'
  OBVIOUS
<1> USE DEF Inv1, TasksOK, Idle
<1>1. ASSUME NEW p \in Payment, NEW a \in RefundAmounts, RequestRefund(p, a) PROVE TasksOK'
  <2>0. PICK r \in Free :
          /\ refund' = [refund EXCEPT ![r] = [status |-> "PENDING", payment |-> p,
                                              amount |-> a]]
          /\ opening' = opening \cup {r}
    BY <1>1 DEF RequestRefund
  <2>00. /\ refund[r].status = "NONE" /\ r \in Refund
         /\ a \in Nat /\ a > 0
         /\ job[r] = "none" /\ granted[r] = 0
    <3>1. r \in Refund /\ refund[r].status = "NONE"
      BY DEF Free
    <3>2. job[r] = "none" /\ granted[r] = 0
      BY <3>1 DEF RowsOK
    <3>3. a \in Nat \ {0}
      BY RefundAmountsType
    <3>4. a \in Nat /\ a > 0
      BY <3>3
    <3> QED BY <3>1, <3>2, <3>4
  <2>000. /\ refund' \in [Refund -> RefundRow]
          /\ \A q \in Refund : q # r => refund'[q] = refund[q]
          /\ refund'[r].payment = p /\ refund'[r].amount = a
          /\ refund'[r].status = "PENDING"
    BY <2>0, <2>00 DEF TypeOK, RefundRow, RefundStatus
  <2> HIDE <2>0
  <2>1. TypeOK'
    BY <1>1, <2>0, <2>00, <2>000 DEF RequestRefund, TypeOK
  <2>2. RowsOK'
    BY <1>1, <2>0, <2>00, <2>000 DEF RequestRefund, RowsOK
  <2>3. HooksOK'
    BY <1>1 DEF RequestRefund, HooksOK
  <2>4. WorkerOK'
    <3>1. task[Worker].pc # "idle" => refund'[task[Worker].refund] = refund[task[Worker].refund]
      BY <2>00, <2>000 DEF WorkerOK, RowsOK
    <3>2. UNCHANGED <<task, granted>>
      BY <1>1 DEF RequestRefund
    <3> QED BY <3>1, <3>2 DEF WorkerOK, After
  <2> QED BY <2>1, <2>2, <2>3, <2>4
<1>2. ASSUME NEW p \in Payment, NEW a \in RefundAmounts, StoreRefunds(p, a) PROVE TasksOK'
  <2>1. TypeOK'
    BY <1>2 DEF StoreRefunds, TypeOK, RefundRow, TaskState, Pc, JobState, Task, PaymentStatus, OrderStatus, RefundRow, RefundStatus
  <2>2. RowsOK'
    BY <1>2 DEF StoreRefunds, RowsOK, TypeOK, RefundRow, Task, TaskState
  <2>3. HooksOK'
    BY <1>2 DEF StoreRefunds, HooksOK, TypeOK, Task, TaskState, After
  <2>4. WorkerOK'
    BY <1>2 DEF StoreRefunds, WorkerOK, TypeOK, RefundRow, Task, TaskState, After
  <2> QED BY <2>1, <2>2, <2>3, <2>4
<1>3. ASSUME NEW r \in Refund, QueueRefund(r) PROVE TasksOK'
  <2>1. TypeOK'
    BY <1>3 DEF QueueRefund, TypeOK, RefundRow, TaskState, Pc, JobState, Task, PaymentStatus, OrderStatus, RefundRow, RefundStatus
  <2>2. RowsOK'
    BY <1>3 DEF QueueRefund, RowsOK, TypeOK, RefundRow, Task, TaskState
  <2>3. HooksOK'
    BY <1>3 DEF QueueRefund, HooksOK, TypeOK, Task, TaskState, After
  <2>4. WorkerOK'
    BY <1>3 DEF QueueRefund, WorkerOK, TypeOK, RefundRow, Task, TaskState, After
  <2> QED BY <2>1, <2>2, <2>3, <2>4
<1>4. ASSUME NEW r \in Refund, StartRefund(r) PROVE TasksOK'
  <2> DEFINE w2 == [Idle EXCEPT !.pc = "provider", !.refund = r,
                                !.payment = refund[r].payment]
  <2>0. refund[r].payment \in Payment /\ refund[r].status # "NONE"
    BY <1>4 DEF StartRefund, StillOpen, Executable, RowsOK
  <2>00. /\ refund' \in [Refund -> RefundRow]
         /\ \A q \in Refund : q # r => refund'[q] = refund[q]
         /\ refund'[r].status = "PROCESSING"
         /\ refund'[r].payment = refund[r].payment
         /\ refund'[r].amount = refund[r].amount
    BY <1>4 DEF StartRefund, TypeOK, RefundRow, RefundStatus
  <2>000. w2 \in TaskState /\ w2.pc = "provider" /\ w2.refund = r
            /\ w2.payment = refund[r].payment
    BY <2>0 DEF TaskState, Pc, Idle
  <2>0000. /\ task' \in [Task -> TaskState]
           /\ task'[Worker] = w2
           /\ \A u \in Task : u # Worker => task'[u] = task[u]
    BY <1>4, <2>000 DEF StartRefund, TypeOK, Task
  <2> HIDE DEF w2
  <2>1. TypeOK'
    BY <1>4, <2>00, <2>0000 DEF StartRefund, TypeOK, JobState
  <2>2. RowsOK'
    BY <1>4, <2>0, <2>00 DEF StartRefund, RowsOK, TypeOK
  <2>3. HooksOK'
    BY <1>4, <2>0000 DEF StartRefund, HooksOK, Task
  <2>4. WorkerOK'
    BY <2>0, <2>00, <2>000, <2>0000 DEF WorkerOK, After
  <2> QED BY <2>1, <2>2, <2>3, <2>4
<1>5. ASSUME NEW r \in Refund, SkipRefund(r) PROVE TasksOK'
  <2>1. TypeOK'
    BY <1>5 DEF SkipRefund, TypeOK, RefundRow, TaskState, Pc, JobState, Task, PaymentStatus, OrderStatus, RefundRow, RefundStatus
  <2>2. RowsOK'
    BY <1>5 DEF SkipRefund, RowsOK, TypeOK, RefundRow, Task, TaskState
  <2>3. HooksOK'
    BY <1>5 DEF SkipRefund, HooksOK, TypeOK, Task, TaskState, After
  <2>4. WorkerOK'
    BY <1>5 DEF SkipRefund, WorkerOK, TypeOK, RefundRow, Task, TaskState, After
  <2> QED BY <2>1, <2>2, <2>3, <2>4
<1>6. ASSUME RefundApproved PROVE TasksOK'
  <2> DEFINE r == task[Worker].refund
             p == task[Worker].payment
  <2>0. /\ r \in Refund /\ p \in Payment /\ refund[r].payment = p
        /\ refund[r].status # "NONE" /\ Worker \in Task
    BY <1>6 DEF RefundApproved, WorkerOK, After, Task
  <2>00. /\ accepted' \in [Payment -> Nat]
         /\ granted' \in [Refund -> Nat]
         /\ \A q \in Payment : accepted[q] <= accepted'[q]
         /\ \A q \in Refund : q # r => granted'[q] = granted[q]
         /\ granted'[r] > 0
    BY <1>6, <2>0, ProviderStep DEF RefundApproved
  <2>000. /\ task' \in [Task -> TaskState]
          /\ \A u \in Task : u # Worker => task'[u] = task[u]
          /\ task'[Worker].pc = "answered"
          /\ task'[Worker].payment = p /\ task'[Worker].refund = r
    BY <1>6, <2>0 DEF RefundApproved, TypeOK, TaskState, Pc
  <2> HIDE DEF r, p
  <2>1. TypeOK'
    BY <1>6, <2>00, <2>000 DEF RefundApproved, TypeOK
  <2>2. RowsOK'
    BY <1>6, <2>0, <2>00 DEF RefundApproved, RowsOK
  <2>3. HooksOK'
    <3> SUFFICES ASSUME NEW h \in Hook
                 PROVE  /\ task'[h].pc \in {"idle", "record"} \cup After
                        /\ task'[h].pc # "idle" => task'[h].payment \in Payment
                        /\ task'[h].pc = "record" => task'[h].seen <= accepted'[task'[h].payment]
      BY DEF HooksOK
    <3>1. task'[h] = task[h] /\ task[h].seen \in Nat
      BY <2>000 DEF Task, TypeOK, TaskState
    <3>2. task[h].payment \in Payment =>
            accepted[task[h].payment] \in Nat /\ accepted'[task[h].payment] \in Nat
            /\ accepted[task[h].payment] <= accepted'[task[h].payment]
      BY <2>00 DEF TypeOK
    <3> QED BY <3>1, <3>2 DEF HooksOK
  <2>4. WorkerOK'
    BY <1>6, <2>0, <2>00, <2>000 DEF RefundApproved, WorkerOK, After, r, p
  <2> QED BY <2>1, <2>2, <2>3, <2>4
<1>7. ASSUME RefundRefused PROVE TasksOK'
  <2> DEFINE r == task[Worker].refund
             p == task[Worker].payment
  <2>0. /\ r \in Refund /\ p \in Payment /\ refund[r].payment = p
        /\ refund[r].status # "NONE" /\ Worker \in Task
    BY <1>7 DEF RefundRefused, WorkerOK, After, Task
  <2>00. /\ refund' \in [Refund -> RefundRow]
         /\ \A q \in Refund : q # r => refund'[q] = refund[q]
         /\ refund'[r].status = "FAILED"
         /\ refund'[r].payment = p
         /\ refund'[r].amount = refund[r].amount
    BY <1>7, <2>0 DEF RefundRefused, TypeOK, RefundRow, RefundStatus
  <2>000. /\ task' \in [Task -> TaskState]
          /\ \A u \in Task : u # Worker => task'[u] = task[u]
          /\ task'[Worker].pc = "idle"
    <3>1. task' = [task EXCEPT ![Worker] = Idle] /\ task \in [Task -> TaskState]
      BY <1>7 DEF RefundRefused, TypeOK
    <3> QED BY <2>0, <3>1, SetIdle
  <2>1. TypeOK'
    BY <1>7, <2>0, <2>00, <2>000 DEF RefundRefused, TypeOK, JobState
  <2>2. RowsOK'
    <3>1. job' \in [Refund -> JobState] /\ \A q \in Refund : q # r => job'[q] = job[q]
      BY <1>7, <2>0 DEF RefundRefused, TypeOK, JobState
    <3> HIDE DEF r, p
    <3> QED BY <1>7, <2>0, <2>00, <3>1 DEF RefundRefused, RowsOK
  <2>3. HooksOK'
    BY <1>7, <2>000 DEF RefundRefused, HooksOK, Task
  <2>4. WorkerOK'
    BY <2>000 DEF WorkerOK, After
  <2> QED BY <2>1, <2>2, <2>3, <2>4
<1>8. ASSUME RefundCallThrows PROVE TasksOK'
  <2> DEFINE r == task[Worker].refund
             p == task[Worker].payment
  <2>0. /\ r \in Refund /\ p \in Payment /\ refund[r].payment = p
        /\ refund[r].status # "NONE" /\ Worker \in Task
    BY <1>8 DEF RefundCallThrows, WorkerOK, After, Task
  <2>00. /\ refund' \in [Refund -> RefundRow]
         /\ job' \in [Refund -> JobState]
         /\ made' \in [Refund -> Nat]
         /\ task' \in [Task -> TaskState]
         /\ \A q \in Refund : q # r => refund'[q] = refund[q] /\ job'[q] = job[q]
         /\ refund'[r].status # "NONE"
         /\ refund'[r].payment = p
         /\ refund'[r].amount = refund[r].amount
         /\ \A u \in Task : u # Worker => task'[u] = task[u]
         /\ task'[Worker].pc = "idle"
    BY <1>8, <2>0, AttemptStep DEF RefundCallThrows
  <2>000. /\ accepted' \in [Payment -> Nat]
          /\ granted' \in [Refund -> Nat]
          /\ \A q \in Payment : accepted[q] <= accepted'[q]
          /\ \A q \in Refund : q # r => granted'[q] = granted[q]
    <3>1. CASE ProviderTakes(r, p)
      BY <2>0, <3>1, ProviderStep
    <3>2. CASE UNCHANGED <<accepted, granted>>
      BY <3>2 DEF TypeOK
    <3> QED BY <1>8, <3>1, <3>2 DEF RefundCallThrows
  <2> HIDE DEF r, p
  <2>1. TypeOK'
    BY <1>8, <2>00, <2>000 DEF RefundCallThrows, TypeOK
  <2>2. RowsOK'
    BY <1>8, <2>0, <2>00, <2>000 DEF RefundCallThrows, RowsOK
  <2>3. HooksOK'
    <3> SUFFICES ASSUME NEW h \in Hook
                 PROVE  /\ task'[h].pc \in {"idle", "record"} \cup After
                        /\ task'[h].pc # "idle" => task'[h].payment \in Payment
                        /\ task'[h].pc = "record" => task'[h].seen <= accepted'[task'[h].payment]
      BY DEF HooksOK
    <3>1. task'[h] = task[h] /\ task[h].seen \in Nat
      BY <2>00 DEF Task, TypeOK, TaskState
    <3>2. task[h].payment \in Payment =>
            accepted[task[h].payment] \in Nat /\ accepted'[task[h].payment] \in Nat
            /\ accepted[task[h].payment] <= accepted'[task[h].payment]
      BY <2>000 DEF TypeOK
    <3> QED BY <3>1, <3>2 DEF HooksOK
  <2>4. WorkerOK'
    BY <2>00 DEF WorkerOK, After
  <2> QED BY <2>1, <2>2, <2>3, <2>4
<1>9. ASSUME CompleteRefund PROVE TasksOK'
  <2> DEFINE r == task[Worker].refund
             p == task[Worker].payment
  <2>0. /\ r \in Refund /\ p \in Payment /\ refund[r].payment = p
        /\ refund[r].status # "NONE" /\ Worker \in Task
    BY <1>9 DEF CompleteRefund, WorkerOK, After, Task
  <2>00. /\ refund' \in [Refund -> RefundRow]
         /\ \A q \in Refund : q # r => refund'[q] = refund[q]
         /\ refund'[r].status = "COMPLETED"
         /\ refund'[r].payment = p
         /\ refund'[r].amount = refund[r].amount
    <3>1. refund' = [refund EXCEPT ![r].status = "COMPLETED"] /\ refund \in [Refund -> RefundRow]
      BY <1>9 DEF CompleteRefund, TypeOK
    <3> HIDE DEF r, p
    <3> QED BY <2>0, <3>1 DEF RefundRow, RefundStatus
  <2>000. /\ task' \in [Task -> TaskState]
          /\ \A u \in Task : u # Worker => task'[u] = task[u]
          /\ task'[Worker].pc = "sum"
          /\ task'[Worker].payment = p /\ task'[Worker].refund = r
    BY <1>9, <2>0 DEF CompleteRefund, TypeOK, TaskState, Pc
  <2> HIDE DEF r, p
  <2>1. TypeOK'
    BY <1>9, <2>00, <2>000 DEF CompleteRefund, TypeOK
  <2>2. RowsOK'
    <3>1. refund[r].amount > 0
      BY <2>0 DEF RowsOK
    <3>2. UNCHANGED <<job, granted, opening>>
      BY <1>9 DEF CompleteRefund
    <3> QED BY <2>0, <2>00, <3>1, <3>2 DEF RowsOK
  <2>3. HooksOK'
    BY <1>9, <2>000 DEF CompleteRefund, HooksOK, Task
  <2>4. WorkerOK'
    BY <2>0, <2>00, <2>000 DEF WorkerOK, After
  <2> QED BY <2>1, <2>2, <2>3, <2>4
<1>10. ASSUME NEW t \in Task, SumReturned(t) PROVE TasksOK'
  <2>1. TypeOK'
    BY <1>10 DEF SumReturned, TypeOK, RefundRow, TaskState, Pc, JobState, Task, PaymentStatus, OrderStatus, RefundRow, RefundStatus
  <2>2. RowsOK'
    BY <1>10 DEF SumReturned, RowsOK, TypeOK, RefundRow, Task, TaskState
  <2>3. HooksOK'
    BY <1>10 DEF SumReturned, HooksOK, TypeOK, Task, TaskState, After
  <2>4. WorkerOK'
    BY <1>10 DEF SumReturned, WorkerOK, TypeOK, RefundRow, Task, TaskState, After
  <2> QED BY <2>1, <2>2, <2>3, <2>4
<1>11. ASSUME NEW t \in Task, MarkPayment(t) PROVE TasksOK'
  <2>0. /\ task[t].payment \in Payment
        /\ t = Worker => task[t].refund \in Refund
    BY <1>11 DEF MarkPayment, HooksOK, WorkerOK, Task
  <2>1. TypeOK'
    <3>1. payment' \in [Payment -> PaymentStatus]
      BY <1>11 DEF MarkPayment, TypeOK, PaymentStatus
    <3>2. task' \in [Task -> TaskState]
      BY <1>11 DEF MarkPayment, TypeOK, TaskState, Pc
    <3> QED BY <1>11, <3>1, <3>2 DEF MarkPayment, TypeOK
  <2>2. RowsOK'
    BY <1>11, <2>0 DEF MarkPayment, RowsOK, TypeOK, RefundRow, Task, TaskState
  <2>3. HooksOK'
    BY <1>11, <2>0 DEF MarkPayment, HooksOK, TypeOK, Task, TaskState, After
  <2>4. WorkerOK'
    BY <1>11, <2>0 DEF MarkPayment, WorkerOK, TypeOK, RefundRow, Task, TaskState, After
  <2> QED BY <2>1, <2>2, <2>3, <2>4
<1>12. ASSUME NEW t \in Task, MarkRefunded(t) PROVE TasksOK'
  <2>0. /\ task[t].payment \in Payment /\ OrderOf[task[t].payment] \in Order
        /\ t = Worker => /\ task[t].refund \in Refund
                         /\ refund[task[t].refund].status = "COMPLETED"
    BY <1>12 DEF MarkRefunded, HooksOK, WorkerOK, Task, After
  <2>00. CASE task[t].full
    <3>1. /\ task' \in [Task -> TaskState]
          /\ \A u \in Task : u # t => task'[u] = task[u]
          /\ task'[t].pc = "restock"
          /\ task'[t].payment = task[t].payment /\ task'[t].refund = task[t].refund
      BY <1>12, <2>00 DEF MarkRefunded, TypeOK, TaskState, Pc
    <3>2. order' \in [Order -> OrderStatus]
      BY <1>12, <2>00 DEF MarkRefunded, TypeOK, OrderStatus
    <3>3. TypeOK'
      BY <1>12, <2>00, <3>1, <3>2 DEF MarkRefunded, TypeOK
    <3>4. RowsOK'
      BY <1>12, <2>00 DEF MarkRefunded, RowsOK
    <3>5. HooksOK'
      BY <1>12, <2>0, <3>1 DEF MarkRefunded, HooksOK, Task, After
    <3>6. WorkerOK'
      <4>1. CASE t = Worker
        BY <1>12, <2>0, <3>1, <4>1 DEF MarkRefunded, WorkerOK, After
      <4>2. CASE t # Worker
        BY <1>12, <3>1, <4>2 DEF MarkRefunded, WorkerOK, Task
      <4> QED BY <4>1, <4>2
    <3> QED BY <3>3, <3>4, <3>5, <3>6
  <2>01. CASE ~task[t].full
    <3>1. Finish(t) /\ UNCHANGED <<payment, order, refund, opening, made, restock, accepted,
                               given, granted, stalled, faults>>
      BY <1>12, <2>01 DEF MarkRefunded
    <3>2. TypeOK' /\ RowsOK' /\ HooksOK' /\ WorkerOK'
      BY <2>0, <3>1, FinishStep DEF TypeOK, RowsOK, HooksOK, WorkerOK, Task, After
    <3> QED BY <3>2
  <2> QED BY <2>00, <2>01
<1>13. ASSUME NEW t \in Task, QueueRestock(t) PROVE TasksOK'
  <2>0. /\ task[t].payment \in Payment /\ OrderOf[task[t].payment] \in Order
        /\ t = Worker => /\ task[t].refund \in Refund
                         /\ refund[task[t].refund].status = "COMPLETED"
    BY <1>13 DEF QueueRestock, HooksOK, WorkerOK, Task, After
  <2>00. /\ task' \in [Task -> TaskState]
         /\ \A u \in Task : u # t => task'[u] = task[u]
         /\ task'[t].pc = "idle"
         /\ job' \in [Refund -> JobState]
         /\ \A q \in Refund : refund[q].status = "NONE" => job'[q] = job[q]
         /\ untold' \subseteq Payment
    BY <1>13, <2>0, FinishStep DEF QueueRestock
  <2>1. TypeOK'
    BY <1>13, <2>0, <2>00 DEF QueueRestock, TypeOK
  <2>2. RowsOK'
    BY <1>13, <2>00 DEF QueueRestock, RowsOK
  <2>3. HooksOK'
    BY <1>13, <2>00 DEF QueueRestock, HooksOK, Task
  <2>4. WorkerOK'
    BY <1>13, <2>00 DEF QueueRestock, WorkerOK, Task, After
  <2> QED BY <2>1, <2>2, <2>3, <2>4
<1>14. ASSUME NEW o \in Order, RunRestock(o) PROVE TasksOK'
  <2>1. TypeOK'
    BY <1>14 DEF RunRestock, TypeOK, RefundRow, TaskState, Pc, JobState, Task, PaymentStatus, OrderStatus, RefundRow, RefundStatus
  <2>2. RowsOK'
    BY <1>14 DEF RunRestock, RowsOK, TypeOK, RefundRow, Task, TaskState
  <2>3. HooksOK'
    BY <1>14 DEF RunRestock, HooksOK, TypeOK, Task, TaskState, After
  <2>4. WorkerOK'
    BY <1>14 DEF RunRestock, WorkerOK, TypeOK, RefundRow, Task, TaskState, After
  <2> QED BY <2>1, <2>2, <2>3, <2>4
<1>15. ASSUME NEW h \in Hook, NEW p \in Payment, InspectCharge(h, p) PROVE TasksOK'
  <2>1. TypeOK'
    BY <1>15 DEF InspectCharge, TypeOK, RefundRow, TaskState, Pc, JobState, Task, PaymentStatus, OrderStatus, RefundRow, RefundStatus
  <2>2. RowsOK'
    BY <1>15 DEF InspectCharge, RowsOK, TypeOK, RefundRow, Task, TaskState
  <2>3. HooksOK'
    BY <1>15 DEF InspectCharge, HooksOK, BooksOK, TypeOK, Task, TaskState, After
  <2>4. WorkerOK'
    BY <1>15 DEF InspectCharge, WorkerOK, TypeOK, RefundRow, Task, TaskState, After
  <2> QED BY <2>1, <2>2, <2>3, <2>4
<1>16. ASSUME NEW h \in Hook, RecordExternalRefund(h) PROVE TasksOK'
  <2> DEFINE p == task[h].payment
  <2>0. PICK r \in Free : refund' = [refund EXCEPT ![r] = [status |-> "COMPLETED",
                                      payment |-> p, amount |-> Unrecorded(h)]]
    BY <1>16 DEF RecordExternalRefund
  <2>00. /\ refund[r].status = "NONE" /\ r \in Refund /\ job[r] = "none"
         /\ p \in Payment
         /\ Unrecorded(h) \in Nat /\ Unrecorded(h) > 0
    <3>1. r \in Refund /\ refund[r].status = "NONE" /\ job[r] = "none" /\ p \in Payment
      BY <1>16, <2>0 DEF RecordExternalRefund, Free, RowsOK, HooksOK
    <3>2. Claimed(p) \in Nat /\ task[h].seen \in Nat /\ Amount[p] \in Nat
      BY <3>1, ReturnedWithinClaimed DEF TypeOK, Task, TaskState
    <3>3. Unrecorded(h) > Epsilon
      BY <1>16 DEF RecordExternalRefund, HasUnrecorded
    <3> QED BY <3>1, <3>2, <3>3 DEF Unrecorded
  <2>000. /\ refund' \in [Refund -> RefundRow]
          /\ \A q \in Refund : q # r => refund'[q] = refund[q]
          /\ refund'[r].payment = p
          /\ refund'[r].amount > 0
          /\ refund'[r].status = "COMPLETED"
    BY <2>0, <2>00 DEF TypeOK, RefundRow, RefundStatus
  <2>0000. /\ task' \in [Task -> TaskState]
           /\ \A u \in Task : u # h => task'[u] = task[u]
           /\ task'[h].pc = "sum"
           /\ task'[h].payment = p
    BY <1>16 DEF RecordExternalRefund, TypeOK, TaskState, Pc, Task
  <2> HIDE DEF p
  <2>1. TypeOK'
    BY <1>16, <2>000, <2>0000 DEF RecordExternalRefund, TypeOK
  <2>2. RowsOK'
    BY <1>16, <2>00, <2>000 DEF RecordExternalRefund, RowsOK
  <2>3. HooksOK'
    BY <1>16, <2>00, <2>0000 DEF RecordExternalRefund, HooksOK, Task, After
  <2>4. WorkerOK'
    <3>1. task'[Worker] = task[Worker]
      BY <2>0000 DEF Task
    <3>2. task[Worker].pc # "idle" => refund'[task[Worker].refund] = refund[task[Worker].refund]
      BY <2>00, <2>000 DEF WorkerOK, RowsOK
    <3>3. UNCHANGED granted
      BY <1>16 DEF RecordExternalRefund
    <3> QED BY <3>1, <3>2, <3>3 DEF WorkerOK, After
  <2> QED BY <2>1, <2>2, <2>3, <2>4
<1>17. ASSUME NEW h \in Hook, NothingToRecord(h) PROVE TasksOK'
  <2>1. TypeOK'
    BY <1>17 DEF NothingToRecord, Answers, TypeOK, RefundRow, TaskState, Pc, JobState, Task, PaymentStatus, OrderStatus, RefundRow, RefundStatus
  <2>2. RowsOK'
    BY <1>17 DEF NothingToRecord, RowsOK, TypeOK, RefundRow, Task, TaskState
  <2>3. HooksOK'
    BY <1>17 DEF NothingToRecord, HooksOK, TypeOK, Task, TaskState, After
  <2>4. WorkerOK'
    BY <1>17 DEF NothingToRecord, WorkerOK, TypeOK, RefundRow, Task, TaskState, After
  <2> QED BY <2>1, <2>2, <2>3, <2>4
<1>18. ASSUME NEW h \in Hook, WebhookThrows(h) PROVE TasksOK'
  <2>1. TypeOK'
    BY <1>18 DEF WebhookThrows, TypeOK, RefundRow, TaskState, Pc, JobState, Task, PaymentStatus, OrderStatus, RefundRow, RefundStatus
  <2>2. RowsOK'
    BY <1>18 DEF WebhookThrows, RowsOK, TypeOK, RefundRow, Task, TaskState
  <2>3. HooksOK'
    BY <1>18 DEF WebhookThrows, HooksOK, TypeOK, Task, TaskState, After
  <2>4. WorkerOK'
    BY <1>18 DEF WebhookThrows, WorkerOK, TypeOK, RefundRow, Task, TaskState, After
  <2> QED BY <2>1, <2>2, <2>3, <2>4
<1>19. ASSUME WorkerThrows PROVE TasksOK'
  <2> DEFINE r == task[Worker].refund
             p == task[Worker].payment
  <2>0. /\ r \in Refund /\ p \in Payment /\ refund[r].payment = p
        /\ refund[r].status # "NONE" /\ Worker \in Task
    BY <1>19 DEF WorkerThrows, WorkerOK, After, Task
  <2>00. /\ refund' \in [Refund -> RefundRow]
         /\ job' \in [Refund -> JobState]
         /\ made' \in [Refund -> Nat]
         /\ task' \in [Task -> TaskState]
         /\ \A q \in Refund : q # r => refund'[q] = refund[q] /\ job'[q] = job[q]
         /\ refund'[r].status # "NONE"
         /\ refund'[r].payment = p
         /\ refund'[r].amount = refund[r].amount
         /\ \A u \in Task : u # Worker => task'[u] = task[u]
         /\ task'[Worker].pc = "idle"
    BY <1>19, <2>0, AttemptStep DEF WorkerThrows
  <2> HIDE DEF r, p
  <2>1. TypeOK'
    BY <1>19, <2>00 DEF WorkerThrows, TypeOK
  <2>2. RowsOK'
    BY <1>19, <2>0, <2>00 DEF WorkerThrows, RowsOK
  <2>3. HooksOK'
    BY <1>19, <2>00 DEF WorkerThrows, HooksOK, Task
  <2>4. WorkerOK'
    BY <2>00 DEF WorkerOK, After
  <2> QED BY <2>1, <2>2, <2>3, <2>4
<1>20. ASSUME Crash PROVE TasksOK'
  <2>1. TypeOK'
    BY <1>20 DEF Crash, Running, TypeOK, RefundRow, TaskState, Pc, JobState, Task, PaymentStatus, OrderStatus, RefundRow, RefundStatus
  <2>2. RowsOK'
    BY <1>20 DEF Crash, Running, RowsOK, TypeOK, RefundRow, Task, TaskState
  <2>3. HooksOK'
    BY <1>20 DEF Crash, HooksOK, TypeOK, Task, TaskState, After
  <2>4. WorkerOK'
    BY <1>20 DEF Crash, WorkerOK, TypeOK, RefundRow, Task, TaskState, After
  <2> QED BY <2>1, <2>2, <2>3, <2>4
<1>22. ASSUME NEW p \in Payment,
              IgnoreNotice(p) \/ \E a \in RefundAmounts : MoneyMoves(p, a)
       PROVE  TasksOK'
  <2>1. /\ UNCHANGED <<payment, order, refund, opening, job, made, restock, task,
                        accepted, granted, stalled, faults>>
        /\ untold' \subseteq Payment
    BY <1>22 DEF IgnoreNotice, MoneyMoves, TypeOK
  <2>2. given' \in [Payment -> Nat]
    <3>1. CASE IgnoreNotice(p)
      BY <3>1 DEF IgnoreNotice, TypeOK
    <3>2. ASSUME NEW a \in RefundAmounts, MoneyMoves(p, a) PROVE given' \in [Payment -> Nat]
      <4>1. a \in Nat
        BY RefundAmountsType
      <4> QED BY <3>2, <4>1 DEF MoneyMoves, TypeOK
    <3> QED BY <1>22, <3>1, <3>2
  <2> QED BY <2>1, <2>2 DEF TypeOK, RowsOK, HooksOK, WorkerOK
<1>23. ASSUME LastAttemptLost PROVE TasksOK'
  <2> DEFINE r == task[Worker].refund
             p == task[Worker].payment
  <2>0. /\ r \in Refund /\ p \in Payment
        /\ refund[r].status # "NONE" /\ Worker \in Task
    BY <1>23 DEF LastAttemptLost, WorkerOK, Task, TypeOK, TaskState, Pc, After
  <2>1. /\ task' \in [Task -> TaskState]
        /\ \A u \in Task : u # Worker => task'[u] = task[u]
        /\ task'[Worker].pc = "idle"
    <3>1. task' = [task EXCEPT ![Worker] = Idle] /\ TypeOK
      BY <1>23 DEF LastAttemptLost
    <3> HIDE DEF r, p, Idle
    <3> QED BY <3>1, WorkerIdles
  <2>2. /\ accepted' \in [Payment -> Nat]
        /\ granted' \in [Refund -> Nat]
        /\ \A q \in Payment : accepted[q] <= accepted'[q]
        /\ \A q \in Refund : q # r => granted'[q] = granted[q]
    <3>1. CASE ProviderTakes(r, p)
      BY <2>0, <3>1, ProviderStep
    <3>2. CASE UNCHANGED <<accepted, granted>>
      BY <3>2 DEF TypeOK
    <3> QED BY <1>23, <3>1, <3>2 DEF LastAttemptLost
  <2>3. /\ job' \in [Refund -> JobState] /\ made' \in [Refund -> Nat] /\ faults' \in Nat
        /\ \A q \in Refund : q # r => job'[q] = job[q]
    <3>1. /\ made' = [made EXCEPT ![r] = @ + 1] /\ job' = [job EXCEPT ![r] = "failed"]
          /\ faults' = faults + 1
      BY <1>23 DEF LastAttemptLost
    <3>2. made \in [Refund -> Nat] /\ job \in [Refund -> JobState] /\ faults \in Nat
      BY DEF TypeOK
    <3> HIDE DEF r
    <3>3. made' \in [Refund -> Nat] /\ faults' \in Nat
      BY <2>0, <3>1, <3>2
    <3>4. job' \in [Refund -> JobState] /\ \A q \in Refund : q # r => job'[q] = job[q]
      BY <3>1, <3>2 DEF JobState
    <3> QED BY <3>3, <3>4
  <2>4. UNCHANGED <<payment, order, refund, opening, restock, given, untold, stalled>>
    BY <1>23 DEF LastAttemptLost
  <2> HIDE DEF r, p
  <2>5. TypeOK'
    BY <2>1, <2>2, <2>3, <2>4 DEF TypeOK
  <2>6. RowsOK'
    BY <2>0, <2>2, <2>3, <2>4 DEF RowsOK
  <2>7. HooksOK'
    <3> SUFFICES ASSUME NEW h \in Hook
                 PROVE  /\ task'[h].pc \in {"idle", "record"} \cup After
                        /\ task'[h].pc # "idle" => task'[h].payment \in Payment
                        /\ task'[h].pc = "record" => task'[h].seen <= accepted'[task'[h].payment]
      BY DEF HooksOK
    <3>1. task'[h] = task[h] /\ task[h].seen \in Nat
      BY <2>1 DEF Task, TypeOK, TaskState
    <3>2. task[h].payment \in Payment =>
            accepted[task[h].payment] \in Nat /\ accepted'[task[h].payment] \in Nat
            /\ accepted[task[h].payment] <= accepted'[task[h].payment]
      BY <2>2 DEF TypeOK
    <3> QED BY <3>1, <3>2 DEF HooksOK
  <2>8. WorkerOK'
    BY <2>1 DEF WorkerOK, After
  <2> QED BY <2>5, <2>6, <2>7, <2>8
<1>21. CASE UNCHANGED vars
  BY <1>21 DEF vars, TypeOK, RowsOK, HooksOK, WorkerOK
<1> QED
  BY <1>1, <1>2, <1>3, <1>4, <1>5, <1>6, <1>7, <1>8, <1>9, <1>10, <1>11,
     <1>12, <1>13, <1>14, <1>15, <1>16, <1>17, <1>18, <1>19, <1>20, <1>21, <1>22, <1>23
     DEF Next, WorkerStep, WebhookStep, Task

LEMMA NextBooksOK == Inv1 /\ [Next]_vars => BooksOK'
<1> SUFFICES ASSUME Inv1, [Next]_vars PROVE BooksOK'
  OBVIOUS
<1>0. /\ TypeOK /\ accepted \in [Payment -> Nat] /\ given \in [Payment -> Nat]
      /\ BooksOK
  BY DEF Inv1, TypeOK
<1> DEFINE r == task[Worker].refund
           q == task[Worker].payment
<1>1. CASE UNCHANGED <<accepted, given>>
  BY <1>1 DEF Inv1, BooksOK
<1>2. ASSUME NEW p \in Payment, NEW a \in RefundAmounts,
             StoreRefunds(p, a) \/ MoneyMoves(p, a)
      PROVE  BooksOK'
  <2>1. a \in Nat
    BY RefundAmountsType
  <2>2. CASE StoreRefunds(p, a)
    BY <1>0, <2>1, <2>2 DEF StoreRefunds, BooksOK
  <2>3. CASE MoneyMoves(p, a)
    BY <1>0, <2>1, <2>3 DEF MoneyMoves, BooksOK
  <2> QED BY <1>2, <2>2, <2>3
<1>3. ASSUME task[Worker].pc = "provider", ProviderTakes(r, q), UNCHANGED given
      PROVE  BooksOK'
  <2>1. r \in Refund /\ q \in Payment
    BY <1>3 DEF Inv1, WorkerOK
  <2>2. accepted' \in [Payment -> Nat] /\ \A p \in Payment : accepted[p] <= accepted'[p]
    BY <1>0, <1>3, <2>1, ProviderStep
  <2> HIDE DEF r, q
  <2> QED BY <1>0, <1>3, <2>2 DEF BooksOK
<1>4. ASSUME RefundApproved \/ RefundCallThrows \/ LastAttemptLost PROVE BooksOK'
  BY <1>1, <1>3, <1>4 DEF RefundApproved, RefundCallThrows, LastAttemptLost
<1> QED
  BY <1>1, <1>2, <1>4
     DEF Next, WorkerStep, WebhookStep, vars, RequestRefund, QueueRefund, StartRefund,
         SkipRefund, RefundRefused, CompleteRefund, SumReturned, MarkPayment,
         MarkRefunded, QueueRestock, RunRestock, RecordExternalRefund,
         NothingToRecord, WebhookThrows, InspectCharge, IgnoreNotice, WorkerThrows,
         Crash

LEMMA NextInv1 == Inv1 /\ [Next]_vars => Inv1'
BY NextTasksOK, NextBooksOK DEF Inv1, TasksOK

(* The type of every variable, through every step of every actor: in
   particular the rows the webhooks write (recordExternalRefund) have an
   amount that is a natural number, because they are inserted only beyond
   the slack. *)
THEOREM TypeCorrect == Spec => []TypeOK
<1>1. Inv1 => TypeOK
  BY DEF Inv1
<1> QED BY InitInv1, NextInv1, <1>1, PTL DEF Spec

-----------------------------------------------------------------------------
(***************************************************************************)
(* What a step may do to the refund rows: nothing, or one of five changes  *)
(* of one row.                                                             *)
(***************************************************************************)
SameRow(r) == /\ refund'[r].payment = refund[r].payment
              /\ refund'[r].amount = refund[r].amount

Opens(r) ==
  /\ refund[r].status = "NONE" /\ refund'[r].status = "PENDING"
  /\ refund'[r].payment \in Payment
  /\ refund'[r].amount <= Remaining(refund'[r].payment) + Epsilon

Executes(r) == refund[r].status \in Executable /\ refund'[r].status = "PROCESSING"
               /\ SameRow(r)

Fails(r) == refund[r].status \in Executable /\ refund'[r].status = "FAILED"
            /\ SameRow(r)

Completes(r) == refund[r].status = "PROCESSING" /\ refund'[r].status = "COMPLETED"
                /\ granted[r] > 0 /\ UNCHANGED <<accepted, granted>> /\ SameRow(r)

Records(r) ==
  /\ refund[r].status = "NONE" /\ refund'[r].status = "COMPLETED"
  /\ refund'[r].payment \in Payment
  /\ Claimed(refund'[r].payment) + refund'[r].amount <= Amount[refund'[r].payment]
  /\ Claimed(refund'[r].payment) + refund'[r].amount <= accepted[refund'[r].payment]
  /\ UNCHANGED <<accepted, granted>>

RowStep ==
  \/ UNCHANGED refund
  \/ \E r \in Refund :
       /\ \A q \in Refund : q # r => refund'[q] = refund[q]
       /\ Opens(r) \/ Executes(r) \/ Fails(r) \/ Completes(r) \/ Records(r)

LEMMA AttemptRow ==
  ASSUME Inv1, AttemptFails(task[Worker].refund), task[Worker].pc # "idle"
  PROVE  RowStep
<1> DEFINE r == task[Worker].refund
<1>1. r \in Refund
  BY DEF Inv1, WorkerOK
<1>2. refund[r].status \in {"PROCESSING", "COMPLETED"}
  BY DEF Inv1, WorkerOK, TypeOK, Task, TaskState, Pc, After
<1>3. CASE refund' = refund
  BY <1>3 DEF RowStep
<1>4. CASE refund' # refund
  <2>1. refund[r].status # "COMPLETED" /\ refund' = [refund EXCEPT ![r].status = "FAILED"]
    BY <1>4 DEF AttemptFails, FailRefund
  <2>2. refund \in [Refund -> RefundRow]
    BY DEF Inv1, TypeOK
  <2>3. /\ \A q \in Refund : q # r => refund'[q] = refund[q]
        /\ refund'[r].status = "FAILED"
        /\ SameRow(r)
    BY <1>1, <2>1, <2>2 DEF RefundRow, SameRow
  <2> HIDE DEF r
  <2>4. Fails(r)
    BY <1>2, <2>1, <2>3 DEF Fails, Executable
  <2> QED BY <1>1, <2>3, <2>4 DEF RowStep
<1> QED BY <1>3, <1>4

LEMMA NextRows == Inv1 /\ [Next]_vars => RowStep
<1> SUFFICES ASSUME Inv1, [Next]_vars, refund' # refund PROVE RowStep
  BY DEF RowStep
<1>0. refund \in [Refund -> RefundRow]
  BY DEF Inv1, TypeOK
<1>1. ASSUME NEW p \in Payment, NEW a \in RefundAmounts, RequestRefund(p, a)
      PROVE  RowStep
  <2>1. PICK r \in Free : refund' = [refund EXCEPT ![r] = [status |-> "PENDING",
                                       payment |-> p, amount |-> a]]
    BY <1>1 DEF RequestRefund
  <2>2. r \in Refund /\ refund[r].status = "NONE"
    BY DEF Free
  <2>3. /\ \A q \in Refund : q # r => refund'[q] = refund[q]
        /\ refund'[r].status = "PENDING" /\ refund'[r].payment = p
        /\ refund'[r].amount = a
    BY <1>0, <2>1, <2>2 DEF RefundRow
  <2>4. Opens(r)
    BY <1>1, <2>2, <2>3 DEF Opens, RequestRefund
  <2> QED BY <2>2, <2>3, <2>4 DEF RowStep
<1>2. ASSUME NEW r \in Refund, StartRefund(r) PROVE RowStep
  <2>1. /\ \A q \in Refund : q # r => refund'[q] = refund[q]
        /\ refund'[r].status = "PROCESSING"
        /\ SameRow(r)
    BY <1>0, <1>2 DEF StartRefund, RefundRow, SameRow
  <2>2. refund[r].status \in Executable
    BY <1>2 DEF StartRefund, StillOpen
  <2> QED BY <2>1, <2>2 DEF RowStep, Executes
<1>3. ASSUME RefundRefused PROVE RowStep
  <2> DEFINE r == task[Worker].refund
  <2>1. r \in Refund /\ refund[r].status = "PROCESSING"
    BY <1>3 DEF RefundRefused, Inv1, WorkerOK
  <2>2. /\ \A q \in Refund : q # r => refund'[q] = refund[q]
        /\ refund'[r].status = "FAILED"
        /\ SameRow(r)
    BY <1>0, <1>3, <2>1 DEF RefundRefused, RefundRow, SameRow
  <2> HIDE DEF r
  <2> QED BY <2>1, <2>2 DEF RowStep, Fails, Executable
<1>4. ASSUME RefundCallThrows PROVE RowStep
  BY <1>4, AttemptRow DEF RefundCallThrows
<1>5. ASSUME WorkerThrows PROVE RowStep
  BY <1>5, AttemptRow DEF WorkerThrows
<1>6. ASSUME CompleteRefund PROVE RowStep
  <2> DEFINE r == task[Worker].refund
  <2>1. r \in Refund /\ refund[r].status = "PROCESSING" /\ granted[r] > 0
    BY <1>6 DEF CompleteRefund, Inv1, WorkerOK
  <2>2. /\ \A q \in Refund : q # r => refund'[q] = refund[q]
        /\ refund'[r].status = "COMPLETED"
        /\ SameRow(r)
    BY <1>0, <1>6, <2>1 DEF CompleteRefund, RefundRow, SameRow
  <2>3. UNCHANGED <<accepted, granted>>
    BY <1>6 DEF CompleteRefund
  <2> HIDE DEF r
  <2> QED BY <2>1, <2>2, <2>3 DEF RowStep, Completes
<1>7. ASSUME NEW h \in Hook, RecordExternalRefund(h) PROVE RowStep
  <2> DEFINE p == task[h].payment
             a == Unrecorded(h)
  <2>1. PICK r \in Free : refund' = [refund EXCEPT ![r] = [status |-> "COMPLETED",
                                       payment |-> p, amount |-> a]]
    BY <1>7 DEF RecordExternalRefund
  <2>2. r \in Refund /\ refund[r].status = "NONE"
    BY DEF Free
  <2>3. /\ p \in Payment /\ task[h].seen \in Nat /\ task[h].seen <= accepted[p]
        /\ Amount[p] \in Nat /\ accepted[p] \in Nat /\ Claimed(p) \in Nat
    BY <1>7, ReturnedWithinClaimed
       DEF RecordExternalRefund, Inv1, HooksOK, TypeOK, Task, TaskState
  <2>4. Claimed(p) + a <= Amount[p] /\ Claimed(p) + a <= accepted[p]
    BY <2>3 DEF Unrecorded
  <2> HIDE DEF p, a
  <2>5. /\ \A q \in Refund : q # r => refund'[q] = refund[q]
        /\ refund'[r].status = "COMPLETED" /\ refund'[r].payment = p
        /\ refund'[r].amount = a
    BY <1>0, <2>1, <2>2 DEF RefundRow
  <2>6. UNCHANGED <<accepted, granted>>
    BY <1>7 DEF RecordExternalRefund
  <2>7. Records(r)
    BY <2>2, <2>3, <2>4, <2>5, <2>6 DEF Records
  <2> QED BY <2>2, <2>5, <2>7 DEF RowStep
<1> QED
  BY <1>1, <1>2, <1>3, <1>4, <1>5, <1>6, <1>7
     DEF Next, WorkerStep, WebhookStep, vars, StoreRefunds, MoneyMoves,
         IgnoreNotice, QueueRefund, SkipRefund,
         RefundApproved, SumReturned, MarkPayment, MarkRefunded, QueueRestock,
         RunRestock, WebhookThrows, InspectCharge, NothingToRecord,
         LastAttemptLost, Crash

-----------------------------------------------------------------------------
(* A refund that ended keeps its end (settlement.service.ts executeRefund,
   failRefund): no step in RowStep starts from a COMPLETED or FAILED row. *)
THEOREM EndsAreFinal == Spec => RefundEnds
<1> DEFINE Ends(r) == refund[r].status \in {"COMPLETED", "FAILED"}
<1>1. Inv1 /\ [Next]_vars =>
        [\A r \in Refund : Ends(r) => refund'[r] = refund[r]]_vars
  <2> SUFFICES ASSUME RowStep, NEW q \in Refund, Ends(q)
               PROVE  refund'[q] = refund[q]
    BY NextRows
  <2>1. CASE UNCHANGED refund
    BY <2>1
  <2>2. ASSUME NEW r \in Refund,
               \A s \in Refund : s # r => refund'[s] = refund[s],
               Opens(r) \/ Executes(r) \/ Fails(r) \/ Completes(r) \/ Records(r)
        PROVE  refund'[q] = refund[q]
    BY <2>2 DEF Opens, Executes, Fails, Completes, Records, Executable
  <2> QED BY <2>1, <2>2 DEF RowStep
<1> QED BY InitInv1, NextInv1, <1>1, PTL DEF Spec, RefundEnds

-----------------------------------------------------------------------------
(* How the two aggregates of a payment follow such a change. *)
LEMMA RowSums ==
  ASSUME Inv1, Inv1', NEW r \in Refund, NEW CONSTANT p \in Payment,
         \A q \in Refund : q # r => refund'[q] = refund[q],
         Opens(r) \/ Executes(r) \/ Fails(r) \/ Completes(r) \/ Records(r)
  PROVE  LET a == refund'[r].amount IN
         /\ a \in Nat /\ a > 0
         /\ Claimed(p) \in Nat /\ Returned(p) \in Nat
         /\ Returned(p)' <= Claimed(p)'
         /\ refund'[r].payment # p =>
              Claimed(p)' = Claimed(p) /\ Returned(p)' = Returned(p)
         /\ refund'[r].payment = p =>
              /\ Opens(r) => Claimed(p)' = Claimed(p) + a /\ Returned(p)' = Returned(p)
              /\ Executes(r) => Claimed(p)' = Claimed(p) /\ Returned(p)' = Returned(p)
              /\ Fails(r) => Claimed(p)' = Claimed(p) - a /\ Returned(p)' = Returned(p)
              /\ Completes(r) => Claimed(p)' = Claimed(p) /\ Returned(p)' = Returned(p) + a
              /\ Records(r) => Claimed(p)' = Claimed(p) + a
                               /\ Returned(p)' = Returned(p) + a
<1>1. refund \in [Refund -> RefundRow] /\ refund' \in [Refund -> RefundRow]
  BY DEF Inv1, TypeOK
<1>2. /\ Claimed(p)' = Claimed(p) + Portion(refund', p, OpenOrDone)[r]
                                  - Portion(refund, p, OpenOrDone)[r]
      /\ Returned(p)' = Returned(p) + Portion(refund', p, {"COMPLETED"})[r]
                                    - Portion(refund, p, {"COMPLETED"})[r]
  BY <1>1, PortionUpdate DEF Claimed, Returned
<1>3. Claimed(p) \in Nat /\ Returned(p) \in Nat
  BY ReturnedWithinClaimed DEF Inv1
<1>33. Returned(p)' <= Claimed(p)'
  BY <1>1, PortionWithin DEF Returned, Claimed
<1>4. /\ refund[r].amount \in Nat /\ refund'[r].amount \in Nat
      /\ refund'[r].status # "NONE" /\ refund'[r].amount > 0
  BY <1>1 DEF RefundRow, Inv1, RowsOK, Opens, Executes, Fails, Completes, Records
<1>5. refund[r].status = "NONE" => refund[r].payment # p
  BY DEF Inv1, RowsOK
<1>6. \A S : Portion(refund, p, S)[r] =
               IF refund[r].payment = p /\ refund[r].status \in S
               THEN refund[r].amount ELSE 0
  BY DEF Portion
<1>7. \A S : Portion(refund', p, S)[r] =
               IF refund'[r].payment = p /\ refund'[r].status \in S
               THEN refund'[r].amount ELSE 0
  BY DEF Portion
<1> QED
  BY <1>2, <1>3, <1>33, <1>4, <1>5, <1>6, <1>7
     DEF Opens, Executes, Fails, Completes, Records, SameRow, Executable, OpenOrDone

(***************************************************************************)
(* The refund cap.  Only two changes raise what is claimed: a request,     *)
(* which reads the sum under the payment's lock, and a webhook's row,      *)
(* which takes what the provider reports beyond that sum.                  *)
(***************************************************************************)
LEMMA NextRefundCap == Inv1 /\ Inv1' /\ RefundCap /\ [Next]_vars => RefundCap'
<1> SUFFICES ASSUME Inv1, Inv1', RefundCap, [Next]_vars, NEW CONSTANT p \in Payment
             PROVE  Claimed(p)' <= Amount[p] + Epsilon
  BY DEF RefundCap
<1>1. Claimed(p) <= Amount[p] + Epsilon /\ Claimed(p) \in Nat /\ Amount[p] \in Nat
  BY ReturnedWithinClaimed DEF RefundCap, Inv1
<1>2. CASE UNCHANGED refund
  BY <1>1, <1>2 DEF Claimed
<1>3. ASSUME NEW r \in Refund,
             \A q \in Refund : q # r => refund'[q] = refund[q],
             Opens(r) \/ Executes(r) \/ Fails(r) \/ Completes(r) \/ Records(r)
      PROVE  Claimed(p)' <= Amount[p] + Epsilon
  <2>1. CASE refund'[r].payment # p
    BY <1>1, <1>3, <2>1, RowSums
  <2>2. CASE refund'[r].payment = p
    BY <1>1, <1>3, <2>2, RowSums DEF Opens, Records, Remaining
  <2> QED BY <2>1, <2>2
<1> QED BY <1>2, <1>3, NextRows DEF RowStep

LEMMA InitSums == Init => \A p \in Payment : Claimed(p) = 0 /\ Returned(p) = 0
<1> SUFFICES ASSUME Init, NEW p \in Payment PROVE Claimed(p) = 0 /\ Returned(p) = 0
  OBVIOUS
<1>1. \A S : "NONE" \notin S => Portion(refund, p, S) = [r \in Refund |-> 0]
  BY DEF Init, NoRow, Portion
<1>2. SumFunction([r \in Refund |-> 0]) = 0
  BY SumZero
<1> QED BY <1>1, <1>2 DEF Claimed, Returned, OpenOrDone

(* The refunds that are open or done never claim more of a payment than it
   charged and the rounding slack (requestRefund, recordExternalRefund): for
   any number of requesters, jobs, webhooks, retries and crashes. *)
THEOREM RefundsAreCapped == Spec => []RefundCap
<1>1. Init => RefundCap
  BY InitSums DEF RefundCap
<1> QED BY InitInv1, NextInv1, <1>1, NextRefundCap, PTL DEF Spec

-----------------------------------------------------------------------------
(***************************************************************************)
(* The ledger.  A row that opens claims, one that fails releases, one that *)
(* completes returns, a row recorded from a webhook does both.             *)
(***************************************************************************)
LEMMA LedgerStep ==
  ASSUME Inv1, Inv1', [Next]_vars
  PROVE  [Ledger!Next]_<<[p \in Payment |-> Claimed(p)],
                         [p \in Payment |-> Returned(p)]>>
<1> DEFINE c == [p \in Payment |-> Claimed(p)]
           d == [p \in Payment |-> Returned(p)]
<1>1. CASE UNCHANGED refund
  <2>1. \A p \in Payment : Claimed(p)' = Claimed(p) /\ Returned(p)' = Returned(p)
    BY <1>1 DEF Claimed, Returned
  <2> QED BY <2>1
<1>2. ASSUME NEW r \in Refund,
             \A q \in Refund : q # r => refund'[q] = refund[q],
             Opens(r) \/ Executes(r) \/ Fails(r) \/ Completes(r) \/ Records(r)
      PROVE  [Ledger!Next]_<<c, d>>
  <2> DEFINE a == refund'[r].amount
             Limit == [p \in Payment |-> Amount[p] + Epsilon]
  <2>1. PICK x \in Payment : refund'[r].payment = x
    BY <1>2 DEF Inv1, RowsOK, Opens, Executes, Fails, Completes, Records
  <2>2. \A p \in Payment : p # x => Claimed(p)' = Claimed(p) /\ Returned(p)' = Returned(p)
    BY <1>2, <2>1, RowSums
  <2>3. /\ a \in Nat /\ a > 0
        /\ Claimed(x) \in Nat /\ Returned(x) \in Nat
        /\ Returned(x)' <= Claimed(x)'
    BY <1>2, <2>1, RowSums
  <2>4. Amount[x] \in Nat /\ Epsilon \in Nat /\ Limit[x] = Amount[x] + Epsilon
    OBVIOUS
  <2>5. /\ Opens(r) => Claimed(x)' = Claimed(x) + a /\ Returned(x)' = Returned(x)
        /\ Executes(r) => Claimed(x)' = Claimed(x) /\ Returned(x)' = Returned(x)
        /\ Fails(r) => Claimed(x)' = Claimed(x) - a /\ Returned(x)' = Returned(x)
        /\ Completes(r) => Claimed(x)' = Claimed(x) /\ Returned(x)' = Returned(x) + a
        /\ Records(r) => Claimed(x)' = Claimed(x) + a /\ Returned(x)' = Returned(x) + a
    BY <1>2, <2>1, RowSums
  <2>6. c[x] = Claimed(x) /\ d[x] = Returned(x)
    OBVIOUS
  <2>7. /\ c' = [c EXCEPT ![x] = Claimed(x)']
        /\ d' = [d EXCEPT ![x] = Returned(x)']
    BY <2>2
  <2>8. /\ Claimed(x)' = Claimed(x) => c' = c
        /\ Returned(x)' = Returned(x) => d' = d
    BY <2>2
  <2> HIDE DEF a, c, d, Limit
  <2>9. CASE Opens(r)
    <3>1. a \in 1..(Limit[x] - c[x])
      BY <2>1, <2>3, <2>4, <2>6, <2>9 DEF Opens, Remaining, a
    <3>2. Ledger!Claim(x)
      BY <2>5, <2>6, <2>7, <2>8, <2>9, <3>1 DEF Ledger!Claim, c, d, Limit
    <3> QED BY <3>2 DEF Ledger!Next, c, d
  <2>10. CASE Fails(r)
    <3>1. a \in 1..(c[x] - d[x])
      BY <2>3, <2>5, <2>6, <2>10
    <3>2. Ledger!Release(x)
      BY <2>5, <2>6, <2>7, <2>8, <2>10, <3>1 DEF Ledger!Release, c, d
    <3> QED BY <3>2 DEF Ledger!Next, c, d
  <2>11. CASE Completes(r)
    <3>1. a \in 1..(c[x] - d[x])
      BY <2>3, <2>5, <2>6, <2>11
    <3>2. Ledger!Return(x)
      BY <2>5, <2>6, <2>7, <2>8, <2>11, <3>1 DEF Ledger!Return, c, d
    <3> QED BY <3>2 DEF Ledger!Next, c, d
  <2>12. CASE Records(r)
    <3>1. a \in 1..(Limit[x] - c[x])
      BY <2>1, <2>3, <2>4, <2>6, <2>12 DEF Records, a
    <3>2. Ledger!ClaimAndReturn(x)
      BY <2>5, <2>6, <2>7, <2>12, <3>1 DEF Ledger!ClaimAndReturn, c, d, Limit
    <3> QED BY <3>2 DEF Ledger!Next, c, d
  <2>13. CASE Executes(r)
    BY <2>5, <2>8, <2>13 DEF c, d
  <2> QED BY <1>2, <2>9, <2>10, <2>11, <2>12, <2>13
<1> QED BY <1>1, <1>2, NextRows DEF RowStep

(* The refund rows, jobs and webhooks of settlement.service.ts implement the
   ledger of RefundLedger: whatever happens to a payment's refunds is a claim
   within its charge, the release of a claim not yet paid, or the payment of
   one. *)
THEOREM ImplementsLedger == Spec => KeepsLedger
<1>1. Init => Ledger!Init
  BY InitSums DEF Ledger!Init
<1> QED BY InitInv1, NextInv1, <1>1, LedgerStep, PTL DEF Spec, KeepsLedger, Ledger!Spec

-----------------------------------------------------------------------------
(***************************************************************************)
(* The statuses derived from refunds.  What was returned only grows, so    *)
(* what a handler read in SumReturned still holds when it writes.          *)
(***************************************************************************)
TaskEarned == \A t \in Task :
  /\ task[t].pc \in After => Returned(task[t].payment) > 0
  /\ task[t].pc \in {"payment", "order", "restock"} /\ task[t].full
       => Whole(task[t].payment)

LEMMA ReturnedGrows ==
  ASSUME Inv1, Inv1', [Next]_vars, NEW CONSTANT p \in Payment
  PROVE  /\ Returned(p) \in Nat /\ Returned(p)' \in Nat
         /\ Returned(p) <= Returned(p)'
         /\ Whole(p) => Whole(p)'
<1>1. Returned(p) \in Nat /\ Amount[p] \in Nat
  BY ReturnedWithinClaimed DEF Inv1
<1>2. CASE UNCHANGED refund
  BY <1>1, <1>2 DEF Returned, Whole
<1>3. ASSUME NEW r \in Refund,
             \A q \in Refund : q # r => refund'[q] = refund[q],
             Opens(r) \/ Executes(r) \/ Fails(r) \/ Completes(r) \/ Records(r)
      PROVE  Returned(p)' \in Nat /\ Returned(p) <= Returned(p)'
  BY <1>1, <1>3, RowSums
<1>4. CASE Returned(p)' \in Nat /\ Returned(p) <= Returned(p)'
  BY <1>1, <1>4 DEF Whole
<1> QED BY <1>2, <1>3, <1>4, NextRows DEF RowStep

LEMMA TaskPayment ==
  ASSUME Inv1, NEW t \in Task, task[t].pc # "idle"
  PROVE  task[t].payment \in Payment
BY DEF Inv1, HooksOK, WorkerOK, Task

LEMMA CompletedReturns ==
  ASSUME NEW rows \in [Refund -> RefundRow], NEW r \in Refund,
         rows[r].status = "COMPLETED", rows[r].amount > 0
  PROVE  SumFunction(Portion(rows, rows[r].payment, {"COMPLETED"})) > 0
<1> DEFINE f == Portion(rows, rows[r].payment, {"COMPLETED"})
           z == [q \in Refund |-> 0]
           o == [z EXCEPT ![r] = f[r]]
<1>1. f \in [Refund -> Nat] /\ z \in [Refund -> Nat]
  BY PortionSum
<1>2. f[r] > 0
  BY DEF Portion
<1>3. o \in [Refund -> Nat] /\ \A q \in Refund : o[q] <= f[q]
  BY <1>1
<1>4. o[r] = f[r] /\ z[r] = 0 /\ \A q \in Refund : q # r => o[q] = z[q]
  BY <1>1
<1>5. SumFunction(z) = 0
  BY SumZero
<1> HIDE DEF f, z, o
<1>6. z \in [Refund -> Int] /\ o \in [Refund -> Int]
  BY <1>1, <1>3
<1>7. SumFunction(o) = SumFunction(z) + o[r] - z[r]
  BY <1>4, <1>6, SumUpdate
<1>8. SumFunction(o) <= SumFunction(f) /\ SumFunction(f) \in Nat
  BY <1>1, <1>3, SumMonotone
<1>9. SumFunction(f) > 0
  BY <1>1, <1>2, <1>4, <1>5, <1>7, <1>8
<1> QED BY <1>9 DEF f

(* How a task comes to be in afterRefundCompleted: with a row it has just
   completed, or one step further from where it was. *)
Enters(t) ==
  /\ task'[t].pc = "sum"
  /\ \E r \in Refund : /\ refund'[r].status = "COMPLETED"
                       /\ refund'[r].payment = task'[t].payment

Goes(t) ==
  /\ task[t].pc \in After
  /\ task'[t].payment = task[t].payment
  /\ task'[t].pc # "sum" /\ task'[t].full =>
       \/ task[t].pc # "sum" /\ task[t].full
       \/ UNCHANGED refund /\ IsFull(task[t].payment)

LEMMA TaskStep ==
  ASSUME Inv1, [Next]_vars, NEW t \in Task, task'[t].pc \in After
  PROVE  Enters(t) \/ Goes(t)
<1> USE DEF Inv1
<1>0. task \in [Task -> TaskState] /\ Worker \in Task
  BY DEF TypeOK, Task
<1>1. CASE task'[t] = task[t]
  BY <1>1 DEF Goes
<1> SUFFICES ASSUME task'[t] # task[t] PROVE Enters(t) \/ Goes(t)
  BY <1>1
<1>2. ASSUME NEW r \in Refund, StartRefund(r) PROVE FALSE
  BY <1>0, <1>2 DEF StartRefund, TaskState, After, Idle
<1>3. ASSUME RefundApproved PROVE FALSE
  BY <1>0, <1>3 DEF RefundApproved, TaskState, After
<1>4. ASSUME RefundRefused \/ RefundCallThrows \/ WorkerThrows \/ LastAttemptLost
      PROVE  FALSE
  <2>1. task' = [task EXCEPT ![Worker] = Idle]
    BY <1>4 DEF RefundRefused, RefundCallThrows, WorkerThrows, LastAttemptLost,
                AttemptFails
  <2> QED BY <1>0, <2>1 DEF After, Idle
<1>5. ASSUME CompleteRefund PROVE Enters(t)
  <2> DEFINE r == task[Worker].refund
  <2>1. t = Worker /\ task'[t].pc = "sum" /\ task'[t].payment = task[Worker].payment
    BY <1>0, <1>5 DEF CompleteRefund, TaskState
  <2>2. r \in Refund /\ refund[r].payment = task[Worker].payment
    BY <1>5 DEF CompleteRefund, WorkerOK
  <2>3. refund'[r].status = "COMPLETED" /\ refund'[r].payment = task[Worker].payment
    BY <1>5, <2>2 DEF CompleteRefund, TypeOK, RefundRow
  <2> QED BY <2>1, <2>2, <2>3 DEF Enters
<1>6. ASSUME NEW h \in Hook, RecordExternalRefund(h) PROVE Enters(t)
  <2>1. PICK r \in Free : refund' = [refund EXCEPT ![r] = [status |-> "COMPLETED",
                                       payment |-> task[h].payment,
                                       amount |-> Unrecorded(h)]]
    BY <1>6 DEF RecordExternalRefund
  <2>2. /\ r \in Refund /\ refund'[r].status = "COMPLETED"
        /\ refund'[r].payment = task[h].payment
    BY <2>1 DEF Free, TypeOK
  <2>3. t = h /\ task'[t].pc = "sum" /\ task'[t].payment = task[h].payment
    BY <1>0, <1>6 DEF RecordExternalRefund, TaskState, Task
  <2> QED BY <2>2, <2>3 DEF Enters
<1>7. ASSUME NEW u \in Task, SumReturned(u) PROVE Goes(t)
  BY <1>0, <1>7 DEF SumReturned, TaskState, After, Goes
<1>8. ASSUME NEW u \in Task, MarkPayment(u) PROVE Goes(t)
  BY <1>0, <1>8 DEF MarkPayment, TaskState, After, Goes
<1>9. ASSUME NEW u \in Task, MarkRefunded(u) PROVE Goes(t)
  <2>1. CASE task[u].full
    BY <1>0, <1>9, <2>1 DEF MarkRefunded, TaskState, After, Goes
  <2>2. CASE ~task[u].full
    BY <1>0, <1>9, <2>2 DEF MarkRefunded, Finish, Idle, After
  <2> QED BY <2>1, <2>2
<1>10. ASSUME NEW u \in Task, QueueRestock(u) PROVE FALSE
  BY <1>0, <1>10 DEF QueueRestock, Finish, Idle, After
<1>11. ASSUME NEW h \in Hook, NEW p \in Payment, InspectCharge(h, p) PROVE FALSE
  BY <1>0, <1>11 DEF InspectCharge, Idle, After, Task
<1>12. ASSUME NEW h \in Hook, NothingToRecord(h) \/ WebhookThrows(h) PROVE FALSE
  BY <1>0, <1>12 DEF NothingToRecord, WebhookThrows, Idle, After, Task
<1>13. ASSUME Crash PROVE FALSE
  BY <1>13 DEF Crash, Idle, After
<1> QED
  BY <1>2, <1>3, <1>4, <1>5, <1>6, <1>7, <1>8, <1>9, <1>10, <1>11, <1>12, <1>13
     DEF Next, WorkerStep, WebhookStep, vars, RequestRefund, StoreRefunds,
         MoneyMoves, IgnoreNotice,
         QueueRefund, SkipRefund, RunRestock, Task

LEMMA NextTaskEarned ==
  ASSUME Inv1, Inv1', TaskEarned, [Next]_vars
  PROVE  TaskEarned'
<1> SUFFICES ASSUME NEW t \in Task, task'[t].pc \in After
             PROVE  /\ Returned(task[t].payment)' > 0
                    /\ task'[t].pc # "sum" /\ task'[t].full => Whole(task[t].payment)'
  BY DEF TaskEarned, After
<1>1. CASE Enters(t)
  <2>1. PICK r \in Refund : /\ refund'[r].status = "COMPLETED"
                            /\ refund'[r].payment = task'[t].payment
    BY <1>1 DEF Enters
  <2>2. refund' \in [Refund -> RefundRow] /\ refund'[r].amount > 0
    BY <2>1 DEF Inv1, TypeOK, RowsOK
  <2>3. SumFunction(Portion(refund', task'[t].payment, {"COMPLETED"})) > 0
    BY <2>1, <2>2, CompletedReturns
  <2> QED BY <1>1, <2>3 DEF Enters, Returned
<1>2. CASE Goes(t)
  <2>1. PICK p \in Payment : task[t].payment = p
    BY <1>2, TaskPayment DEF Goes, After
  <2>2. task'[t].payment = p
    BY <1>2, <2>1 DEF Goes
  <2>3. /\ Returned(p) \in Nat /\ Returned(p)' \in Nat
        /\ Returned(p) <= Returned(p)'
        /\ Whole(p) => Whole(p)'
    BY ReturnedGrows
  <2>4. Returned(p) > 0
    BY <1>2, <2>1 DEF Goes, TaskEarned
  <2>5. ASSUME task'[t].pc # "sum", task'[t].full PROVE Whole(p)
    BY <1>2, <2>1, <2>5 DEF Goes, TaskEarned, After, IsFull, Whole
  <2>6. Returned(task[t].payment)' = Returned(p)' /\ (Whole(task[t].payment)' <=> Whole(p)')
    BY <2>2 DEF Returned, Whole
  <2> QED BY <2>3, <2>4, <2>5, <2>6
<1> QED BY <1>1, <1>2, TaskStep

LEMMA NextStatusIsEarned ==
  ASSUME Inv1, Inv1', TaskEarned, StatusIsEarned, [Next]_vars
  PROVE  StatusIsEarned'
<1>0. /\ payment \in [Payment -> PaymentStatus] /\ order \in [Order -> OrderStatus]
      /\ OrderOf \in [Payment -> Order]
  BY DEF Inv1, TypeOK
<1>1. ASSUME NEW p \in Payment, payment'[p] # payment[p]
      PROVE  /\ payment'[p] = "REFUNDED" => Whole(p)
             /\ payment'[p] = "PARTIALLY_REFUNDED" => Returned(p) > 0
  <2>1. PICK t \in Task : MarkPayment(t)
    BY <1>1 DEF Next, WorkerStep, WebhookStep, vars, RequestRefund, StoreRefunds,
         MoneyMoves, IgnoreNotice,
         QueueRefund, StartRefund, SkipRefund, RefundApproved, RefundRefused,
         RefundCallThrows, CompleteRefund, SumReturned, MarkRefunded, QueueRestock,
         RunRestock, RecordExternalRefund, NothingToRecord, WebhookThrows,
         InspectCharge, WorkerThrows, LastAttemptLost, Crash, Task
  <2>2. /\ task[t].pc = "payment"
        /\ p = task[t].payment
        /\ payment'[p] = IF task[t].full THEN "REFUNDED" ELSE "PARTIALLY_REFUNDED"
    BY <1>0, <1>1, <2>1 DEF MarkPayment
  <2>3. Returned(p) > 0 /\ (task[t].full => Whole(p))
    BY <2>2 DEF TaskEarned, After
  <2> QED BY <2>2, <2>3
<1>2. ASSUME NEW o \in Order, order'[o] # order[o], order'[o] = "REFUNDED"
      PROVE  \E p \in Payment : OrderOf[p] = o /\ Whole(p)
  <2>1. PICK t \in Task : MarkRefunded(t)
    BY <1>2 DEF Next, WorkerStep, WebhookStep, vars, RequestRefund, StoreRefunds,
         MoneyMoves, IgnoreNotice,
         QueueRefund, StartRefund, SkipRefund, RefundApproved, RefundRefused,
         RefundCallThrows, CompleteRefund, SumReturned, MarkPayment, QueueRestock,
         RunRestock, RecordExternalRefund, NothingToRecord, WebhookThrows,
         InspectCharge, WorkerThrows, LastAttemptLost, Crash, Task
  <2>2. task[t].pc = "order" /\ task[t].full /\ OrderOf[task[t].payment] = o
    BY <1>0, <1>2, <2>1 DEF MarkRefunded
  <2>3. task[t].payment \in Payment /\ Whole(task[t].payment)
    BY <2>2, TaskPayment DEF TaskEarned
  <2> QED BY <2>2, <2>3
<1>3. \A p \in Payment : /\ Returned(p) \in Nat /\ Returned(p)' \in Nat
                         /\ Returned(p) <= Returned(p)'
                         /\ Whole(p) => Whole(p)'
  BY ReturnedGrows
<1>4. \A p \in Payment : payment'[p] = "REFUNDED" => Whole(p)'
  BY <1>1, <1>3 DEF StatusIsEarned
<1>5. \A p \in Payment : payment'[p] = "PARTIALLY_REFUNDED" => Returned(p)' > 0
  <2> SUFFICES ASSUME NEW p \in Payment, payment'[p] = "PARTIALLY_REFUNDED"
               PROVE  Returned(p)' > 0
    OBVIOUS
  <2>1. Returned(p) > 0
    BY <1>1 DEF StatusIsEarned
  <2> QED BY <1>3, <2>1
<1>6. \A o \in Order : order'[o] = "REFUNDED" =>
        \E p \in Payment : OrderOf[p] = o /\ Whole(p)'
  BY <1>2, <1>3 DEF StatusIsEarned
<1> QED BY <1>4, <1>5, <1>6 DEF StatusIsEarned

(* REFUNDED and PARTIALLY_REFUNDED are earned (afterRefundCompleted): the
   statuses are written in later awaits than the sum they follow from, by the
   worker and any number of webhooks at once, and still never claim more than
   the completed refunds show. *)
THEOREM StatusesAreEarned == Spec => []StatusIsEarned
<1>1. Init => TaskEarned /\ StatusIsEarned
  BY DEF Init, TaskEarned, StatusIsEarned, Idle, After
<1> QED BY InitInv1, NextInv1, <1>1, NextTaskEarned, NextStatusIsEarned, PTL DEF Spec

-----------------------------------------------------------------------------
(***************************************************************************)
(* The provider's books.  Every refund that is completed, or is about to   *)
(* be because the provider granted it, is covered by what was accepted.    *)
(***************************************************************************)
Covering(rows, times, p) ==
  [r \in Refund |->
     IF rows[r].payment = p
        /\ (rows[r].status = "COMPLETED" \/ (rows[r].status \in Executable /\ times[r] > 0))
     THEN rows[r].amount ELSE 0]

Covered == \A p \in Payment : SumFunction(Covering(refund, granted, p)) <= accepted[p]

LEMMA CoveringSum ==
  ASSUME NEW rows \in [Refund -> RefundRow], NEW times, NEW p
  PROVE  /\ SumFunction(Covering(rows, times, p)) \in Nat
         /\ SumFunction(Portion(rows, p, {"COMPLETED"})) <=
              SumFunction(Covering(rows, times, p))
         /\ SumFunction(Covering(rows, times, p)) <=
              SumFunction(Portion(rows, p, OpenOrDone))
<1> DEFINE f == Portion(rows, p, {"COMPLETED"})
           g == Covering(rows, times, p)
           h == Portion(rows, p, OpenOrDone)
<1>1. f \in [Refund -> Nat] /\ h \in [Refund -> Nat]
  BY PortionSum
<1>2. g \in [Refund -> Nat]
  BY DEF Covering, RefundRow
<1>3. \A r \in Refund : f[r] <= g[r] /\ g[r] <= h[r]
  BY DEF Portion, Covering, OpenOrDone, Executable, RefundRow
<1> HIDE DEF f, g, h
<1>4. SumFunction(f) <= SumFunction(g) /\ SumFunction(g) <= SumFunction(h)
      /\ SumFunction(g) \in Nat
  BY <1>1, <1>2, <1>3, SumMonotone
<1> QED BY <1>4 DEF f, g, h

(* The provider's books change in a call for the row being executed, which
   may fail in the same step, or by the store's own doing. *)
Moves(r) ==
  /\ refund[r].status = "PROCESSING"
  /\ refund'[r].status \in {"PROCESSING", "FAILED"}
  /\ SameRow(r)
  /\ granted[r] > 0 \/ accepted'[refund[r].payment] = accepted[refund[r].payment] + refund[r].amount

BooksStep ==
  /\ \A p \in Payment : accepted[p] <= accepted'[p]
  /\ \/ UNCHANGED granted
     \/ \E r \in Refund :
          /\ \A q \in Refund : q # r => refund'[q] = refund[q] /\ granted'[q] = granted[q]
          /\ Moves(r)

LEMMA NextBooks == Inv1 /\ [Next]_vars => BooksStep
<1> SUFFICES ASSUME Inv1, [Next]_vars PROVE BooksStep
  OBVIOUS
<1>0. /\ accepted \in [Payment -> Nat]
      /\ refund \in [Refund -> RefundRow] /\ TypeOK
  BY DEF Inv1, TypeOK
<1> DEFINE r == task[Worker].refund
           p == task[Worker].payment
<1>1. CASE UNCHANGED <<accepted, granted>>
  BY <1>0, <1>1 DEF BooksStep
<1>2. ASSUME NEW q \in Payment, NEW a \in RefundAmounts, StoreRefunds(q, a)
      PROVE  BooksStep
  <2>1. a \in Nat \ {0}
    BY RefundAmountsType
  <2>2. accepted' = [accepted EXCEPT ![q] = @ + a] /\ UNCHANGED granted
    BY <1>2 DEF StoreRefunds
  <2> QED BY <1>0, <2>1, <2>2 DEF BooksStep
<1>3. ASSUME task[Worker].pc = "provider" PROVE
        /\ r \in Refund /\ p \in Payment
        /\ refund[r].status = "PROCESSING" /\ refund[r].payment = p
  BY <1>3 DEF Inv1, WorkerOK
<1>4. ASSUME task[Worker].pc = "provider", ProviderTakes(r, p) PROVE
        /\ \A q \in Payment : accepted[q] <= accepted'[q]
        /\ \A q \in Refund : q # r => granted'[q] = granted[q]
        /\ granted[r] > 0 \/ accepted'[p] = accepted[p] + refund[r].amount
  BY <1>0, <1>3, <1>4, ProviderStep
<1> HIDE DEF r, p
<1>5. ASSUME RefundApproved PROVE BooksStep
  <2>1. task[Worker].pc = "provider" /\ ProviderTakes(r, p) /\ UNCHANGED refund
    BY <1>5 DEF RefundApproved, r, p
  <2>2. Moves(r)
    BY <1>3, <1>4, <2>1 DEF Moves, SameRow
  <2> QED BY <1>3, <1>4, <2>1, <2>2 DEF BooksStep
<1>6. ASSUME RefundCallThrows PROVE BooksStep
  <2>1. task[Worker].pc = "provider" /\ AttemptFails(r)
        /\ (ProviderTakes(r, p) \/ UNCHANGED <<accepted, granted>>)
    BY <1>6 DEF RefundCallThrows, r, p
  <2>2. CASE ProviderTakes(r, p)
    <3>1. /\ \A q \in Refund : q # r => refund'[q] = refund[q]
          /\ refund'[r].status \in {"PROCESSING", "FAILED"}
          /\ SameRow(r)
      BY <1>0, <1>3, <2>1, AttemptStep DEF SameRow
    <3>2. Moves(r)
      BY <1>3, <1>4, <2>1, <2>2, <3>1 DEF Moves
    <3> QED BY <1>3, <1>4, <2>1, <2>2, <3>1, <3>2 DEF BooksStep
  <2> QED BY <1>1, <2>1, <2>2
<1>7. ASSUME LastAttemptLost PROVE BooksStep
  <2>1. /\ \/ task[Worker].pc = "provider" /\ ProviderTakes(r, p)
           \/ UNCHANGED <<accepted, granted>>
        /\ UNCHANGED refund
    BY <1>7 DEF LastAttemptLost, r, p
  <2>2. CASE task[Worker].pc = "provider" /\ ProviderTakes(r, p)
    <3>1. Moves(r)
      BY <1>3, <1>4, <2>1, <2>2 DEF Moves, SameRow
    <3> QED BY <1>3, <1>4, <2>1, <2>2, <3>1 DEF BooksStep
  <2> QED BY <1>1, <2>1, <2>2
<1> QED
  BY <1>1, <1>2, <1>5, <1>6, <1>7
     DEF Next, WorkerStep, WebhookStep, vars, RequestRefund, QueueRefund,
         StartRefund, SkipRefund, RefundRefused, CompleteRefund, SumReturned,
         MarkPayment, MarkRefunded, QueueRestock, RunRestock, RecordExternalRefund,
         NothingToRecord, WebhookThrows, InspectCharge, MoneyMoves, IgnoreNotice,
         WorkerThrows, Crash

LEMMA NextCovered ==
  ASSUME Inv1, Inv1', Covered, [Next]_vars
  PROVE  Covered'
<1> SUFFICES ASSUME NEW CONSTANT p \in Payment
             PROVE  SumFunction(Covering(refund', granted', p)) <= accepted'[p]
  BY DEF Covered
<1>0. /\ refund \in [Refund -> RefundRow] /\ refund' \in [Refund -> RefundRow]
      /\ accepted[p] \in Nat /\ accepted'[p] \in Nat
      /\ accepted[p] <= accepted'[p]
  BY NextBooks DEF Inv1, TypeOK, BooksStep
<1> DEFINE before == SumFunction(Covering(refund, granted, p))
           after == SumFunction(Covering(refund', granted', p))
<1>1. before \in Nat /\ after \in Nat /\ before <= accepted[p] /\ before <= Claimed(p)
      /\ Claimed(p) \in Nat
  BY <1>0, CoveringSum, ReturnedWithinClaimed DEF Covered, Claimed, Inv1
<1>2. ASSUME NEW r \in Refund,
             \A q \in Refund : q # r => refund'[q] = refund[q] /\ granted'[q] = granted[q]
      PROVE  after = before + Covering(refund', granted', p)[r] - Covering(refund, granted, p)[r]
  <2> DEFINE f == Covering(refund, granted, p)
             g == Covering(refund', granted', p)
  <2>1. f \in [Refund -> Int] /\ g \in [Refund -> Int]
    BY <1>0 DEF Covering, RefundRow
  <2>2. \A q \in Refund : q # r => g[q] = f[q]
    BY <1>2 DEF Covering
  <2> HIDE DEF f, g
  <2>3. SumFunction(g) = SumFunction(f) + g[r] - f[r]
    BY <2>1, <2>2, SumUpdate
  <2> QED BY <2>3 DEF before, after, f, g
<1>3. ASSUME NEW r \in Refund PROVE
      /\ Covering(refund, granted, p)[r] =
           IF refund[r].payment = p
              /\ (refund[r].status = "COMPLETED"
                  \/ (refund[r].status \in Executable /\ granted[r] > 0))
           THEN refund[r].amount ELSE 0
      /\ Covering(refund', granted', p)[r] =
           IF refund'[r].payment = p
              /\ (refund'[r].status = "COMPLETED"
                  \/ (refund'[r].status \in Executable /\ granted'[r] > 0))
           THEN refund'[r].amount ELSE 0
      /\ refund[r].amount \in Nat /\ refund'[r].amount \in Nat
  BY <1>0 DEF Covering, RefundRow
<1> HIDE DEF before, after
<1>4. ASSUME UNCHANGED <<refund, granted>> PROVE after <= accepted'[p]
  BY <1>0, <1>1, <1>4 DEF before, after
<1>5. ASSUME NEW r \in Refund, Moves(r),
             \A q \in Refund : q # r => refund'[q] = refund[q] /\ granted'[q] = granted[q]
      PROVE  after <= accepted'[p]
  BY <1>0, <1>1, <1>2, <1>3, <1>5 DEF Moves, SameRow, Executable
<1>6. ASSUME UNCHANGED granted, NEW r \in Refund,
             \A q \in Refund : q # r => refund'[q] = refund[q],
             Opens(r) \/ Executes(r) \/ Fails(r) \/ Completes(r) \/ Records(r)
      PROVE  after <= accepted'[p]
  <2>1. after = before + Covering(refund', granted', p)[r] - Covering(refund, granted, p)[r]
    BY <1>2, <1>6
  <2>2. refund[r].status = "NONE" => granted[r] = 0 /\ refund[r].payment # p
    BY DEF Inv1, RowsOK
  <2>3. CASE Opens(r)
    BY <1>0, <1>1, <1>3, <1>6, <2>1, <2>2, <2>3 DEF Opens, Executable
  <2>4. CASE Executes(r) \/ Fails(r) \/ Completes(r)
    BY <1>0, <1>1, <1>3, <1>6, <2>1, <2>4 DEF Executes, Fails, Completes, SameRow, Executable
  <2>5. CASE Records(r)
    BY <1>0, <1>1, <1>3, <1>6, <2>1, <2>2, <2>5 DEF Records, Executable
  <2> QED BY <1>6, <2>3, <2>4, <2>5
<1>7. after <= accepted'[p]
  <2>1. CASE UNCHANGED granted
    <3>1. CASE UNCHANGED refund
      BY <1>4, <2>1, <3>1
    <3>2. ASSUME NEW r \in Refund,
                 \A q \in Refund : q # r => refund'[q] = refund[q],
                 Opens(r) \/ Executes(r) \/ Fails(r) \/ Completes(r) \/ Records(r)
          PROVE  after <= accepted'[p]
      BY <1>6, <2>1, <3>2
    <3> QED BY <3>1, <3>2, NextRows DEF RowStep
  <2>2. CASE ~ UNCHANGED granted
    BY <1>5, <2>2, NextBooks DEF BooksStep
  <2> QED BY <2>1, <2>2
<1> QED BY <1>7 DEF after

(* Only money the provider agreed to give back is recorded as returned
   (executeRefund, recordExternalRefund): the completed refunds of a payment
   never add up to more, although an accepted refund may reach the total a
   webhook reads long after its row is completed, and that total, an
   executing refund and the rows are read at different times. *)
THEOREM OnlyAcceptedMoneyIsRecorded == Spec => []ReturnedIsBacked
<1>1. Init => Covered
  <2> SUFFICES ASSUME Init, NEW p \in Payment
               PROVE  SumFunction(Covering(refund, granted, p)) <= accepted[p]
    BY DEF Covered
  <2>1. Covering(refund, granted, p) = [r \in Refund |-> 0]
    BY DEF Init, NoRow, Covering, Executable
  <2> QED BY <2>1, SumZero DEF Init
<1>2. Inv1 /\ Covered => ReturnedIsBacked
  <2> SUFFICES ASSUME Inv1, Covered, NEW p \in Payment PROVE Returned(p) <= accepted[p]
    BY DEF ReturnedIsBacked
  <2>1. /\ Returned(p) <= SumFunction(Covering(refund, granted, p))
        /\ SumFunction(Covering(refund, granted, p)) \in Nat
        /\ Returned(p) \in Nat /\ accepted[p] \in Nat
    BY CoveringSum, ReturnedWithinClaimed DEF Inv1, TypeOK, Returned
  <2>2. SumFunction(Covering(refund, granted, p)) <= accepted[p]
    BY DEF Covered
  <2> QED BY <2>1, <2>2
<1> QED BY InitInv1, NextInv1, <1>1, NextCovered, <1>2, PTL DEF Spec

-----------------------------------------------------------------------------
(***************************************************************************)
(* Nothing is dropped: the safety half of the liveness the runs check.     *)
(* The jobs first.  A row that is open has whoever goes on with it, unless *)
(* a failure came between the row and the queue or broke off its last run. *)
(***************************************************************************)
JobOK(r) ==
  /\ job[r] = "active" => task[Worker].pc # "idle" /\ task[Worker].refund = r
  /\ job[r] = "done" => refund[r].status \notin Executable
  /\ job[r] = "failed" /\ refund[r].status \in Executable => faults > 0
  /\ job[r] = "none" /\ refund[r].status \in Executable => r \in opening \/ faults > 0

JobsInv == \A r \in Refund : JobOK(r)

OpenIsAttended ==
  \A r \in Refund : refund[r].status \in Executable =>
    \/ r \in opening
    \/ job[r] = "waiting"
    \/ /\ job[r] = "active" /\ task[Worker].refund = r
       /\ task[Worker].pc \in {"provider", "answered"}
    \/ job[r] \in {"none", "failed"} /\ faults > 0

(* An attempt of the worker's row fails: it waits, or has been failed. *)
LEMMA AttemptJobs ==
  ASSUME Inv1, JobsInv, task[Worker].pc # "idle", AttemptFails(task[Worker].refund),
         opening' = opening, faults' \in Nat, faults' >= faults
  PROVE  JobsInv'
<1> DEFINE x == task[Worker].refund
<1>1. x \in Refund
  BY DEF Inv1, WorkerOK
<1>2. /\ refund' \in [Refund -> RefundRow] /\ job' \in [Refund -> JobState]
      /\ \A q \in Refund : q # x => refund'[q] = refund[q] /\ job'[q] = job[q]
      /\ task'[Worker].pc = "idle"
  BY <1>1, AttemptStep DEF Inv1
<1>3. \/ job'[x] = "waiting"
      \/ job'[x] = "failed" /\ refund'[x].status \notin Executable
  <2>1. CASE IsLast(x)
    <3>1. job'[x] = "failed" /\ FailRefund(x)
      BY <1>1, <2>1 DEF AttemptFails, Inv1, TypeOK
    <3>2. refund'[x].status \in {"COMPLETED", "FAILED"}
      BY <1>1, <3>1 DEF FailRefund, Inv1, TypeOK, RefundRow
    <3> QED BY <3>1, <3>2 DEF Executable
  <2>2. CASE ~IsLast(x)
    BY <1>1, <2>2 DEF AttemptFails, Inv1, TypeOK
  <2> QED BY <2>1, <2>2
<1> HIDE DEF x
<1>4. ASSUME NEW r \in Refund PROVE JobOK(r)'
  <2>1. CASE r = x
    BY <1>3, <2>1 DEF JobOK
  <2>2. CASE r # x
    <3>1. refund'[r] = refund[r] /\ job'[r] = job[r] /\ job[r] # "active"
      BY <1>2, <2>2 DEF JobsInv, JobOK, x
    <3> QED BY <3>1 DEF JobsInv, JobOK, Inv1, TypeOK
  <2> QED BY <2>1, <2>2
<1> QED BY <1>4 DEF JobsInv

(* Whoever finishes has a completed row. *)
LEMMA FinishJobs ==
  ASSUME Inv1, JobsInv, NEW t \in Task, task[t].pc \in After, Finish(t),
         UNCHANGED <<refund, opening, faults>>
  PROVE  JobsInv'
<1>1. task \in [Task -> TaskState] /\ task' = [task EXCEPT ![t] = Idle]
  BY DEF Inv1, TypeOK, Finish
<1>2. CASE t # Worker
  <2>1. job' = job /\ task'[Worker] = task[Worker]
    BY <1>1, <1>2 DEF Finish, Task
  <2> QED BY <2>1 DEF JobsInv, JobOK
<1>3. CASE t = Worker
  <2> DEFINE x == task[Worker].refund
  <2>1. x \in Refund /\ refund[x].status = "COMPLETED" /\ task[Worker].pc # "idle"
    BY <1>3 DEF Inv1, WorkerOK, After
  <2>2. job' = [job EXCEPT ![x] = "done"]
    BY <1>3 DEF Finish
  <2> HIDE DEF x
  <2>3. ASSUME NEW r \in Refund PROVE JobOK(r)'
    <3>1. CASE r = x
      BY <2>1, <2>2, <3>1 DEF JobOK, Inv1, TypeOK, Executable
    <3>2. CASE r # x
      <4>1. job'[r] = job[r] /\ job[r] # "active"
        BY <2>2, <3>2 DEF JobsInv, JobOK, Inv1, TypeOK, x
      <4> QED BY <4>1 DEF JobsInv, JobOK
    <3> QED BY <3>1, <3>2
  <2> QED BY <2>3 DEF JobsInv
<1> QED BY <1>2, <1>3

LEMMA NextJobs ==
  ASSUME Inv1, JobsInv, [Next]_vars
  PROVE  JobsInv'
<1>0. /\ task \in [Task -> TaskState] /\ Worker \in Task
      /\ refund \in [Refund -> RefundRow] /\ job \in [Refund -> JobState]
      /\ faults \in Nat
  BY DEF Inv1, TypeOK, Task
<1>1. ASSUME NEW p \in Payment, NEW a \in RefundAmounts, RequestRefund(p, a)
      PROVE  JobsInv'
  <2>1. PICK x \in Free :
          /\ refund' = [refund EXCEPT ![x] = [status |-> "PENDING", payment |-> p,
                                              amount |-> a]]
          /\ opening' = opening \cup {x}
    BY <1>1 DEF RequestRefund
  <2>2. x \in Refund /\ job[x] = "none" /\ UNCHANGED <<job, task, faults>>
    BY <1>1 DEF Free, Inv1, RowsOK, RequestRefund
  <2>3. ASSUME NEW r \in Refund PROVE JobOK(r)'
    BY <1>0, <2>1, <2>2 DEF JobsInv, JobOK
  <2> QED BY <2>3 DEF JobsInv
<1>2. ASSUME NEW x \in Refund, QueueRefund(x) PROVE JobsInv'
  BY <1>0, <1>2 DEF QueueRefund, JobsInv, JobOK
<1>3. ASSUME NEW x \in Refund, SkipRefund(x) PROVE JobsInv'
  BY <1>0, <1>3 DEF SkipRefund, StillOpen, JobsInv, JobOK
<1>4. ASSUME NEW x \in Refund, StartRefund(x) PROVE JobsInv'
  <2>1. task'[Worker].pc # "idle" /\ task'[Worker].refund = x
    BY <1>0, <1>4 DEF StartRefund, Idle
  <2>2. /\ job'[x] = "active" /\ UNCHANGED <<opening, faults>>
        /\ \A r \in Refund : r # x => job'[r] = job[r] /\ refund'[r] = refund[r]
    BY <1>0, <1>4 DEF StartRefund
  <2>3. \A r \in Refund : job[r] # "active"
    BY <1>4 DEF StartRefund, JobsInv, JobOK
  <2> QED BY <2>1, <2>2, <2>3 DEF JobsInv, JobOK
<1>5. ASSUME RefundApproved \/ CompleteRefund PROVE JobsInv'
  <2>1. /\ task'[Worker].pc # "idle" /\ task'[Worker].refund = task[Worker].refund
        /\ UNCHANGED <<job, opening, faults>>
    BY <1>0, <1>5 DEF RefundApproved, CompleteRefund, TaskState
  <2>2. \A r \in Refund : refund'[r].status \in Executable
                            => refund[r].status \in Executable
    BY <1>0, <1>5 DEF RefundApproved, CompleteRefund, Executable, RefundRow
  <2> QED BY <2>1, <2>2 DEF JobsInv, JobOK
<1>6. ASSUME RefundRefused PROVE JobsInv'
  <2> DEFINE x == task[Worker].refund
  <2>1. x \in Refund /\ task[Worker].pc # "idle" /\ UNCHANGED <<opening, faults>>
    BY <1>6 DEF RefundRefused, Inv1, WorkerOK
  <2>2. /\ job'[x] = "done" /\ refund'[x].status \notin Executable
        /\ \A r \in Refund : r # x => job'[r] = job[r] /\ refund'[r] = refund[r]
    BY <1>0, <1>6, <2>1 DEF RefundRefused, Executable, RefundRow
  <2>3. \A r \in Refund : r # x => job[r] # "active"
    BY DEF JobsInv, JobOK
  <2> HIDE DEF x
  <2> QED BY <2>1, <2>2, <2>3 DEF JobsInv, JobOK
<1>7. ASSUME RefundCallThrows \/ WorkerThrows PROVE JobsInv'
  BY <1>0, <1>7, AttemptJobs DEF RefundCallThrows, WorkerThrows
<1>8. ASSUME NEW h \in Hook, RecordExternalRefund(h) PROVE JobsInv'
  <2>1. \A r \in Refund : refund'[r].status \in Executable
                            => refund'[r] = refund[r]
    BY <1>0, <1>8 DEF RecordExternalRefund, Executable, Free
  <2>2. task'[Worker] = task[Worker] /\ UNCHANGED <<job, opening, faults>>
    BY <1>0, <1>8 DEF RecordExternalRefund
  <2> QED BY <2>1, <2>2 DEF JobsInv, JobOK
<1>9. ASSUME NEW h \in Hook,
             \/ NothingToRecord(h) \/ WebhookThrows(h)
             \/ \E p \in Payment : InspectCharge(h, p)
      PROVE  JobsInv'
  <2>1. task'[Worker] = task[Worker]
    BY <1>0, <1>9 DEF NothingToRecord, WebhookThrows, InspectCharge
  <2>2. UNCHANGED <<job, opening, refund>>
    BY <1>9 DEF NothingToRecord, WebhookThrows, InspectCharge
  <2>3. faults' = faults \/ faults' = faults + 1
    BY <1>9 DEF NothingToRecord, WebhookThrows, InspectCharge
  <2>4. faults > 0 => faults' > 0
    BY <1>0, <2>3
  <2> QED BY <2>1, <2>2, <2>4 DEF JobsInv, JobOK
<1>10. ASSUME NEW t \in Task, SumReturned(t) \/ MarkPayment(t) PROVE JobsInv'
  <2>1. /\ task'[Worker].refund = task[Worker].refund
        /\ task[Worker].pc # "idle" => task'[Worker].pc # "idle"
        /\ UNCHANGED <<job, opening, refund, faults>>
    BY <1>0, <1>10 DEF SumReturned, MarkPayment, TaskState
  <2> QED BY <2>1 DEF JobsInv, JobOK
<1>11. ASSUME NEW t \in Task, MarkRefunded(t) PROVE JobsInv'
  <2>1. CASE task[t].full
    <3>1. /\ task'[Worker].refund = task[Worker].refund
          /\ task[Worker].pc # "idle" => task'[Worker].pc # "idle"
          /\ UNCHANGED <<job, opening, refund, faults>>
      BY <1>0, <1>11, <2>1 DEF MarkRefunded, TaskState
    <3> QED BY <3>1 DEF JobsInv, JobOK
  <2>2. CASE ~task[t].full
    BY <1>11, <2>2, FinishJobs DEF MarkRefunded, After
  <2> QED BY <2>1, <2>2
<1>12. ASSUME NEW t \in Task, QueueRestock(t) PROVE JobsInv'
  BY <1>12, FinishJobs DEF QueueRestock, After
<1>13. CASE Crash
  <2>1. faults' > 0 /\ refund' = refund
    BY <1>0, <1>13 DEF Crash
  <2>2. ASSUME NEW r \in Refund PROVE JobOK(r)'
    <3>1. job'[r] \in {"waiting", "failed"} \/ (job'[r] = job[r] /\ job[r] # "active")
      BY <1>13 DEF Crash, Running
    <3> QED BY <2>1, <3>1 DEF JobsInv, JobOK
  <2> QED BY <2>2 DEF JobsInv
<1>15. CASE LastAttemptLost
  <2> DEFINE x == task[Worker].refund
  <2>1. /\ x \in Refund /\ job' = [job EXCEPT ![x] = "failed"]
        /\ faults' > 0 /\ UNCHANGED <<refund, opening>>
    BY <1>0, <1>15 DEF LastAttemptLost, Inv1, WorkerOK
  <2>2. \A r \in Refund : r # x => job[r] # "active"
    BY DEF JobsInv, JobOK
  <2> HIDE DEF x
  <2>3. ASSUME NEW r \in Refund PROVE JobOK(r)'
    <3>1. job'[r] = "failed" \/ (job'[r] = job[r] /\ job[r] # "active")
      BY <1>0, <2>1, <2>2
    <3> QED BY <2>1, <3>1 DEF JobsInv, JobOK
  <2> QED BY <2>3 DEF JobsInv
<1>14. ASSUME UNCHANGED <<job, opening, refund, task, faults>> PROVE JobsInv'
  BY <1>14 DEF JobsInv, JobOK
<1> QED
  BY <1>1, <1>2, <1>3, <1>4, <1>5, <1>6, <1>7, <1>8, <1>9, <1>10, <1>11, <1>12,
     <1>13, <1>14, <1>15
     DEF Next, WorkerStep, WebhookStep, vars, StoreRefunds, MoneyMoves, IgnoreNotice,
         RunRestock, Task

(* A refund that was requested and has not ended is always in somebody's hands:
   its requester is about to queue it, its job waits, or the worker is executing
   it.  What can leave one behind is a failure of the platform: a requester that
   dies between the row and the queue, failRefund failing with the last attempt,
   a job that dies with the process a second time.  The provider's refusals and
   lost answers, failed attempts and webhooks never do. *)
THEOREM OpenRefundsAreAttended == Spec => []OpenIsAttended
<1>1. Init => JobsInv
  BY DEF Init, JobsInv, JobOK, NoRow, Executable
<1>2. Inv1 /\ JobsInv => OpenIsAttended
  <2> SUFFICES ASSUME Inv1, JobsInv, NEW r \in Refund, refund[r].status \in Executable
               PROVE  \/ r \in opening
                      \/ job[r] = "waiting"
                      \/ /\ job[r] = "active" /\ task[Worker].refund = r
                         /\ task[Worker].pc \in {"provider", "answered"}
                      \/ job[r] \in {"none", "failed"} /\ faults > 0
    BY DEF OpenIsAttended
  <2>1. CASE job[r] = "active"
    <3>1. task[Worker].pc # "idle" /\ task[Worker].refund = r
      BY <2>1 DEF JobsInv, JobOK
    <3>2. task[Worker].pc \notin After /\ task[Worker].pc # "record"
      BY <3>1 DEF Inv1, WorkerOK, Executable
    <3>3. task[Worker].pc \in Pc
      BY DEF Inv1, TypeOK, Task, TaskState
    <3> QED BY <2>1, <3>1, <3>2, <3>3 DEF Pc, After
  <2>2. CASE job[r] # "active"
    BY <2>2 DEF JobsInv, JobOK, Inv1, TypeOK, JobState
  <2> QED BY <2>1, <2>2
<1> QED BY InitInv1, NextInv1, <1>1, NextJobs, <1>2, PTL DEF Spec

-----------------------------------------------------------------------------
(***************************************************************************)
(* Then the orders.  While nothing has failed, a payment that was given       *)
(* back whole has closed its order, or somebody is on the way to do so who *)
(* has not added the refunds up yet, or saw that they cover the charge.    *)
(***************************************************************************)
Pursues(t, p) ==
  /\ task[t].payment = p
  /\ task[t].pc = "sum" \/ (task[t].pc \in {"payment", "order"} /\ task[t].full)

WholeIsPursued ==
  faults = 0 => \A p \in Payment : Returned(p) > 0 /\ Whole(p) =>
                  order[OrderOf[p]] # "PAID" \/ \E t \in Task : Pursues(t, p)

(* Nothing opens a closed order. *)
LEMMA ClosedStays ==
  ASSUME Inv1, [Next]_vars, NEW o \in Order, order'[o] = "PAID"
  PROVE  order[o] = "PAID"
<1>1. ASSUME NEW t \in Task, MarkRefunded(t) PROVE order[o] = "PAID"
  BY <1>1 DEF MarkRefunded, Inv1, TypeOK
<1>2. CASE UNCHANGED order
  BY <1>2
<1>3. UNCHANGED order \/ \E t \in Task : MarkRefunded(t)
  BY DEF Next, WorkerStep, WebhookStep, vars, RequestRefund, StoreRefunds,
         MoneyMoves, IgnoreNotice,
         QueueRefund, StartRefund, SkipRefund, RefundApproved, RefundRefused,
         RefundCallThrows, CompleteRefund, SumReturned, MarkPayment, QueueRestock,
         RunRestock, RecordExternalRefund, NothingToRecord, WebhookThrows,
         InspectCharge, WorkerThrows, LastAttemptLost, Crash, Task
<1> QED BY <1>1, <1>2, <1>3

(* Whoever pursues a whole refund goes on, to the order. *)
LEMMA PursuerStays ==
  ASSUME Inv1, [Next]_vars, faults' = faults, NEW t \in Task, NEW CONSTANT p \in Payment,
         Pursues(t, p), Whole(p)
  PROVE  Pursues(t, p)' \/ order'[OrderOf[p]] # "PAID"
<1>0. /\ task \in [Task -> TaskState] /\ Worker \in Task /\ faults \in Nat
      /\ task[t].payment = p /\ task[t].pc \in {"sum", "payment", "order"}
      /\ task[t].pc # "sum" => task[t].full
      /\ order \in [Order -> OrderStatus] /\ OrderOf[p] \in Order
  BY DEF Inv1, TypeOK, Task, Pursues
<1>1. CASE task'[t] = task[t]
  BY <1>1 DEF Pursues
<1>2. CASE SumReturned(t)
  BY <1>0, <1>2 DEF SumReturned, Pursues, TaskState, IsFull, Whole
<1>3. CASE MarkPayment(t)
  BY <1>0, <1>3 DEF MarkPayment, Pursues, TaskState
<1>4. CASE MarkRefunded(t)
  <2>1. order' = [order EXCEPT ![OrderOf[p]] = IF @ = "PAID" THEN "REFUNDED" ELSE @]
    BY <1>0, <1>4 DEF MarkRefunded
  <2> QED BY <1>0, <2>1
<1>5. ASSUME NEW u \in Task, u # t,
             SumReturned(u) \/ MarkPayment(u) \/ MarkRefunded(u) \/ QueueRestock(u)
      PROVE  task'[t] = task[t]
  BY <1>0, <1>5 DEF SumReturned, MarkPayment, MarkRefunded, QueueRestock, Finish
<1>6. ASSUME NEW r \in Refund, StartRefund(r) PROVE task'[t] = task[t]
  BY <1>0, <1>6 DEF StartRefund
<1>7. ASSUME RefundApproved \/ RefundRefused \/ RefundCallThrows \/ CompleteRefund
      PROVE  task'[t] = task[t]
  BY <1>0, <1>7 DEF RefundApproved, RefundRefused, RefundCallThrows, AttemptFails,
                    CompleteRefund
<1>8. ASSUME NEW h \in Hook,
             \/ RecordExternalRefund(h) \/ NothingToRecord(h)
             \/ \E q \in Payment : InspectCharge(h, q)
      PROVE  task'[t] = task[t]
  BY <1>0, <1>8 DEF RecordExternalRefund, NothingToRecord, InspectCharge
<1>9. ASSUME \/ WorkerThrows \/ LastAttemptLost \/ Crash
             \/ \E h \in Hook : WebhookThrows(h)
      PROVE  FALSE
  BY <1>0, <1>9 DEF WorkerThrows, LastAttemptLost, Crash, WebhookThrows
<1>10. ~QueueRestock(t)
  BY <1>0 DEF QueueRestock
<1>11. CASE UNCHANGED task
  BY <1>1, <1>11
<1> QED
  BY <1>1, <1>2, <1>3, <1>4, <1>5, <1>6, <1>7, <1>8, <1>9, <1>10, <1>11
     DEF Next, WorkerStep, WebhookStep, vars, RequestRefund, StoreRefunds,
         MoneyMoves, IgnoreNotice,
         QueueRefund, SkipRefund, RunRestock, Task

(* A refund is completed by somebody who then adds them up. *)
LEMMA CompleterPursues ==
  ASSUME Inv1, [Next]_vars, NEW r \in Refund,
         refund'[r].status = "COMPLETED", refund[r].status # "COMPLETED"
  PROVE  \E t \in Task : task'[t].pc = "sum" /\ task'[t].payment = refund'[r].payment
<1>0. /\ task \in [Task -> TaskState] /\ Worker \in Task
      /\ refund \in [Refund -> RefundRow]
  BY DEF Inv1, TypeOK, Task
<1>1. CASE CompleteRefund
  <2> DEFINE x == task[Worker].refund
  <2>1. /\ x \in Refund /\ refund[x].payment = task[Worker].payment
        /\ refund' = [refund EXCEPT ![x].status = "COMPLETED"]
    BY <1>1 DEF CompleteRefund, Inv1, WorkerOK
  <2>2. r = x /\ refund'[r].payment = task[Worker].payment
    BY <1>0, <2>1
  <2>3. task'[Worker].pc = "sum" /\ task'[Worker].payment = task[Worker].payment
    BY <1>0, <1>1 DEF CompleteRefund, TaskState
  <2> QED BY <1>0, <2>2, <2>3
<1>2. ASSUME NEW h \in Hook, RecordExternalRefund(h)
      PROVE  \E t \in Task : task'[t].pc = "sum" /\ task'[t].payment = refund'[r].payment
  <2>1. PICK x \in Free : refund' = [refund EXCEPT ![x] = [status |-> "COMPLETED",
                                       payment |-> task[h].payment,
                                       amount |-> Unrecorded(h)]]
    BY <1>2 DEF RecordExternalRefund
  <2>2. r = x /\ refund'[r].payment = task[h].payment
    BY <1>0, <2>1 DEF Free
  <2>3. h \in Task /\ task'[h].pc = "sum" /\ task'[h].payment = task[h].payment
    BY <1>0, <1>2 DEF RecordExternalRefund, TaskState, Task
  <2> QED BY <2>2, <2>3
<1>3. ASSUME AttemptFails(task[Worker].refund), task[Worker].pc # "idle" PROVE FALSE
  BY <1>3, AttemptStep DEF Inv1, WorkerOK
<1>4. ASSUME \E q \in Refund : StartRefund(q) PROVE FALSE
  BY <1>0, <1>4 DEF StartRefund
<1>5. ASSUME RefundRefused PROVE FALSE
  BY <1>0, <1>5 DEF RefundRefused
<1>6. ASSUME NEW p \in Payment, NEW a \in RefundAmounts, RequestRefund(p, a) PROVE FALSE
  BY <1>0, <1>6 DEF RequestRefund, Free
<1>7. refund' # refund
  OBVIOUS
<1> QED
  BY <1>1, <1>2, <1>3, <1>4, <1>5, <1>6, <1>7
     DEF Next, WorkerStep, WebhookStep, vars, StoreRefunds, MoneyMoves,
         IgnoreNotice, QueueRefund, SkipRefund,
         RefundApproved, RefundCallThrows, SumReturned, MarkPayment, MarkRefunded,
         QueueRestock, RunRestock, WebhookThrows, InspectCharge, NothingToRecord,
         WorkerThrows, LastAttemptLost, Crash

LEMMA NextPursued ==
  ASSUME Inv1, Inv1', WholeIsPursued, [Next]_vars
  PROVE  WholeIsPursued'
<1> SUFFICES ASSUME faults' = 0, NEW CONSTANT p \in Payment,
                    Returned(p)' > 0, Whole(p)', order'[OrderOf[p]] = "PAID"
             PROVE  \E t \in Task : Pursues(t, p)'
  BY DEF WholeIsPursued
<1>1. faults = 0
  <2>1. UNCHANGED faults \/ faults' = faults + 1
    BY DEF Next, WorkerStep, WebhookStep, vars, RequestRefund, StoreRefunds,
         MoneyMoves, IgnoreNotice,
           QueueRefund, StartRefund, SkipRefund, RefundApproved, RefundRefused,
           RefundCallThrows, CompleteRefund, SumReturned, MarkPayment, MarkRefunded,
           QueueRestock, RunRestock, RecordExternalRefund, NothingToRecord,
           WebhookThrows, InspectCharge, WorkerThrows, LastAttemptLost, Crash
  <2> QED BY <2>1 DEF Inv1, TypeOK
<1>2. CASE Returned(p) > 0 /\ Whole(p)
  <2>1. order[OrderOf[p]] = "PAID"
    BY ClosedStays, OrderOfType
  <2>2. PICK t \in Task : Pursues(t, p)
    BY <1>1, <1>2, <2>1 DEF WholeIsPursued
  <2>3. Pursues(t, p)'
    BY <1>1, <1>2, <2>2, PursuerStays
  <2> QED BY <2>3
<1>3. CASE ~(Returned(p) > 0 /\ Whole(p))
  <2>1. Returned(p)' # Returned(p)
    BY <1>3 DEF Whole
  <2>2. PICK r \in Refund :
          /\ \A q \in Refund : q # r => refund'[q] = refund[q]
          /\ Opens(r) \/ Executes(r) \/ Fails(r) \/ Completes(r) \/ Records(r)
    BY <2>1, NextRows DEF RowStep, Returned
  <2>3. refund'[r].payment = p /\ (Completes(r) \/ Records(r))
    BY <2>1, <2>2, RowSums
  <2>4. PICK t \in Task : task'[t].pc = "sum" /\ task'[t].payment = p
    BY <2>3, CompleterPursues DEF Completes, Records
  <2> QED BY <2>4 DEF Pursues
<1> QED BY <1>2, <1>3

(* A full refund is not forgotten (afterRefundCompleted): whichever of the
   worker and the webhooks completes the row that makes it full, and however
   their steps interleave, somebody still has to close the order until it is
   closed.  It is what is left of FullRefundClosesOrder without fairness. *)
THEOREM FullRefundsArePursued == Spec => []WholeIsPursued
<1>1. Init => WholeIsPursued
  BY InitSums DEF WholeIsPursued
<1> QED BY InitInv1, NextInv1, <1>1, NextPursued, PTL DEF Spec
=============================================================================
