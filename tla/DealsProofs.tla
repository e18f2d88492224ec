----------------------------- MODULE DealsProofs -----------------------------
(***************************************************************************)
(* Proofs about Deals, for any people, products and proposals, any number  *)
(* of requests at the same time and any number of faults.                  *)
(***************************************************************************)
EXTENDS Deals, TLAPS

USE DEF Pc

-----------------------------------------------------------------------------
(* Types.  What a request or the sweep may be doing, and what it then knows. *)
TaskOK(t, x) ==
  /\ x.pc \notin {"idle", "next"} => x.deal \in Deal
  /\ x.pc \in {"confirm", "striking"} => x.who \in User
  /\ x.pc \in {"strike", "striking"} =>
       x.then \in IF t = Sweeper THEN {"next"} ELSE {"complete", "void"}
  /\ x.seen < Threshold
  /\ IF t = Sweeper THEN x.pc \in {"idle", "next", "release", "strike", "striking"}
     ELSE x.pc # "next"
  /\ t = Sweeper /\ x.pc = "release" => x.then = "next"

TasksOK == \A t \in Task : TaskOK(t, task[t])

TypeInv == TypeOK /\ TasksOK

LEMMA IdleType ==
  /\ Idle \in TaskState
  /\ Idle.pc = "idle" /\ Idle.deal = None /\ Idle.who = None /\ Idle.cash = FALSE
  /\ Idle.todo = {} /\ Idle.seen = 0 /\ Idle.then = "idle" /\ Idle.batch = {}
  BY ThresholdType DEF Idle, TaskState

LEMMA PartiesType ==
  ASSUME NEW d \in Deal
  PROVE  /\ Parties(d) \subseteq User
         /\ CashReceiver(d) \in Parties(d) \cup {None}
<1>1. Buyer(d) \in User /\ Seller(d) \in User
  BY TermsType DEF Buyer, Seller
<1> QED BY <1>1 DEF Parties, CashReceiver

(* What the three ways to move on do. *)
LEMMA GotoIs ==
  ASSUME task \in [Task -> TaskState], NEW t \in Task, NEW pc \in Pc, Goto(t, pc)
  PROVE  \E y \in TaskState :
           /\ task' = [task EXCEPT ![t] = y]
           /\ y.pc = pc /\ y.deal = task[t].deal /\ y.who = task[t].who
           /\ y.cash = task[t].cash /\ y.todo = task[t].todo /\ y.seen = task[t].seen
           /\ y.then = task[t].then /\ y.batch = task[t].batch
<1> DEFINE y == [task[t] EXCEPT !.pc = pc]
<1>1. /\ y \in TaskState
      /\ y.pc = pc /\ y.deal = task[t].deal /\ y.who = task[t].who
      /\ y.cash = task[t].cash /\ y.todo = task[t].todo /\ y.seen = task[t].seen
      /\ y.then = task[t].then /\ y.batch = task[t].batch
  BY DEF TaskState
<1>2. task' = [task EXCEPT ![t] = y]
  BY DEF Goto
<1> HIDE DEF y
<1> QED BY <1>1, <1>2

LEMMA BeginIs ==
  ASSUME task \in [Task -> TaskState], NEW t \in Task, NEW d \in Deal, NEW pc \in Pc,
         Begin(t, d, pc)
  PROVE  \E y \in TaskState :
           /\ task' = [task EXCEPT ![t] = y]
           /\ y.pc = pc /\ y.deal = d /\ y.todo = {} /\ y.seen = 0 /\ y.then = "idle"
<1> DEFINE y == [Idle EXCEPT !.pc = pc, !.deal = d]
<1>1. /\ y \in TaskState
      /\ y.pc = pc /\ y.deal = d /\ y.todo = {} /\ y.seen = 0 /\ y.then = "idle"
  BY IdleType, ZenonT(60) DEF TaskState
<1>2. task' = [task EXCEPT ![t] = y]
  BY DEF Begin
<1> HIDE DEF y
<1> QED BY <1>1, <1>2

LEMMA TaskTypes ==
  ASSUME TypeInv, NEW t \in Task, NEW y \in TaskState, TaskOK(t, y),
         task' = [task EXCEPT ![t] = y]
  PROVE  task' \in [Task -> TaskState] /\ TasksOK'
  BY DEF TypeInv, TypeOK, TasksOK, TaskOK

LEMMA DoneTypes ==
  ASSUME TypeInv, NEW t \in Task, Done(t)
  PROVE  task' \in [Task -> TaskState] /\ TasksOK'
<1>1. TaskOK(t, Idle)
  BY IdleType, ThresholdType DEF TaskOK
<1> QED BY <1>1, IdleType, TaskTypes DEF Done

(* A request moves on to a later step of its own. *)
LEMMA GotoTypes ==
  ASSUME TypeInv, NEW t \in Task, task[t].pc \notin {"idle", "next"},
         NEW pc \in Pc \ {"idle", "confirm", "strike", "striking"}, Goto(t, pc),
         t = Sweeper => pc = "next",
         t # Sweeper => pc # "next"
  PROVE  task' \in [Task -> TaskState] /\ TasksOK'
<1>1. task \in [Task -> TaskState] /\ TaskOK(t, task[t])
  BY DEF TypeInv, TypeOK, TasksOK
<1>2. PICK y \in TaskState :
        /\ task' = [task EXCEPT ![t] = y]
        /\ y.pc = pc /\ y.deal = task[t].deal /\ y.seen = task[t].seen
  BY <1>1, GotoIs
<1>3. TaskOK(t, y)
  BY <1>1, <1>2 DEF TaskOK
<1> QED BY <1>2, <1>3, TaskTypes

LEMMA BeginTypes ==
  ASSUME TypeInv, NEW t \in Handler, NEW d \in Deal,
         NEW pc \in Pc \ {"idle", "next", "confirm", "strike", "striking"}, Begin(t, d, pc)
  PROVE  task' \in [Task -> TaskState] /\ TasksOK'
<1>1. task \in [Task -> TaskState] /\ t \in Task /\ t # Sweeper
  BY HandlerType DEF TypeInv, TypeOK, Task
<1>2. PICK y \in TaskState :
        /\ task' = [task EXCEPT ![t] = y]
        /\ y.pc = pc /\ y.deal = d /\ y.seen = 0
  BY <1>1, BeginIs
<1>3. TaskOK(t, y)
  BY <1>1, <1>2, ThresholdType DEF TaskOK
<1> QED BY <1>1, <1>2, <1>3, TaskTypes

LEMMA TypeInit == Init => TypeInv
<1> SUFFICES ASSUME Init PROVE TypeInv
  OBVIOUS
<1>1. task \in [Task -> TaskState] /\ TasksOK
  BY IdleType, ThresholdType DEF Init, TasksOK, TaskOK
<1>2. strikes \in [User -> 0..(Threshold - 1)]
  BY ThresholdType DEF Init
<1> QED BY <1>1, <1>2 DEF Init, TypeInv, TypeOK, DealStatus

-----------------------------------------------------------------------------
(* The steps. *)
LEMMA RequestTypes ==
  ASSUME TypeInv, NEW h \in Handler, NEW d \in Deal, Request(h, d)
  PROVE  TypeInv'
<1>1. /\ task \in [Task -> TaskState] /\ h \in Task /\ h # Sweeper
      /\ requests' \in Nat
  BY HandlerType DEF TypeInv, TypeOK, Task, Request
<1>2. CASE \/ CheckListing(h, d) \/ LoadAccept(h, d) \/ LoadDecline(h, d) \/ LoadDispute(h, d)
  <2>1. task' \in [Task -> TaskState] /\ TasksOK'
    BY <1>2, BeginTypes DEF CheckListing, LoadAccept, LoadDecline, LoadDispute
  <2> QED BY <1>1, <1>2, <2>1 DEF CheckListing, LoadAccept, LoadDecline, LoadDispute, TypeInv,
        TypeOK, rows, products, reputation, points
<1>3. ASSUME NEW u \in Parties(d), NEW cash \in BOOLEAN, LoadConfirm(h, d, u, cash)
      PROVE  TypeInv'
  <2> DEFINE y == [Idle EXCEPT !.pc = "confirm", !.deal = d, !.who = u,
                               !.cash = cash /\ u = CashReceiver(d)]
  <2>1. y \in TaskState /\ y.pc = "confirm" /\ y.deal = d /\ y.who \in User /\ y.seen = 0
    BY PartiesType, IdleType, ZenonT(60) DEF TaskState
  <2>2. task' = [task EXCEPT ![h] = y]
    BY <1>3 DEF LoadConfirm
  <2> HIDE DEF y
  <2>3. TaskOK(h, y)
    BY <1>1, <2>1, ThresholdType DEF TaskOK
  <2>4. task' \in [Task -> TaskState] /\ TasksOK'
    BY <1>1, <2>1, <2>2, <2>3, TaskTypes
  <2> QED BY <1>1, <1>3, <2>4 DEF LoadConfirm, TypeInv, TypeOK, rows, products, reputation, points
<1>4. CASE LoadCancel(h, d)
  <2> DEFINE y == [Idle EXCEPT !.pc = "cancel", !.deal = d, !.held = status[d] = "ACCEPTED"]
  <2>1. y \in TaskState /\ y.pc = "cancel" /\ y.deal = d /\ y.seen = 0
    BY IdleType DEF TaskState
  <2>2. task' = [task EXCEPT ![h] = y]
    BY <1>4 DEF LoadCancel
  <2> HIDE DEF y
  <2>3. TaskOK(h, y)
    BY <1>1, <2>1, ThresholdType DEF TaskOK
  <2>4. task' \in [Task -> TaskState] /\ TasksOK'
    BY <1>1, <2>1, <2>2, <2>3, TaskTypes
  <2> QED BY <1>1, <1>4, <2>4 DEF LoadCancel, TypeInv, TypeOK, rows, products, reputation, points
<1>5. ASSUME NEW outcome \in {"complete", "void"}, NEW struck \in SUBSET User,
             Rule(h, d, outcome, struck)
      PROVE  TypeInv'
  <2> DEFINE y == [Idle EXCEPT !.pc = IF struck = {} THEN outcome ELSE "strike",
                               !.deal = d, !.todo = struck, !.then = outcome]
  <2>1. /\ y \in TaskState /\ y.pc \in {"complete", "void", "strike"} /\ y.deal = d
        /\ y.seen = 0 /\ y.then = outcome
    BY IdleType, ZenonT(60) DEF TaskState
  <2>2. task' = [task EXCEPT ![h] = y]
    BY <1>5 DEF Rule
  <2> HIDE DEF y
  <2>3. TaskOK(h, y)
    BY <1>1, <2>1, ThresholdType DEF TaskOK
  <2>4. task' \in [Task -> TaskState] /\ TasksOK'
    BY <1>1, <2>1, <2>2, <2>3, TaskTypes
  <2>5. ruled' \subseteq Deal
    BY <1>5 DEF Rule, TypeInv, TypeOK
  <2> QED BY <1>1, <1>5, <2>4, <2>5 DEF Rule, TypeInv, TypeOK, rows, products, reputation, points
<1>6. \A u \in User : {u} \in SUBSET User
  OBVIOUS
<1> QED BY <1>2, <1>3, <1>4, <1>5, <1>6 DEF Request

(* The type of everything but the tasks. *)
DataOK ==
  /\ status \in [Deal -> DealStatus \cup {"NONE"}]
  /\ confirmed \in [Deal -> SUBSET User]
  /\ settled \in [Deal -> BOOLEAN]
  /\ overdue \subseteq Deal
  /\ reserved \in [Product -> Deal \cup {None}]
  /\ sold \subseteq Product
  /\ strikes \in [User -> 0..(Threshold - 1)]
  /\ failed \in [User -> Nat]
  /\ completed \in [User -> Nat]
  /\ blocked \subseteq User
  /\ credited \subseteq Deal \X User
  /\ ledger \in [Deal \X User -> Nat]
  /\ ruled \subseteq Deal
  /\ requests \in Nat
  /\ faults \in Nat

LEMMA TypeParts == TypeInv <=> DataOK /\ task \in [Task -> TaskState] /\ TasksOK
  BY DEF TypeInv, TypeOK, DataOK

LEMMA TypePartsNext ==
  TypeInv' <=> DataOK' /\ task' \in [Task -> TaskState] /\ TasksOK'
  BY DEF TypeInv, TypeOK, DataOK

(* What an award leaves of the request: who is still to be paid, and who was
   paid just now. *)
Awarded(h, u) ==
  [task[h] EXCEPT !.todo = task[h].todo \ {u},
                  !.fresh = task[h].fresh \cup
                              {v \in {u} : <<task[h].deal, v>> \notin credited}]

LEMMA AwardIs ==
  ASSUME task \in [Task -> TaskState], NEW h \in Task, NEW u \in User, AwardPoints(h, u)
  PROVE  /\ task[h].pc = "award"
         /\ task' = [task EXCEPT ![h] = Awarded(h, u)]
         /\ Awarded(h, u) \in TaskState
         /\ Awarded(h, u).pc = "award" /\ Awarded(h, u).deal = task[h].deal
         /\ Awarded(h, u).seen = task[h].seen
         /\ Awarded(h, u).fresh = task[h].fresh \cup
                                    {v \in {u} : <<task[h].deal, v>> \notin credited}
<1> DEFINE x == task[h].todo \ {u}
           f == task[h].fresh \cup {v \in {u} : <<task[h].deal, v>> \notin credited}
           y == [task[h] EXCEPT !.todo = x, !.fresh = f]
<1>1. task[h].pc = "award" /\ task' = [task EXCEPT ![h] = y]
  BY DEF AwardPoints
<1>2. x \in SUBSET User /\ f \in SUBSET User /\ task[h] \in TaskState
  BY DEF TaskState
<1>3. Awarded(h, u) = y
  BY DEF Awarded
<1> HIDE DEF x, f
<1>4. /\ y \in TaskState /\ y.pc = task[h].pc /\ y.deal = task[h].deal
      /\ y.seen = task[h].seen /\ y.fresh = f
  BY <1>2 DEF TaskState
<1> HIDE DEF y
<1> QED BY <1>1, <1>3, <1>4 DEF f

LEMMA AwardPays ==
  ASSUME TypeInv, NEW h \in Handler, (\E u \in User : AwardPoints(h, u)) \/ AwardThrows(h)
  PROVE  /\ task[h].pc = "award"
         /\ credited' \subseteq credited \cup ({task[h].deal} \X User)
<1>1. task[h].todo \in SUBSET User
  BY DEF TypeInv, TypeOK, Task, TaskState
<1>2. ASSUME NEW u \in User, AwardPoints(h, u)
      PROVE  task[h].pc = "award" /\ credited' = credited \cup ({task[h].deal} \X {u})
  BY <1>2 DEF AwardPoints
<1>3. CASE AwardThrows(h)
  <2>1. PICK paid \in SUBSET task[h].todo : credited' = credited \cup ({task[h].deal} \X paid)
    BY <1>3 DEF AwardThrows
  <2>2. paid \in SUBSET User
    BY <1>1
  <2> QED BY <1>3, <2>1, <2>2 DEF AwardThrows
<1> QED BY <1>2, <1>3

LEMMA HandlerTasks ==
  ASSUME TypeInv, NEW h \in Handler, HandlerStep(h)
  PROVE  task' \in [Task -> TaskState] /\ TasksOK'
<1>1. /\ task \in [Task -> TaskState] /\ h \in Task /\ h # Sweeper /\ TaskOK(h, task[h])
      /\ task[h] \in TaskState
  BY HandlerType DEF TypeInv, TypeOK, TasksOK, Task
<1>2. CASE CheckNoOpenDeal(h)
  BY <1>1, <1>2, GotoTypes, DoneTypes DEF CheckNoOpenDeal, TaskOK
<1>3. CASE Accept(h)
  BY <1>1, <1>3, GotoTypes DEF Accept, TaskOK
<1>4. CASE \/ Create(h) \/ Reserve(h) \/ Decline(h) \/ BumpReputation(h) \/ Dispute(h)
  BY <1>1, <1>4, DoneTypes DEF Create, Reserve, Decline, BumpReputation, Dispute
<1>5. CASE Confirm(h) \/ Cancel(h)
  BY <1>1, <1>5, BeginTypes, DoneTypes DEF Confirm, Cancel, TaskOK
<1>6. CASE Complete(h) \/ AwardThrows(h) \/ Void(h) \/ WriteLedger(h)
  BY <1>1, <1>6, GotoTypes DEF Complete, AwardThrows, Void, WriteLedger
<1>7. CASE MarkSold(h)
  <2> DEFINE n == Parties(task[h].deal)
             y == [task[h] EXCEPT !.pc = "award", !.todo = n, !.fresh = {}]
  <2>1. task[h].deal \in Deal /\ task' = [task EXCEPT ![h] = y]
    BY <1>1, <1>7 DEF MarkSold, TaskOK
  <2>2. n \in SUBSET User
    BY <2>1, PartiesType
  <2> HIDE DEF n
  <2>3. y \in TaskState /\ y.pc = "award" /\ y.deal = task[h].deal /\ y.seen = task[h].seen
    BY <1>1, <2>2 DEF TaskState
  <2> HIDE DEF y
  <2>4. TaskOK(h, y)
    BY <1>1, <2>1, <2>3 DEF TaskOK
  <2> QED BY <1>1, <2>1, <2>3, <2>4, TaskTypes
<1>8. ASSUME NEW u \in User, AwardPoints(h, u)
      PROVE  task' \in [Task -> TaskState] /\ TasksOK'
  <2> DEFINE y == Awarded(h, u)
  <2>1. /\ task' = [task EXCEPT ![h] = y] /\ task[h].pc = "award"
        /\ y \in TaskState /\ y.pc = "award" /\ y.deal = task[h].deal
        /\ y.seen = task[h].seen
    BY <1>1, <1>8, AwardIs
  <2> HIDE DEF y
  <2>2. TaskOK(h, y)
    BY <1>1, <2>1 DEF TaskOK
  <2> QED BY <1>1, <2>1, <2>2, TaskTypes
<1> QED BY <1>2, <1>3, <1>4, <1>5, <1>6, <1>7, <1>8 DEF HandlerStep

LEMMA HandlerData ==
  ASSUME TypeInv, NEW h \in Handler, HandlerStep(h)
  PROVE  DataOK'
<1>1. task[h] \in TaskState /\ TaskOK(h, task[h]) /\ DataOK
  BY TypeParts DEF TasksOK, Task
<1>2. task[h].pc # "idle" => task[h].deal \in Deal
  BY <1>1, HandlerType DEF TaskOK
<1> USE DEF rows, products, reputation, points, DataOK
<1>3. CASE CheckNoOpenDeal(h)
  BY <1>1, <1>3 DEF CheckNoOpenDeal
<1>4. ASSUME task[h].pc # "idle", NEW s \in DealStatus, SetStatus(h, s)
      PROVE  status' \in [Deal -> DealStatus \cup {"NONE"}]
  BY <1>1, <1>2, <1>4 DEF SetStatus
<1>5. CASE Create(h) \/ Decline(h) \/ Dispute(h) \/ Cancel(h) \/ Void(h) \/ Complete(h)
  BY <1>1, <1>4, <1>5 DEF Create, Decline, Dispute, Cancel, Void, Complete, DealStatus
<1>6. CASE Accept(h)
  BY <1>1, <1>4, <1>6 DEF Accept, DealStatus
<1>7. CASE Reserve(h)
  BY <1>1, <1>2, <1>7 DEF Reserve, Fault
<1>8. CASE MarkSold(h)
  <2>1. Items(task[h].deal) \subseteq Product
    BY <1>2, <1>8, TermsType DEF MarkSold, Items
  <2> QED BY <1>1, <1>8, <2>1 DEF MarkSold, Fault
<1>9. CASE Confirm(h)
  <2>1. task[h].who \in User /\ task[h].cash \in BOOLEAN
    BY <1>1, <1>9 DEF Confirm, TaskOK, TaskState
  <2> QED BY <1>1, <1>2, <1>9, <2>1 DEF Confirm
<1>10. CASE (\E u \in User : AwardPoints(h, u)) \/ AwardThrows(h)
  <2>1. credited' \subseteq credited \cup ({task[h].deal} \X User) /\ task[h].deal \in Deal
    BY <1>2, <1>10, AwardPays
  <2>2. credited' \subseteq Deal \X User
    BY <1>1, <2>1
  <2>3. /\ UNCHANGED <<status, confirmed, settled, overdue, reserved, sold, strikes, failed,
                       completed, blocked, ledger, ruled, requests>>
        /\ faults' \in Nat
    <3>1. CASE \E u \in User : AwardPoints(h, u)
      BY <1>1, <3>1 DEF AwardPoints
    <3>2. CASE AwardThrows(h)
      BY <1>1, <3>2 DEF AwardThrows, Fault
    <3> QED BY <1>10, <3>1, <3>2
  <2> QED BY <1>1, <2>2, <2>3
<1>11. CASE WriteLedger(h)
  BY <1>1, <1>11 DEF WriteLedger
<1>12. CASE BumpReputation(h)
  BY <1>1, <1>12 DEF BumpReputation
<1> QED BY <1>3, <1>5, <1>6, <1>7, <1>8, <1>9, <1>10, <1>11, <1>12 DEF HandlerStep

(* Strikes and releases, of a request or of the sweep. *)
LEMMA StrikingTypes ==
  ASSUME TypeInv, NEW t \in Task, Striking(t)
  PROVE  TypeInv'
<1>1. task \in [Task -> TaskState] /\ task[t] \in TaskState /\ TaskOK(t, task[t]) /\ DataOK
  BY TypeParts DEF TasksOK
<1>2. ASSUME NEW u \in User, ReadStrikes(t, u) PROVE TypeInv'
  <2> DEFINE jail == u \in blocked
             rest == task[t].todo \ {u}
             y == [task[t] EXCEPT !.pc = "striking", !.who = u, !.todo = rest,
                                  !.seen = strikes[u], !.jailed = jail]
  <2>1. /\ strikes[u] \in 0..Threshold /\ strikes[u] < Threshold
        /\ jail \in BOOLEAN /\ rest \in SUBSET User
    BY <1>1, ThresholdType DEF DataOK, TaskState
  <2> HIDE DEF jail, rest
  <2>2. /\ y \in TaskState /\ y.pc = "striking" /\ y.deal = task[t].deal /\ y.who = u
        /\ y.seen = strikes[u] /\ y.then = task[t].then
    BY <1>1, <2>1, ZenonT(60) DEF TaskState
  <2>3. task' = [task EXCEPT ![t] = y] /\ task[t].pc = "strike"
    BY <1>1, <1>2 DEF ReadStrikes, jail, rest
  <2> HIDE DEF y
  <2>4. TaskOK(t, y)
    BY <1>1, <2>1, <2>2, <2>3 DEF TaskOK
  <2>5. DataOK'
    BY <1>1, <1>2 DEF ReadStrikes, DataOK, rows, products, reputation, points
  <2> QED BY <2>2, <2>3, <2>4, <2>5, TaskTypes, TypePartsNext
<1>3. CASE Strike(t)
  <2> DEFINE u == task[t].who
             n == task[t].seen + 1
             pc == IF task[t].todo = {} THEN task[t].then ELSE "strike"
             y == [task[t] EXCEPT !.pc = pc, !.who = None, !.seen = 0, !.jailed = FALSE]
  <2>1. u \in User /\ n \in 1..Threshold
    <3>1. task[t].pc = "striking" /\ task[t].seen \in 0..Threshold
      BY <1>1, <1>3 DEF Strike, TaskState
    <3>2. task[t].who \in User /\ task[t].seen < Threshold
      BY <1>1, <3>1 DEF TaskOK
    <3> QED BY <3>1, <3>2, ThresholdType
  <2>2. StrikesAfter(n) \in 0..(Threshold - 1)
    BY <2>1, ThresholdType DEF StrikesAfter, ShouldBlock
  <2>3. /\ strikes' \in [User -> 0..(Threshold - 1)]
        /\ failed' \in [User -> Nat]
        /\ blocked' \subseteq User
    <3>1. /\ strikes \in [User -> 0..(Threshold - 1)] /\ failed \in [User -> Nat]
          /\ blocked \subseteq User
      BY <1>1 DEF DataOK
    <3>2. /\ strikes' = [strikes EXCEPT ![u] = StrikesAfter(n)]
          /\ failed' = [failed EXCEPT ![u] = failed[u] + 1]
      BY <1>3 DEF Strike
    <3>3. blocked' \subseteq blocked \cup {u}
      BY <1>3 DEF Strike
    <3> HIDE DEF u, n
    <3> QED BY <2>1, <2>2, <3>1, <3>2, <3>3
  <2>4. DataOK'
    BY <1>1, <1>3, <2>3 DEF Strike, DataOK, rows, products, points
  <2>5. /\ pc \in (IF t = Sweeper THEN {"next"} ELSE {"complete", "void"}) \cup {"strike"}
        /\ pc \in Pc
    BY <1>1, <1>3 DEF Strike, TaskOK
  <2> HIDE DEF pc
  <2>6. /\ y \in TaskState /\ y.pc = pc /\ y.deal = task[t].deal /\ y.seen = 0
        /\ y.then = task[t].then
    <3>1. 0 \in 0..Threshold
      BY ThresholdType
    <3> QED BY <1>1, <2>5, <3>1, ZenonT(60) DEF TaskState
  <2>7. task' = [task EXCEPT ![t] = y] /\ task[t].pc = "striking"
    BY <1>1, <1>3 DEF Strike, pc
  <2> HIDE DEF y
  <2>8. TaskOK(t, y)
    BY <1>1, <2>5, <2>6, <2>7, ThresholdType DEF TaskOK
  <2> QED BY <2>4, <2>6, <2>7, <2>8, TaskTypes, TypePartsNext
<1>4. CASE Release(t)
  <2>1. DataOK'
    <3>1. reserved' \in [Product -> Deal \cup {None}] /\ faults' \in Nat
      BY <1>1, <1>4 DEF Release, Fault, DataOK
    <3> QED BY <1>1, <1>4, <3>1 DEF Release, DataOK, rows, reputation, points
  <2>2. \/ t = Sweeper /\ (Goto(t, "strike") \/ Goto(t, "next"))
        \/ Done(t)
    BY <1>4 DEF Release
  <2>3. t = Sweeper /\ Goto(t, "strike") => task' \in [Task -> TaskState] /\ TasksOK'
    <3> SUFFICES ASSUME t = Sweeper, Goto(t, "strike")
                 PROVE  task' \in [Task -> TaskState] /\ TasksOK'
      OBVIOUS
    <3>1. PICK y \in TaskState :
            /\ task' = [task EXCEPT ![t] = y]
            /\ y.pc = "strike" /\ y.deal = task[t].deal /\ y.seen = task[t].seen
            /\ y.then = task[t].then
      BY <1>1, GotoIs
    <3>2. TaskOK(t, y)
      BY <1>1, <1>4, <3>1 DEF TaskOK, Release
    <3> QED BY <3>1, <3>2, TaskTypes
  <2>4. t = Sweeper /\ Goto(t, "next") => task' \in [Task -> TaskState] /\ TasksOK'
    BY <1>4, GotoTypes DEF Release
  <2> QED BY <2>1, <2>2, <2>3, <2>4, DoneTypes, TypePartsNext
<1> QED BY <1>2, <1>3, <1>4 DEF Striking

LEMMA SweeperTypes ==
  ASSUME TypeInv, SweeperStep
  PROVE  TypeInv'
<1>1. /\ task \in [Task -> TaskState] /\ Sweeper \in Task /\ TaskOK(Sweeper, task[Sweeper])
      /\ task[Sweeper] \in TaskState /\ DataOK
  BY TypeParts DEF TasksOK, Task
<1>2. CASE Striking(Sweeper)
  BY <1>1, <1>2, StrikingTypes
<1>3. CASE StartSweep
  <2> DEFINE b == {<<d, Offenders(d)>> : d \in {e \in Deal : IsLate(e)}}
             y == [Idle EXCEPT !.pc = "next", !.batch = b]
  <2>1. b \in SUBSET (Deal \X SUBSET User)
    BY PartiesType DEF Offenders
  <2> HIDE DEF b
  <2>2. y \in TaskState /\ y.pc = "next" /\ y.seen = 0
    BY <2>1, IdleType DEF TaskState
  <2>3. task' = [task EXCEPT ![Sweeper] = y]
    BY <1>3 DEF StartSweep, b
  <2> HIDE DEF y
  <2>4. TaskOK(Sweeper, y)
    BY <2>2, ThresholdType DEF TaskOK
  <2>5. DataOK'
    BY <1>1, <1>3 DEF StartSweep, DataOK, rows, products, reputation, points
  <2> QED BY <1>1, <2>2, <2>3, <2>4, <2>5, TaskTypes, TypePartsNext
<1>4. CASE EndSweep
  <2>1. DataOK'
    BY <1>1, <1>4 DEF EndSweep, DataOK, rows, products, reputation, points
  <2> QED BY <1>1, <1>4, <2>1, DoneTypes, TypePartsNext DEF EndSweep
<1>5. ASSUME NEW d \in Deal, NEW offenders \in SUBSET User, Expire(d, offenders) PROVE TypeInv'
  <2> DEFINE b == task[Sweeper].batch \ {<<d, offenders>>}
             y == [task[Sweeper] EXCEPT !.pc = "release", !.deal = d, !.todo = offenders,
                                        !.then = "next", !.batch = b]
  <2>1. b \in SUBSET (Deal \X SUBSET User)
    BY <1>1 DEF TaskState
  <2> HIDE DEF b
  <2>2. /\ y \in TaskState /\ y.pc = "release" /\ y.deal = d /\ y.then = "next"
        /\ y.seen = task[Sweeper].seen
    BY <1>1, <2>1 DEF TaskState
  <2>3. task' = [task EXCEPT ![Sweeper] = y]
    BY <1>1, <1>5 DEF Expire, b
  <2> HIDE DEF y
  <2>4. TaskOK(Sweeper, y)
    BY <1>1, <2>2 DEF TaskOK
  <2>5. DataOK'
    BY <1>1, <1>5 DEF Expire, DataOK, products, reputation, points, DealStatus
  <2> QED BY <1>1, <2>2, <2>3, <2>4, <2>5, TaskTypes, TypePartsNext
<1> QED BY <1>2, <1>3, <1>4, <1>5 DEF SweeperStep

LEMMA TypeStep == TypeInv /\ [Next]_vars => TypeInv'
<1> SUFFICES ASSUME TypeInv, [Next]_vars PROVE TypeInv'
  OBVIOUS
<1>0. DataOK /\ Handler \subseteq Task /\ Sweeper \in Task
  BY TypeParts DEF Task
<1>1. ASSUME NEW h \in Handler, HandlerStep(h) PROVE TypeInv'
  BY <1>1, HandlerTasks, HandlerData, TypePartsNext
<1>2. ASSUME NEW t \in Task, Striking(t) PROVE TypeInv'
  BY <1>2, StrikingTypes
<1>3. ASSUME NEW t \in Task, Abort(t) PROVE TypeInv'
  <2>1. DataOK'
    BY <1>0, <1>3 DEF Abort, Fault, DataOK, rows, products, reputation, points
  <2> QED BY <1>3, <2>1, DoneTypes, TypePartsNext DEF Abort
<1>4. ASSUME NEW h \in Handler, NEW d \in Deal, Request(h, d) PROVE TypeInv'
  BY <1>4, RequestTypes
<1>5. CASE SweeperStep
  BY <1>5, SweeperTypes
<1>6. ASSUME NEW d \in Deal, DeadlinePasses(d) PROVE TypeInv'
  BY <1>6 DEF DeadlinePasses, TypeInv, TypeOK, TasksOK, products, reputation, points
<1>7. ASSUME NEW u \in User, BlockEnds(u) PROVE TypeInv'
  BY <1>7 DEF BlockEnds, TypeInv, TypeOK, TasksOK, rows, products, points
<1>8. CASE UNCHANGED vars
  BY <1>8 DEF vars, TypeInv, TypeOK, TasksOK, rows, products, reputation, points
<1> QED BY <1>0, <1>1, <1>2, <1>3, <1>4, <1>5, <1>6, <1>7, <1>8 DEF Next

(* Every variable of the deals keeps its type; no strike counter reaches the
   threshold, whatever reads and writes of it interleave. *)
THEOREM TypeCorrect == Spec => []TypeOK
<1>1. TypeInv => TypeOK
  BY DEF TypeInv
<1> QED BY <1>1, TypeInit, TypeStep, PTL DEF Spec

-----------------------------------------------------------------------------
(* Where each kind of step leaves its actor. *)
HandlerMove(t, y) ==
  /\ y.pc \in {"idle", "create", "reserve", "release", "complete", "sell", "award", "bump"}
  /\ y.pc # "idle" => y.deal = task[t].deal
  /\ y.pc = "complete" => task[t].pc = "confirm"
  /\ y.pc = "sell" => task[t].pc = "complete"
  /\ y.pc = "award" => task[t].pc = "award" \/ (task[t].pc = "sell" /\ y.fresh = {})
  /\ y.pc = "bump" => task[t].pc = "award"

LEMMA HandlerMoves ==
  ASSUME TypeInv, NEW h \in Handler, HandlerStep(h)
  PROVE  \E y \in TaskState : task' = [task EXCEPT ![h] = y] /\ HandlerMove(h, y)
<1>1. /\ task \in [Task -> TaskState] /\ h \in Task /\ TaskOK(h, task[h])
      /\ task[h] \in TaskState
  BY DEF TypeInv, TypeOK, TasksOK, Task
<1>g. ASSUME NEW pc \in {"create", "reserve", "sell", "bump", "release"}, Goto(h, pc),
             pc = "sell" => task[h].pc = "complete",
             pc = "bump" => task[h].pc = "award"
      PROVE  \E y \in TaskState : task' = [task EXCEPT ![h] = y] /\ HandlerMove(h, y)
  BY <1>1, <1>g, GotoIs DEF HandlerMove
<1>d. ASSUME Done(h)
      PROVE  \E y \in TaskState : task' = [task EXCEPT ![h] = y] /\ HandlerMove(h, y)
  BY <1>d, IdleType DEF Done, HandlerMove
<1>b. ASSUME NEW pc \in {"complete", "release"}, Begin(h, task[h].deal, pc),
             task[h].pc \in {"confirm", "cancel"}, pc = "complete" => task[h].pc = "confirm"
      PROVE  \E y \in TaskState : task' = [task EXCEPT ![h] = y] /\ HandlerMove(h, y)
  <2>1. task[h].deal \in Deal
    BY <1>1, <1>b DEF TaskOK
  <2> QED BY <1>1, <1>b, <2>1, BeginIs DEF HandlerMove
<1>2. CASE CheckNoOpenDeal(h)
  BY <1>2, <1>g, <1>d DEF CheckNoOpenDeal
<1>3. CASE Accept(h)
  BY <1>3, <1>g DEF Accept
<1>4. CASE \/ Create(h) \/ Reserve(h) \/ Decline(h) \/ BumpReputation(h) \/ Dispute(h)
  BY <1>4, <1>d DEF Create, Reserve, Decline, BumpReputation, Dispute
<1>5. CASE Confirm(h) \/ Cancel(h)
  BY <1>5, <1>b, <1>d DEF Confirm, Cancel
<1>6. CASE Complete(h) \/ AwardThrows(h) \/ Void(h) \/ WriteLedger(h)
  BY <1>6, <1>g DEF Complete, AwardThrows, Void, WriteLedger
<1>7. CASE MarkSold(h)
  <2> DEFINE n == Parties(task[h].deal)
             y == [task[h] EXCEPT !.pc = "award", !.todo = n, !.fresh = {}]
  <2>1. /\ task[h].deal \in Deal /\ task' = [task EXCEPT ![h] = y] /\ task[h].pc = "sell"
    BY <1>1, <1>7 DEF MarkSold, TaskOK
  <2>2. n \in SUBSET User
    BY <2>1, PartiesType
  <2> HIDE DEF n
  <2>3. y \in TaskState /\ y.pc = "award" /\ y.deal = task[h].deal /\ y.fresh = {}
    BY <1>1, <2>2 DEF TaskState
  <2> HIDE DEF y
  <2> QED BY <2>1, <2>3 DEF HandlerMove
<1>8. ASSUME NEW u \in User, AwardPoints(h, u)
      PROVE  \E y \in TaskState : task' = [task EXCEPT ![h] = y] /\ HandlerMove(h, y)
  BY <1>1, <1>8, AwardIs DEF HandlerMove
<1> QED BY <1>2, <1>3, <1>4, <1>5, <1>6, <1>7, <1>8 DEF HandlerStep

RequestMove(d, y) ==
  /\ y.pc \in {"check", "accept", "decline", "confirm", "dispute", "cancel", "strike",
               "complete", "void"}
  /\ y.deal = d
  /\ y.pc = "accept" => status[d] = "PROPOSED"
  /\ y.pc = "confirm" => (y.who = CashReceiver(d) => settled[d] \/ y.cash)
  /\ y.pc = "complete" \/ (y.pc = "strike" /\ y.then = "complete") => d \in ruled'

LEMMA RequestMoves ==
  ASSUME TypeInv, NEW h \in Handler, NEW d \in Deal, Request(h, d)
  PROVE  /\ \E y \in TaskState : task' = [task EXCEPT ![h] = y] /\ RequestMove(d, y)
         /\ ruled \subseteq ruled'
         /\ UNCHANGED <<rows, products, reputation, points>>
<1>1. task \in [Task -> TaskState] /\ h \in Task
  BY DEF TypeInv, TypeOK, Task
<1>2. CASE CheckListing(h, d) \/ LoadAccept(h, d) \/ LoadDecline(h, d) \/ LoadDispute(h, d)
  BY <1>1, <1>2, BeginIs
     DEF CheckListing, LoadAccept, LoadDecline, LoadDispute, RequestMove
<1>3. ASSUME NEW u \in Parties(d), NEW cash \in BOOLEAN, LoadConfirm(h, d, u, cash)
      PROVE  /\ \E y \in TaskState : task' = [task EXCEPT ![h] = y] /\ RequestMove(d, y)
             /\ ruled' = ruled /\ UNCHANGED <<rows, products, reputation, points>>
  <2> DEFINE c == cash /\ u = CashReceiver(d)
             y == [Idle EXCEPT !.pc = "confirm", !.deal = d, !.who = u, !.cash = c]
  <2>1. u \in User /\ c \in BOOLEAN /\ (u = CashReceiver(d) => settled[d] \/ c)
    BY <1>3, PartiesType DEF LoadConfirm, MayConfirm
  <2>2. task' = [task EXCEPT ![h] = y]
    BY <1>3 DEF LoadConfirm
  <2> HIDE DEF c
  <2>3. y \in TaskState /\ y.pc = "confirm" /\ y.deal = d /\ y.who = u /\ y.cash = c
    BY <2>1, IdleType, ZenonT(60) DEF TaskState
  <2> HIDE DEF y
  <2>4. RequestMove(d, y)
    BY <2>1, <2>3 DEF RequestMove
  <2> QED BY <1>3, <2>2, <2>3, <2>4 DEF LoadConfirm
<1>4. CASE LoadCancel(h, d)
  <2> DEFINE c == status[d] = "ACCEPTED"
             y == [Idle EXCEPT !.pc = "cancel", !.deal = d, !.held = c]
  <2>1. task' = [task EXCEPT ![h] = y] /\ c \in BOOLEAN
    BY <1>4 DEF LoadCancel
  <2> HIDE DEF c
  <2>2. y \in TaskState /\ y.pc = "cancel" /\ y.deal = d
    BY <2>1, IdleType, ZenonT(60) DEF TaskState
  <2> HIDE DEF y
  <2> QED BY <1>4, <2>1, <2>2 DEF LoadCancel, RequestMove
<1>5. ASSUME NEW outcome \in {"complete", "void"}, NEW struck \in SUBSET User,
             Rule(h, d, outcome, struck)
      PROVE  /\ \E y \in TaskState : task' = [task EXCEPT ![h] = y] /\ RequestMove(d, y)
             /\ ruled \subseteq ruled' /\ UNCHANGED <<rows, products, reputation, points>>
  <2> DEFINE pc == IF struck = {} THEN outcome ELSE "strike"
             y == [Idle EXCEPT !.pc = pc, !.deal = d, !.todo = struck, !.then = outcome]
  <2>1. task' = [task EXCEPT ![h] = y] /\ pc \in {outcome, "strike"}
        /\ (outcome = "complete" => d \in ruled')
    BY <1>5 DEF Rule
  <2> HIDE DEF pc
  <2>2. y \in TaskState /\ y.pc = pc /\ y.deal = d /\ y.then = outcome
    BY <2>1, IdleType, ZenonT(60) DEF TaskState
  <2> HIDE DEF y
  <2>3. RequestMove(d, y)
    BY <2>1, <2>2 DEF RequestMove
  <2> QED BY <1>5, <2>1, <2>2, <2>3 DEF Rule
<1>6. \A u \in User : {u} \in SUBSET User
  OBVIOUS
<1> QED BY <1>2, <1>3, <1>4, <1>5, <1>6
        DEF Request, CheckListing, LoadAccept, LoadDecline, LoadDispute, LoadCancel

StrikingMove(t, y) ==
  /\ y.pc \in {"idle", "next", "strike", "striking", "complete", "void"}
  /\ y.pc # "idle" => y.deal = task[t].deal
  /\ y.pc = "striking" => task[t].pc = "strike" /\ y.seen = strikes[y.who] /\ y.who \in User
  /\ t # Sweeper /\ y.pc \in {"strike", "striking"} =>
       task[t].pc \in {"strike", "striking"} /\ y.then = task[t].then
  /\ y.pc = "complete" => task[t].pc = "striking" /\ task[t].then = "complete"

LEMMA StrikingMoves ==
  ASSUME TypeInv, NEW t \in Task, Striking(t)
  PROVE  /\ \E y \in TaskState : task' = [task EXCEPT ![t] = y] /\ StrikingMove(t, y)
         /\ UNCHANGED <<rows, points, ruled>>
<1>1. task \in [Task -> TaskState] /\ task[t] \in TaskState /\ TaskOK(t, task[t]) /\ DataOK
  BY TypeParts DEF TasksOK
<1>2. ASSUME NEW u \in User, ReadStrikes(t, u)
      PROVE  /\ \E y \in TaskState : task' = [task EXCEPT ![t] = y] /\ StrikingMove(t, y)
             /\ UNCHANGED <<rows, points, ruled>>
  <2> DEFINE jail == u \in blocked
             rest == task[t].todo \ {u}
             y == [task[t] EXCEPT !.pc = "striking", !.who = u, !.todo = rest,
                                  !.seen = strikes[u], !.jailed = jail]
  <2>1. strikes[u] \in 0..Threshold /\ jail \in BOOLEAN /\ rest \in SUBSET User
    BY <1>1, ThresholdType DEF DataOK, TaskState
  <2>2. task' = [task EXCEPT ![t] = y] /\ task[t].pc = "strike"
    BY <1>1, <1>2 DEF ReadStrikes
  <2> HIDE DEF jail, rest
  <2>3. /\ y \in TaskState /\ y.pc = "striking" /\ y.deal = task[t].deal /\ y.who = u
        /\ y.seen = strikes[u] /\ y.then = task[t].then
    BY <1>1, <2>1, ZenonT(60) DEF TaskState
  <2> HIDE DEF y
  <2>4. StrikingMove(t, y)
    BY <2>2, <2>3 DEF StrikingMove
  <2> QED BY <1>2, <2>2, <2>3, <2>4 DEF ReadStrikes
<1>3. CASE Strike(t)
  <2> DEFINE pc == IF task[t].todo = {} THEN task[t].then ELSE "strike"
             y == [task[t] EXCEPT !.pc = pc, !.who = None, !.seen = 0, !.jailed = FALSE]
  <2>1. /\ pc \in {"next", "complete", "void", "strike"}
        /\ pc = "complete" => task[t].then = "complete"
        /\ task' = [task EXCEPT ![t] = y] /\ task[t].pc = "striking"
    BY <1>1, <1>3 DEF Strike, TaskOK
  <2> HIDE DEF pc
  <2>2. 0 \in 0..Threshold
    BY ThresholdType
  <2>3. y \in TaskState /\ y.pc = pc /\ y.deal = task[t].deal /\ y.then = task[t].then
    BY <1>1, <2>1, <2>2, ZenonT(60) DEF TaskState
  <2> HIDE DEF y
  <2>4. StrikingMove(t, y)
    BY <2>1, <2>3 DEF StrikingMove
  <2> QED BY <1>3, <2>1, <2>3, <2>4 DEF Strike
<1>4. CASE Release(t)
  <2>1. \/ t = Sweeper /\ (Goto(t, "strike") \/ Goto(t, "next"))
        \/ Done(t)
    BY <1>4 DEF Release
  <2>2. \E y \in TaskState : task' = [task EXCEPT ![t] = y] /\ StrikingMove(t, y)
    BY <1>1, <2>1, GotoIs, IdleType DEF Done, StrikingMove
  <2> QED BY <1>4, <2>2 DEF Release
<1> QED BY <1>2, <1>3, <1>4 DEF Striking

(* The sweep's own steps leave it where no request ever is. *)
LEMMA SweepMoves ==
  ASSUME TypeInv, SweeperStep, ~Striking(Sweeper)
  PROVE  /\ \A g \in Handler : task'[g] = task[g]
         /\ task'[Sweeper].pc \in {"idle", "next", "release"}
         /\ \A d \in Deal : status'[d] = status[d] \/ status'[d] = "EXPIRED"
         /\ UNCHANGED <<confirmed, settled, reputation, points, ruled>>
<1>1. /\ task \in [Task -> TaskState] /\ Sweeper \in Task /\ Sweeper \notin Handler
      /\ task[Sweeper] \in TaskState /\ Handler \subseteq Task
      /\ status \in [Deal -> DealStatus \cup {"NONE"}]
  BY HandlerType DEF TypeInv, TypeOK, Task
<1>2. CASE StartSweep
  <2> DEFINE b == {<<d, Offenders(d)>> : d \in {e \in Deal : IsLate(e)}}
             y == [Idle EXCEPT !.pc = "next", !.batch = b]
  <2>1. y.pc = "next"
    BY IdleType DEF TaskState
  <2>2. task' = [task EXCEPT ![Sweeper] = y]
    BY <1>2 DEF StartSweep
  <2> HIDE DEF y
  <2> QED BY <1>1, <1>2, <2>1, <2>2 DEF StartSweep, rows
<1>3. CASE EndSweep
  BY <1>1, <1>3, IdleType DEF EndSweep, Done, rows
<1>4. ASSUME NEW d \in Deal, NEW offenders \in SUBSET User, Expire(d, offenders)
      PROVE  /\ \A g \in Handler : task'[g] = task[g]
             /\ task'[Sweeper].pc \in {"idle", "next", "release"}
             /\ \A e \in Deal : status'[e] = status[e] \/ status'[e] = "EXPIRED"
             /\ UNCHANGED <<confirmed, settled, reputation, points, ruled>>
  <2> DEFINE b == task[Sweeper].batch \ {<<d, offenders>>}
             y == [task[Sweeper] EXCEPT !.pc = "release", !.deal = d, !.todo = offenders,
                                        !.then = "next", !.batch = b]
  <2>1. y.pc = "release"
    BY <1>1 DEF TaskState
  <2>2. task' = [task EXCEPT ![Sweeper] = y]
    BY <1>1, <1>4 DEF Expire
  <2> HIDE DEF y
  <2> QED BY <1>1, <1>4, <2>1, <2>2 DEF Expire
<1> QED BY <1>2, <1>3, <1>4 DEF SweeperStep

-----------------------------------------------------------------------------
(* Blocks.  Two strikes that read the same counter count as one, never as
   three: a counter never runs ahead of the failures behind it. *)
BlockInv ==
  /\ \A u \in User : strikes[u] <= failed[u]
  /\ \A t \in Task : task[t].pc = "striking" => task[t].seen <= failed[task[t].who]
  /\ BlockIsEarned

LEMMA BlockInit == Init => BlockInv
  BY IdleType DEF Init, BlockInv, BlockIsEarned

LEMMA BlockStep ==
  ASSUME TypeInv, BlockInv, [Next]_vars
  PROVE  BlockInv'
<1>t. /\ task \in [Task -> TaskState] /\ Handler \subseteq Task /\ Sweeper \in Task
      /\ strikes \in [User -> 0..(Threshold - 1)] /\ failed \in [User -> Nat]
      /\ blocked \subseteq User
      /\ \A t \in Task : TaskOK(t, task[t])
  BY DEF TypeInv, TypeOK, TasksOK, Task
<1> USE <1>t DEF BlockInv, BlockIsEarned
<1>1. ASSUME UNCHANGED <<strikes, failed>>, blocked' \subseteq blocked,
             \A t \in Task : task'[t].pc = "striking" => task'[t] = task[t]
      PROVE  BlockInv'
  BY <1>1
<1>2. ASSUME NEW h \in Handler, HandlerStep(h) PROVE BlockInv'
  <2>1. UNCHANGED <<strikes, failed, blocked>>
    BY <1>2 DEF HandlerStep, CheckNoOpenDeal, Create, Accept, Reserve, Decline, Confirm, Complete,
       MarkSold, AwardPoints, AwardThrows, WriteLedger, BumpReputation, Dispute, Cancel, Void,
       reputation
  <2>2. PICK y \in TaskState : task' = [task EXCEPT ![h] = y] /\ HandlerMove(h, y)
    BY <1>2, HandlerMoves
  <2> QED BY <1>1, <2>1, <2>2 DEF HandlerMove
<1>3. ASSUME NEW h \in Handler, NEW d \in Deal, Request(h, d) PROVE BlockInv'
  <2>1. PICK y \in TaskState : task' = [task EXCEPT ![h] = y] /\ RequestMove(d, y)
    BY <1>3, RequestMoves
  <2>2. UNCHANGED <<strikes, failed, blocked>>
    BY <1>3, RequestMoves DEF reputation
  <2> QED BY <1>1, <2>1, <2>2 DEF RequestMove
<1>4. ASSUME NEW t \in Task, Striking(t) PROVE BlockInv'
  <2>1. PICK y \in TaskState : task' = [task EXCEPT ![t] = y] /\ StrikingMove(t, y)
    BY <1>4, StrikingMoves
  <2>2. CASE (\E u \in User : ReadStrikes(t, u)) \/ Release(t)
    <3>1. UNCHANGED <<strikes, failed, blocked>>
      BY <2>2 DEF ReadStrikes, Release, reputation
    <3>2. y.pc = "striking" => y.seen = strikes[y.who] /\ y.who \in User
      BY <2>1 DEF StrikingMove
    <3> QED BY <2>1, <3>1, <3>2
  <2>3. CASE Strike(t)
    <3> DEFINE u == task[t].who
               n == task[t].seen + 1
    <3>1. task[t].pc = "striking" /\ u \in User /\ task[t].seen \in Nat
      <4>1. task[t].pc = "striking" /\ task[t] \in TaskState
        BY <1>4, <2>3 DEF Strike
      <4>2. u \in User
        BY <1>4, <4>1 DEF TaskOK
      <4>3. task[t].seen \in 0..Threshold
        BY <4>1 DEF TaskState
      <4> QED BY <4>1, <4>2, <4>3, ThresholdType
    <3>2. /\ strikes' = [strikes EXCEPT ![u] = StrikesAfter(n)]
          /\ failed' = [failed EXCEPT ![u] = failed[u] + 1]
          /\ blocked' \subseteq IF ShouldBlock(n) THEN blocked \cup {u} ELSE blocked
      BY <2>3 DEF Strike
    <3>3. n \in Nat /\ n <= failed[u] + 1
      BY <3>1
    <3> HIDE DEF u, n
    <3>4. StrikesAfter(n) \in {0, n}
      BY DEF StrikesAfter
    <3>5. \A v \in User : failed'[v] \in Nat /\ failed[v] <= failed'[v]
      BY <3>1, <3>2
    <3>6. \A v \in User : strikes'[v] <= failed'[v]
      BY <3>1, <3>2, <3>3, <3>4
    <3>7. \A v \in blocked' : failed'[v] >= Threshold
      <4>1. ShouldBlock(n) => failed'[u] >= Threshold
        BY <3>1, <3>2, <3>3, ThresholdType DEF ShouldBlock
      <4>2. \A v \in blocked : failed'[v] >= Threshold
        BY <3>5, ThresholdType
      <4> QED BY <3>2, <4>1, <4>2
    <3>8. y.pc # "striking"
      BY <2>1, <3>1 DEF StrikingMove
    <3>9. \A g \in Task : task'[g].pc = "striking" => task'[g] = task[g]
      BY <2>1, <3>8
    <3>10. \A g \in Task : task'[g].pc = "striking" => task'[g].seen <= failed'[task'[g].who]
      <4> SUFFICES ASSUME NEW g \in Task, task'[g].pc = "striking"
                   PROVE  task'[g].seen <= failed'[task'[g].who]
        OBVIOUS
      <4>1. /\ task'[g] = task[g] /\ task[g].seen <= failed[task[g].who]
            /\ task[g].who \in User /\ task[g].seen \in Nat
        BY <3>9 DEF TaskOK, TaskState
      <4> QED BY <3>5, <4>1
    <3> QED BY <3>6, <3>7, <3>10
  <2> QED BY <1>4, <2>2, <2>3 DEF Striking
<1>5. ASSUME SweeperStep, ~Striking(Sweeper) PROVE BlockInv'
  <2>1. UNCHANGED <<strikes, failed, blocked>>
    BY <1>5, SweepMoves DEF reputation
  <2>2. \A t \in Task : task'[t].pc = "striking" => task'[t] = task[t]
    BY <1>5, SweepMoves DEF Task
  <2> QED BY <1>1, <2>1, <2>2
<1>6. ASSUME NEW t \in Task, Abort(t) PROVE BlockInv'
  BY <1>1, <1>6, IdleType DEF Abort, Done, reputation
<1>7. ASSUME NEW d \in Deal, DeadlinePasses(d) PROVE BlockInv'
  BY <1>1, <1>7 DEF DeadlinePasses, reputation
<1>8. ASSUME NEW u \in User, BlockEnds(u) PROVE BlockInv'
  BY <1>1, <1>8 DEF BlockEnds
<1>9. CASE UNCHANGED vars
  BY <1>1, <1>9 DEF vars, reputation
<1> QED BY <1>2, <1>3, <1>4, <1>5, <1>6, <1>7, <1>8, <1>9 DEF Next

(* Nobody is blocked before Threshold failures of their own, whatever the
   sweep and the operators read and write in between. *)
THEOREM BlocksAreEarned == Spec => []BlockIsEarned
<1>1. Init => TypeInv /\ BlockInv
  BY TypeInit, BlockInit
<1>2. TypeInv /\ BlockInv /\ [Next]_vars => (TypeInv /\ BlockInv)'
  BY TypeStep, BlockStep
<1>3. BlockInv => BlockIsEarned
  BY DEF BlockInv
<1> QED BY <1>1, <1>2, <1>3, PTL DEF Spec

-----------------------------------------------------------------------------
(* Points.  A request that is completing a deal saw both confirmations, or the
   operator's ruling; neither is ever taken back. *)
EarnedIn(d, r, c, s) ==
  \/ d \in r
  \/ /\ Parties(d) \subseteq c[d]
     /\ CashReceiver(d) # None => s[d]

Earned(d) == EarnedIn(d, ruled, confirmed, settled)

EarnedLater(d) == EarnedIn(d, ruled', confirmed', settled')

Ends(t) ==
  \/ task[t].pc \in {"complete", "sell", "award", "bump"}
  \/ task[t].pc \in {"strike", "striking"} /\ task[t].then = "complete"

PaidInv ==
  /\ \A h \in Handler : Ends(h) => Earned(task[h].deal)
  /\ \A d \in Deal : CashReceiver(d) \in confirmed[d] => settled[d]
  /\ \A h \in Handler : task[h].pc = "confirm" /\ task[h].who = CashReceiver(task[h].deal)
                          => settled[task[h].deal] \/ task[h].cash
  /\ \A d \in Deal, u \in User : <<d, u>> \in credited => Earned(d)

LEMMA PaidInit == Init => PaidInv
  BY IdleType DEF Init, PaidInv, Ends, Task

(* What is confirmed, settled, ruled and credited stays so. *)
LEMMA EarnedStays ==
  ASSUME TypeInv, NEW d \in Deal, Earned(d), ruled \subseteq ruled',
         confirmed[d] \subseteq confirmed'[d], settled[d] => settled'[d]
  PROVE  EarnedLater(d)
  BY DEF Earned, EarnedLater, EarnedIn

LEMMA PaidStep ==
  ASSUME TypeInv, PaidInv, [Next]_vars
  PROVE  PaidInv'
<1>t. /\ task \in [Task -> TaskState] /\ Handler \subseteq Task /\ Sweeper \in Task /\ Sweeper \notin Handler
      /\ confirmed \in [Deal -> SUBSET User] /\ settled \in [Deal -> BOOLEAN]
      /\ credited \subseteq Deal \X User
      /\ \A t \in Task : TaskOK(t, task[t])
      /\ \A h \in Handler : task[h].pc # "idle" => task[h].deal \in Deal
  BY HandlerType DEF TypeInv, TypeOK, TasksOK, Task, TaskOK
<1> USE <1>t DEF Earned, EarnedLater
<1>e. \A h \in Handler : Ends(h) => task[h].deal \in Deal
  BY DEF Ends
(* A step that credits nothing new and leaves the requests that end a deal to
   those whose deal is earned. *)
<1>1. ASSUME UNCHANGED <<confirmed, settled, credited>>, ruled \subseteq ruled',
             \A h \in Handler :
               \/ task'[h] = task[h]
               \/ /\ Ends(h)' => task'[h].deal \in Deal /\ EarnedLater(task'[h].deal)
                  /\ task'[h].pc = "confirm" =>
                       (task'[h].who = CashReceiver(task'[h].deal) =>
                          settled[task'[h].deal] \/ task'[h].cash)
      PROVE  PaidInv'
  <2>1. \A d \in Deal : Earned(d) => EarnedLater(d)
    BY <1>1, EarnedStays
  <2>2. \A h \in Handler : Ends(h)' => EarnedLater(task'[h].deal)
    BY <1>1, <1>e, <2>1 DEF PaidInv, Ends
  <2>3. \A d \in Deal, u \in User : <<d, u>> \in credited' => EarnedLater(d)
    BY <1>1, <2>1 DEF PaidInv
  <2> QED BY <1>1, <2>2, <2>3 DEF PaidInv
<1>2. ASSUME NEW h \in Handler, HandlerStep(h) PROVE PaidInv'
  <2>1. PICK y \in TaskState : task' = [task EXCEPT ![h] = y] /\ HandlerMove(h, y)
    BY <1>2, HandlerMoves
  <2>2. ruled' = ruled /\ task[h].pc # "idle" /\ task[h].deal \in Deal
    BY <1>2 DEF HandlerStep, CheckNoOpenDeal, Create, Accept, Reserve, Decline, Confirm, Complete,
       MarkSold, AwardPoints, AwardThrows, WriteLedger, BumpReputation, Dispute, Cancel, Void
  <2>3. CASE Confirm(h)
    <3> DEFINE d == task[h].deal
               u == task[h].who
    <3>1. /\ task[h].pc = "confirm"
          /\ confirmed' = [confirmed EXCEPT ![d] = confirmed[d] \cup {u}]
          /\ settled' = [settled EXCEPT ![d] = settled[d] \/ task[h].cash]
          /\ UNCHANGED credited
      BY <2>3 DEF Confirm, points
    <3>2. u = CashReceiver(d) => settled'[d]
      BY <2>2, <3>1 DEF PaidInv
    <3>3. y.pc \in {"idle", "complete"}
      <4>1. CASE Done(h)
        BY <2>1, <4>1, IdleType DEF Done
      <4>2. CASE Begin(h, task[h].deal, "complete")
        <5>1. PICK z \in TaskState : task' = [task EXCEPT ![h] = z] /\ z.pc = "complete"
          BY <2>2, <4>2, BeginIs
        <5> QED BY <2>1, <5>1
      <4> QED BY <2>3, <4>1, <4>2 DEF Confirm
    <3>4. y.pc = "complete" => y.deal = d /\ Parties(d) \subseteq confirmed'[d]
      <4>1. y.pc = "complete" => BothConfirmed(d, confirmed[d] \cup {u})
        BY <2>1, <2>3, IdleType DEF Confirm, Done
      <4> QED BY <2>1, <2>2, <3>1, <4>1 DEF BothConfirmed, HandlerMove
    <3> HIDE DEF d, u
    <3>d. d \in Deal
      BY <2>2 DEF d
    <3>5. \A e \in Deal : confirmed[e] \subseteq confirmed'[e] /\ (settled[e] => settled'[e])
      BY <3>1, <3>d
    <3>6. \A e \in Deal : Earned(e) => EarnedLater(e)
      BY <2>2, <3>5, EarnedStays
    <3>7. \A e \in Deal : CashReceiver(e) \in confirmed'[e] => settled'[e]
      <4> SUFFICES ASSUME NEW e \in Deal, CashReceiver(e) \in confirmed'[e] PROVE settled'[e]
        OBVIOUS
      <4>1. CASE CashReceiver(e) \in confirmed[e]
        BY <3>5, <4>1 DEF PaidInv
      <4>2. CASE CashReceiver(e) \notin confirmed[e]
        BY <3>1, <3>2, <3>d, <4>2
      <4> QED BY <4>1, <4>2
    <3>8. y.pc = "complete" => EarnedLater(d)
      <4>1. y.pc = "complete" /\ CashReceiver(d) # None => settled'[d]
        BY <3>4, <3>7, <3>d, PartiesType
      <4> QED BY <2>1, <3>4, <3>d, <4>1 DEF EarnedIn
    <3>9. \A g \in Handler : Ends(g)' => EarnedLater(task'[g].deal)
      <4> SUFFICES ASSUME NEW g \in Handler, Ends(g)' PROVE EarnedLater(task'[g].deal)
        OBVIOUS
      <4>1. CASE g = h
        BY <2>1, <3>3, <3>4, <3>8, <4>1 DEF Ends
      <4>2. CASE g # h
        <5>1. task'[g] = task[g] /\ Ends(g)
          BY <2>1, <4>2 DEF Ends
        <5> QED BY <1>e, <3>6, <5>1 DEF PaidInv
      <4> QED BY <4>1, <4>2
    <3>10. \A g \in Handler : task'[g].pc = "confirm" /\ task'[g].who = CashReceiver(task'[g].deal)
                                => settled'[task'[g].deal] \/ task'[g].cash
      BY <2>1, <3>3, <3>5 DEF PaidInv
    <3>11. \A e \in Deal, v \in User : <<e, v>> \in credited' => EarnedLater(e)
      BY <3>1, <3>6 DEF PaidInv
    <3> QED BY <3>7, <3>9, <3>10, <3>11 DEF PaidInv
  <2>4. y.pc # "confirm" /\ (Ends(h)' => (y.pc = "complete" /\ task[h].pc = "confirm") \/ Ends(h))
    BY <2>1 DEF HandlerMove, Ends
  <2>5. y.pc # "idle" => y.deal = task[h].deal
    BY <2>1 DEF HandlerMove
  <2>6. ASSUME ~Confirm(h), UNCHANGED <<confirmed, settled>>
        PROVE  /\ Ends(h)' => task'[h].deal \in Deal /\ EarnedLater(task'[h].deal)
               /\ \A d \in Deal : EarnedLater(d) <=> Earned(d)
    <3>1. \A d \in Deal : EarnedLater(d) <=> Earned(d)
      BY <2>2, <2>6
    <3>2. task[h].pc # "confirm"
      BY <1>2, <2>6 DEF HandlerStep, CheckNoOpenDeal, Create, Accept, Reserve, Decline, Complete,
         MarkSold, AwardPoints, AwardThrows, WriteLedger, BumpReputation, Dispute, Cancel, Void
    <3>3. Ends(h)' => Ends(h) /\ y.deal = task[h].deal
      BY <2>1, <2>4, <2>5, <3>2 DEF Ends
    <3> QED BY <2>1, <2>2, <3>1, <3>3 DEF PaidInv
  <2>7. CASE (\E u \in User : AwardPoints(h, u)) \/ AwardThrows(h)
    <3>1. /\ credited' \subseteq credited \cup ({task[h].deal} \X User)
          /\ task[h].pc = "award" /\ UNCHANGED <<confirmed, settled>> /\ ~Confirm(h)
      BY <2>7, AwardPays DEF AwardPoints, AwardThrows, Confirm, rows
    <3>2. Earned(task[h].deal)
      BY <3>1 DEF PaidInv, Ends
    <3>3. \A d \in Deal : EarnedLater(d) <=> Earned(d)
      BY <2>6, <3>1
    <3>4. \A d \in Deal, u \in User : <<d, u>> \in credited' => EarnedLater(d)
      BY <3>1, <3>2, <3>3 DEF PaidInv
    <3>5. \A g \in Handler : Ends(g)' => EarnedLater(task'[g].deal)
      BY <1>e, <2>1, <2>6, <3>1, <3>3 DEF PaidInv, Ends
    <3>6. \A g \in Handler : task'[g].pc = "confirm" /\ task'[g].who = CashReceiver(task'[g].deal)
                               => settled'[task'[g].deal] \/ task'[g].cash
      BY <2>1, <2>4, <3>1 DEF PaidInv
    <3> QED BY <3>1, <3>4, <3>5, <3>6 DEF PaidInv
  <2>8. CASE ~(Confirm(h) \/ (\E u \in User : AwardPoints(h, u)) \/ AwardThrows(h))
    <3>1. UNCHANGED <<confirmed, settled, credited>>
      BY <1>2, <2>8 DEF HandlerStep, CheckNoOpenDeal, Create, Accept, Reserve, Decline, Complete,
         MarkSold, WriteLedger, BumpReputation, Dispute, Cancel, Void, rows, points
    <3> QED BY <1>1, <2>1, <2>2, <2>4, <2>6, <2>8, <3>1
  <2> QED BY <2>3, <2>7, <2>8
<1>3. ASSUME NEW h \in Handler, NEW d \in Deal, Request(h, d) PROVE PaidInv'
  <2>1. PICK y \in TaskState : task' = [task EXCEPT ![h] = y] /\ RequestMove(d, y)
    BY <1>3, RequestMoves
  <2>2. UNCHANGED <<confirmed, settled, credited>> /\ ruled \subseteq ruled'
    BY <1>3, RequestMoves DEF rows, points
  <2>3. y.deal = d /\ (Ends(h)' => d \in ruled')
    BY <2>1 DEF RequestMove, Ends
  <2>4. y.pc = "confirm" => (y.who = CashReceiver(d) => settled[d] \/ y.cash)
    BY <2>1 DEF RequestMove
  <2>5. Ends(h)' => task'[h].deal \in Deal /\ EarnedLater(task'[h].deal)
    BY <2>1, <2>3 DEF EarnedIn
  <2> QED BY <1>1, <2>1, <2>2, <2>3, <2>4, <2>5
<1>4. ASSUME NEW t \in Task, Striking(t) PROVE PaidInv'
  <2>1. PICK y \in TaskState : task' = [task EXCEPT ![t] = y] /\ StrikingMove(t, y)
    BY <1>4, StrikingMoves
  <2>2. UNCHANGED <<confirmed, settled, credited, ruled>>
    BY <1>4, StrikingMoves DEF rows, points
  <2>3. t \in Handler /\ Ends(t)' => Ends(t) /\ y.deal = task[t].deal
    BY <2>1 DEF StrikingMove, Ends
  <2>4. y.pc # "confirm"
    BY <2>1 DEF StrikingMove
  <2>5. \A d \in Deal : EarnedLater(d) <=> Earned(d)
    BY <2>2
  <2>6. t \in Handler /\ Ends(t)' => task'[t].deal \in Deal /\ EarnedLater(task'[t].deal)
    BY <1>e, <2>1, <2>3, <2>5 DEF PaidInv
  <2>7. \A g \in Handler : g # t => task'[g] = task[g]
    BY <2>1
  <2> QED BY <1>1, <2>1, <2>2, <2>4, <2>6, <2>7
<1>5. ASSUME SweeperStep, ~Striking(Sweeper) PROVE PaidInv'
  BY <1>1, <1>5, SweepMoves DEF points
<1>6. ASSUME NEW t \in Task, Abort(t) PROVE PaidInv'
  <2>1. /\ \A g \in Handler : task'[g] = task[g] \/ task'[g].pc = "idle"
        /\ UNCHANGED <<confirmed, settled, credited, ruled>>
    BY <1>6, IdleType DEF Abort, Done, rows, points
  <2>2. \A g \in Handler : task'[g].pc = "idle" => ~Ends(g)'
    BY DEF Ends
  <2> QED BY <1>1, <2>1, <2>2
<1>7. ASSUME NEW d \in Deal, DeadlinePasses(d) PROVE PaidInv'
  BY <1>1, <1>7 DEF DeadlinePasses, points
<1>8. ASSUME NEW u \in User, BlockEnds(u) PROVE PaidInv'
  BY <1>1, <1>8 DEF BlockEnds, rows, points
<1>9. CASE UNCHANGED vars
  BY <1>1, <1>9 DEF vars, rows, points
<1> QED BY <1>2, <1>3, <1>4, <1>5, <1>6, <1>7, <1>8, <1>9 DEF Next

(* The ledger.  Whoever an award found fresh is credited and has no row yet,
   and no other request holds an award of the same deal to the same person. *)
Fresh(h, u) == task[h].pc = "award" /\ u \in task[h].fresh

RowsInv ==
  /\ \A d \in Deal, u \in User :
       /\ ledger[<<d, u>>] <= 1
       /\ ledger[<<d, u>>] = 1 => <<d, u>> \in credited
  /\ \A h \in Handler, u \in User :
       Fresh(h, u) =>
         /\ <<task[h].deal, u>> \in credited
         /\ ledger[<<task[h].deal, u>>] = 0
         /\ \A g \in Handler : task[g].deal = task[h].deal /\ Fresh(g, u) => g = h

LEMMA RowsInit == Init => RowsInv
  BY IdleType DEF Init, RowsInv, Fresh, Task

LEMMA RowsStep ==
  ASSUME TypeInv, RowsInv, [Next]_vars
  PROVE  RowsInv'
<1>t. /\ task \in [Task -> TaskState] /\ Handler \subseteq Task /\ Sweeper \in Task
      /\ Sweeper \notin Handler /\ ledger \in [Deal \X User -> Nat]
      /\ \A h \in Handler : task[h].pc # "idle" => task[h].deal \in Deal
      /\ \A h \in Handler : task[h].fresh \subseteq User
  BY HandlerType DEF TypeInv, TypeOK, TasksOK, Task, TaskOK, TaskState
<1> USE <1>t DEF Fresh
<1>1. ASSUME UNCHANGED <<credited, ledger>>,
             \A h \in Handler : \/ task'[h] = task[h] \/ task'[h].pc # "award"
                               \/ task'[h].fresh = {}
      PROVE  RowsInv'
  <2>1. \A h \in Handler, u \in User :
          task'[h].pc = "award" /\ u \in task'[h].fresh => task'[h] = task[h]
    BY <1>1
  <2> QED BY <1>1, <2>1 DEF RowsInv
<1>2. ASSUME NEW h \in Handler, HandlerStep(h) PROVE RowsInv'
  <2>1. PICK y \in TaskState : task' = [task EXCEPT ![h] = y] /\ HandlerMove(h, y)
    BY <1>2, HandlerMoves
  <2> DEFINE d == task[h].deal
  <2>2. y.pc = "award" => task[h].pc = "award" \/ y.fresh = {}
    BY <2>1 DEF HandlerMove
  <2>3. ASSUME NEW v \in User, AwardPoints(h, v) PROVE RowsInv'
    <3>1. /\ credited' = credited \cup {<<d, v>>} /\ ledger' = ledger
          /\ d \in Deal /\ task[h].pc = "award"
      BY <2>3 DEF AwardPoints
    <3>2. /\ task'[h].deal = d
          /\ task'[h].fresh = task[h].fresh \cup {u \in {v} : <<d, u>> \notin credited}
          /\ \A g \in Handler : g # h => task'[g] = task[g]
      BY <2>3, AwardIs
    <3> HIDE DEF d
    <3>3. <<d, v>> \notin credited => ledger[<<d, v>>] = 0
      <4> DEFINE n == ledger[<<d, v>>]
      <4>1. n \in Nat /\ n <= 1 /\ (n = 1 => <<d, v>> \in credited)
        BY <3>1 DEF RowsInv
      <4> HIDE DEF n
      <4>2. <<d, v>> \notin credited => n = 0
        BY <4>1
      <4> QED BY <4>2 DEF n
    <3>4. ASSUME NEW g \in Handler, NEW u \in User, Fresh(g, u)'
          PROVE  \/ Fresh(g, u) /\ task'[g].deal = task[g].deal
                 \/ g = h /\ u = v /\ <<d, v>> \notin credited
      BY <3>1, <3>2, <3>4 DEF d
    <3>5. ASSUME NEW g \in Handler, NEW u \in User, Fresh(g, u)'
          PROVE  <<task'[g].deal, u>> \in credited' /\ ledger'[<<task'[g].deal, u>>] = 0
      <4>1. CASE Fresh(g, u) /\ task'[g].deal = task[g].deal
        BY <3>1, <4>1 DEF RowsInv
      <4>2. CASE g = h /\ u = v /\ <<d, v>> \notin credited
        BY <3>1, <3>2, <3>3, <4>2
      <4> QED BY <3>4, <3>5, <4>1, <4>2
    <3>6. ASSUME NEW g \in Handler, NEW k \in Handler, NEW u \in User,
                 Fresh(g, u)', Fresh(k, u)', task'[k].deal = task'[g].deal
          PROVE  k = g
      <4>1. CASE /\ Fresh(g, u) /\ task'[g].deal = task[g].deal
                 /\ Fresh(k, u) /\ task'[k].deal = task[k].deal
        BY <3>6, <4>1 DEF RowsInv
      <4>2. ASSUME NEW f \in Handler, Fresh(f, u), task'[f].deal = task[f].deal,
                   u = v, <<d, v>> \notin credited, task'[f].deal = d
            PROVE  FALSE
        BY <4>2 DEF RowsInv
      <4> QED BY <3>2, <3>4, <3>6, <4>1, <4>2
    <3>7. \A e \in Deal, u \in User :
            /\ ledger'[<<e, u>>] <= 1
            /\ ledger'[<<e, u>>] = 1 => <<e, u>> \in credited'
      BY <3>1 DEF RowsInv
    <3> QED BY <3>5, <3>6, <3>7 DEF RowsInv
  <2>4. CASE AwardThrows(h)
    <3>1. credited \subseteq credited' /\ ledger' = ledger
      BY <2>4 DEF AwardThrows
    <3>2. y.pc # "award"
      <4>1. PICK z \in TaskState : task' = [task EXCEPT ![h] = z] /\ z.pc = "bump"
        BY <2>4, GotoIs DEF AwardThrows
      <4> QED BY <2>1, <4>1
    <3> QED BY <2>1, <3>1, <3>2 DEF RowsInv
  <2>5. CASE WriteLedger(h)
    <3>1. /\ ledger' = [r \in Deal \X User |-> ledger[r] + IF r \in LedgerRows(h) THEN 1 ELSE 0]
          /\ credited' = credited /\ task[h].pc = "award" /\ d \in Deal
      BY <2>5 DEF WriteLedger
    <3>2. y.pc # "award"
      <4>1. PICK z \in TaskState : task' = [task EXCEPT ![h] = z] /\ z.pc = "bump"
        BY <2>5, GotoIs DEF WriteLedger
      <4> QED BY <2>1, <4>1
    <3>3. \A e \in Deal, u \in User :
            ledger'[<<e, u>>] = IF e = d /\ u \in task[h].fresh THEN ledger[<<e, u>>] + 1
                                ELSE ledger[<<e, u>>]
      BY <3>1 DEF LedgerRows
    <3>4. \A e \in Deal, u \in User :
            /\ ledger'[<<e, u>>] <= 1
            /\ ledger'[<<e, u>>] = 1 => <<e, u>> \in credited'
      <4> SUFFICES ASSUME NEW e \in Deal, NEW u \in User
                   PROVE  /\ ledger'[<<e, u>>] <= 1
                          /\ ledger'[<<e, u>>] = 1 => <<e, u>> \in credited'
        OBVIOUS
      <4>1. CASE e = d /\ u \in task[h].fresh
        <5>1. <<e, u>> \in credited /\ ledger[<<e, u>>] = 0
          BY <3>1, <4>1 DEF RowsInv
        <5> QED BY <3>1, <3>3, <4>1, <5>1
      <4>2. CASE ~(e = d /\ u \in task[h].fresh)
        <5>1. ledger'[<<e, u>>] = ledger[<<e, u>>]
          BY <3>3, <4>2
        <5> QED BY <3>1, <5>1 DEF RowsInv
      <4> QED BY <4>1, <4>2
    <3>5. ASSUME NEW g \in Handler, NEW u \in User, Fresh(g, u)'
          PROVE  /\ <<task'[g].deal, u>> \in credited' /\ ledger'[<<task'[g].deal, u>>] = 0
                 /\ g # h /\ task'[g] = task[g]
      <4>1. g # h /\ task'[g] = task[g] /\ task[g].deal \in Deal
        BY <2>1, <3>2, <3>5
      <4>2. ~(task[g].deal = d /\ u \in task[h].fresh)
        BY <3>1, <3>5, <4>1 DEF RowsInv
      <4> DEFINE e == task[g].deal
      <4>3. <<e, u>> \in credited /\ ledger[<<e, u>>] = 0
        BY <3>5, <4>1 DEF RowsInv
      <4> HIDE DEF e
      <4>4. ledger'[<<e, u>>] = 0
        BY <3>3, <4>1, <4>2, <4>3 DEF e
      <4> QED BY <3>1, <4>1, <4>3, <4>4 DEF e
    <3> QED BY <3>4, <3>5 DEF RowsInv
  <2>6. CASE ~((\E u \in User : AwardPoints(h, u)) \/ AwardThrows(h) \/ WriteLedger(h))
    <3>1. UNCHANGED <<credited, ledger>> /\ task[h].pc # "award"
      BY <1>2, <2>6 DEF HandlerStep, CheckNoOpenDeal, Create, Accept, Reserve, Decline, Confirm,
         Complete, MarkSold, BumpReputation, Dispute, Cancel, Void, points
    <3> QED BY <1>1, <2>1, <2>2, <3>1
  <2> QED BY <2>3, <2>4, <2>5, <2>6
<1>3. ASSUME NEW h \in Handler, NEW d \in Deal, Request(h, d) PROVE RowsInv'
  <2>1. PICK y \in TaskState : task' = [task EXCEPT ![h] = y] /\ RequestMove(d, y)
    BY <1>3, RequestMoves
  <2>2. UNCHANGED <<credited, ledger>>
    BY <1>3, RequestMoves DEF points
  <2> QED BY <1>1, <2>1, <2>2 DEF RequestMove
<1>4. ASSUME NEW t \in Task, Striking(t) PROVE RowsInv'
  <2>1. PICK y \in TaskState : task' = [task EXCEPT ![t] = y] /\ StrikingMove(t, y)
    BY <1>4, StrikingMoves
  <2>2. UNCHANGED <<credited, ledger>>
    BY <1>4, StrikingMoves DEF points
  <2> QED BY <1>1, <2>1, <2>2 DEF StrikingMove
<1>5. ASSUME SweeperStep, ~Striking(Sweeper) PROVE RowsInv'
  BY <1>1, <1>5, SweepMoves DEF points
<1>6. ASSUME NEW t \in Task, Abort(t) PROVE RowsInv'
  BY <1>1, <1>6, IdleType DEF Abort, Done, points
<1>7. ASSUME NEW d \in Deal, DeadlinePasses(d) PROVE RowsInv'
  BY <1>1, <1>7 DEF DeadlinePasses, points
<1>8. ASSUME NEW u \in User, BlockEnds(u) PROVE RowsInv'
  BY <1>1, <1>8 DEF BlockEnds, points
<1>9. CASE UNCHANGED vars
  BY <1>1, <1>9 DEF vars, points
<1> QED BY <1>2, <1>3, <1>4, <1>5, <1>6, <1>7, <1>8, <1>9 DEF Next

(* Points are paid for a deal both parties confirmed, cash attested, or an
   operator ruled completed, and shown once, however many confirmations,
   rulings, sweeps and faults interleave. *)
THEOREM PointsAreForDeals == Spec => []PointsAreEarned
<1>1. Init => TypeInv /\ PaidInv /\ RowsInv
  BY TypeInit, PaidInit, RowsInit
<1>2. TypeInv /\ PaidInv /\ RowsInv /\ [Next]_vars => (TypeInv /\ PaidInv /\ RowsInv)'
  BY TypeStep, PaidStep, RowsStep
<1>3. PaidInv /\ RowsInv => PointsAreEarned
  BY DEF PaidInv, RowsInv, Earned, EarnedIn, PointsAreEarned, PaidIfDone, LedgerOnce
<1> QED BY <1>1, <1>2, <1>3, PTL DEF Spec
=============================================================================
