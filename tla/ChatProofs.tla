----------------------------- MODULE ChatProofs -----------------------------
(***************************************************************************)
(* Proofs about Chat, for any number of requests at the same time, any     *)
(* limit on the messages of a minute and any number of faults.             *)
(***************************************************************************)
EXTENDS Chat, FiniteSetTheorems, TLAPS

LEMMA ElementType ==
  ASSUME NEW S, NEW s \in Seq(S), NEW i \in DOMAIN s
  PROVE  s[i] \in S
  OBVIOUS

USE DEF Side, Body, Message, TaskState

-----------------------------------------------------------------------------
(* Types.  A request that has begun knows whose it is; past its first check,
   it has a text; once stored, it has its message. *)
TaskOK(t) ==
  /\ t.pc # "idle" => t.who \in Side
  /\ t.pc \in {"rate", "mask", "insert", "count"} => t.text \in Body
  /\ t.pc = "insert" => t.now \in 0..Len(msgs)
  /\ t.pc = "count" => t.at \in 1..Len(msgs)

TasksOK == \A h \in Handler : TaskOK(task[h])

TypeInv == TypeOK /\ TasksOK

LEMMA IdleType ==
  /\ Idle \in TaskState /\ Idle.pc = "idle"
  /\ \A x \in Side : Other(x) \in Side /\ Other(x) # x
  BY SidesDiffer DEF Idle, Other

LEMMA TypeInit == Init => TypeInv
<1> SUFFICES ASSUME Init PROVE TypeInv
  OBVIOUS
<1>1. /\ msgs \in Seq(Message) /\ Len(msgs) = 0
      /\ 0 \in 0..Len(msgs) /\ recent \subseteq 1..Len(msgs)
  BY DEF Init
<1>2. task \in [Handler -> TaskState] /\ TasksOK
  BY IdleType DEF Init, TasksOK, TaskOK
<1>3. /\ readAt \in [Side -> 0..Len(msgs)] /\ peak \in [Side -> 0..Len(msgs)]
      /\ noticed \in [Side -> SUBSET (1..Len(msgs))]
  BY <1>1 DEF Init
<1>4. /\ thread \in {"NONE", "OPEN", "BLOCKED"} /\ holder \in Side \cup {Admin, None}
      /\ (holder = None) = (thread # "BLOCKED") /\ unsure \subseteq Side
      /\ listed \in BOOLEAN /\ onItem \in BOOLEAN /\ traded \in BOOLEAN /\ met \in BOOLEAN
      /\ requests \in Nat /\ faults \in Nat
  BY DEF Init
<1> QED BY <1>1, <1>2, <1>3, <1>4 DEF TypeInv, TypeOK

(* The steps that only move a request. *)
LEMMA MoveTypes ==
  ASSUME TypeInv, UNCHANGED <<chat, world, history>>,
         NEW h \in Handler, NEW x \in TaskState, TaskOK(x),
         task' = [task EXCEPT ![h] = x],
         requests' \in Nat, faults' \in Nat
  PROVE  TypeInv'
  BY DEF TypeInv, TypeOK, TasksOK, TaskOK, chat, world, history

LEMMA ReadTypes ==
  ASSUME TypeInv, NEW x \in Side, NEW n \in 0..Len(msgs), SetRead(x, n),
         NEW m \in Nat, m >= Len(msgs)
  PROVE  /\ readAt' \in [Side -> 0..m]
         /\ peak' \in [Side -> 0..m]
         /\ unsure' \subseteq Side
<1>1. readAt \in [Side -> 0..Len(msgs)] /\ peak \in [Side -> 0..Len(msgs)] /\ unsure \subseteq Side
  BY DEF TypeInv, TypeOK
<1>2. Len(msgs) \in Nat
  BY DEF TypeInv, TypeOK
<1>3. 0..Len(msgs) \subseteq 0..m
  BY <1>2
<1> QED BY <1>1, <1>2, <1>3 DEF SetRead

LEMMA RequestTypes ==
  ASSUME TypeInv, NEW h \in Handler, NEW x \in Side, Request(h, x)
  PROVE  TypeInv'
<1>1. task \in [Handler -> TaskState] /\ requests \in Nat /\ faults \in Nat /\ listed \in BOOLEAN
  BY DEF TypeInv, TypeOK
<1>2. CASE \E t \in {"contact", "none"} : StartConversation(h, x, t)
  <2> PICK t \in {"contact", "none"} : StartConversation(h, x, t)
    BY <1>2
  <2> DEFINE y == [Idle EXCEPT !.pc = IF thread = "NONE" THEN "open" ELSE "load",
                               !.who = x, !.text = t, !.listed = listed]
  <2>1. y \in TaskState /\ y.who = x /\ y.pc \in {"open", "load"}
    BY <1>1 DEF Idle
  <2>2. task' = [task EXCEPT ![h] = y] /\ requests' \in Nat /\ faults' \in Nat
        /\ UNCHANGED <<chat, world, history>>
    BY <1>1 DEF StartConversation, Asked
  <2> HIDE DEF y
  <2> QED BY <2>1, <2>2, MoveTypes DEF TaskOK
<1>3. CASE SendMessage(h, x)
  <2> DEFINE y == [Idle EXCEPT !.pc = "load", !.who = x, !.text = "contact"]
  <2>1. y \in TaskState /\ y.who = x /\ y.pc = "load"
    BY DEF Idle
  <2>2. task' = [task EXCEPT ![h] = y] /\ requests' \in Nat /\ faults' \in Nat
        /\ UNCHANGED <<chat, world, history>>
    BY <1>1, <1>3 DEF SendMessage, Asked
  <2> HIDE DEF y
  <2> QED BY <2>1, <2>2, MoveTypes DEF TaskOK
<1>4. CASE LoadUnblock(h, x)
  <2> DEFINE y == [Idle EXCEPT !.pc = "unblock", !.who = x]
  <2>1. y \in TaskState /\ y.who = x /\ y.pc = "unblock"
    BY DEF Idle
  <2>2. task' = [task EXCEPT ![h] = y] /\ requests' \in Nat /\ faults' \in Nat
        /\ UNCHANGED <<chat, world, history>>
    BY <1>1, <1>4 DEF LoadUnblock, Asked
  <2> HIDE DEF y
  <2> QED BY <2>1, <2>2, MoveTypes DEF TaskOK
<1> QED BY <1>2, <1>3, <1>4 DEF Request

LEMMA HandlerTypes ==
  ASSUME TypeInv, NEW h \in Handler, HandlerStep(h)
  PROVE  TypeInv'
<1>1. /\ task \in [Handler -> TaskState] /\ task[h] \in TaskState
      /\ requests \in Nat /\ faults \in Nat /\ TaskOK(task[h])
      /\ msgs \in Seq(Message) /\ Len(msgs) \in Nat
      /\ readAt \in [Side -> 0..Len(msgs)] /\ unsure \subseteq Side
  BY DEF TypeInv, TypeOK, TasksOK
<1>m. ASSUME NEW pc \in {"create", "load", "mask"}, Goto(h, pc), task[h].pc # "idle",
             pc = "mask" => task[h].pc = "rate"
      PROVE  \E x \in TaskState : TaskOK(x) /\ task' = [task EXCEPT ![h] = x]
  <2> DEFINE x == [task[h] EXCEPT !.pc = pc]
  <2>1. x \in TaskState /\ x.pc = pc /\ x.who = task[h].who /\ x.text = task[h].text
    BY <1>1
  <2>2. task' = [task EXCEPT ![h] = x]
    BY <1>m, <1>1 DEF Goto
  <2> HIDE DEF x
  <2>3. TaskOK(x)
    BY <1>1, <1>m, <2>1 DEF TaskOK
  <2> QED BY <2>1, <2>2, <2>3
<1>d. Done(h) => \E x \in TaskState : TaskOK(x) /\ task' = [task EXCEPT ![h] = x]
  BY IdleType DEF Done, TaskOK
<1>2. CASE CheckTradeOnItem(h)
  BY <1>1, <1>2, <1>m, <1>d, MoveTypes DEF CheckTradeOnItem
<1>3. CASE OpenThread(h)
  <2>1. PICK x \in TaskState : TaskOK(x) /\ task' = [task EXCEPT ![h] = x]
    BY <1>3, <1>m DEF OpenThread
  <2> QED BY <1>3, <2>1, SMTT(30) DEF OpenThread, TypeInv, TypeOK, TasksOK, TaskOK, world, history
<1>4. CASE LoadThread(h)
  <2> DEFINE y == [task[h] EXCEPT !.pc = "rate", !.seen = readAt[Other(task[h].who)]]
  <2>1. task[h].who \in Side /\ Other(task[h].who) \in Side
    BY <1>1, <1>4, IdleType DEF LoadThread, TaskOK
  <2>2. task[h].text # "none" => y \in TaskState /\ TaskOK(y)
    <3>1. readAt[Other(task[h].who)] \in Nat
      BY <1>1, <2>1
    <3>2. task[h].text # "none" => y \in TaskState
      BY <1>1, <3>1
    <3>3. /\ y.pc = "rate" /\ y.who = task[h].who /\ y.text = task[h].text
      BY <1>1
    <3> HIDE DEF y
    <3> QED BY <1>1, <2>1, <3>2, <3>3 DEF TaskOK
  <2>3. \/ task[h].text # "none" /\ task' = [task EXCEPT ![h] = y]
        \/ Done(h)
    BY <1>1, <1>4 DEF LoadThread
  <2> HIDE DEF y
  <2>4. PICK x \in TaskState : TaskOK(x) /\ task' = [task EXCEPT ![h] = x]
    BY <2>2, <2>3, <1>d
  <2>5. unsure' \subseteq Side
    BY <1>1, <1>4, <2>1 DEF LoadThread
  <2>6. UNCHANGED <<chat, world, noticed, peak, requests, faults>>
    BY <1>4 DEF LoadThread
  <2> QED BY <2>4, <2>5, <2>6 DEF TypeInv, TypeOK, TasksOK, TaskOK, chat, world
<1>5. CASE CheckRate(h)
  BY <1>1, <1>5, <1>m, <1>d, MoveTypes DEF CheckRate
<1>6. CASE MaskText(h)
  <2> DEFINE y == [task[h] EXCEPT !.pc = "insert", !.now = Len(msgs),
                                  !.text = MaskContactDetails(task[h].text)]
  <2>1. y \in TaskState /\ TaskOK(y)
    <3>1. /\ task[h].pc = "mask" /\ task[h].who \in Side
          /\ MaskContactDetails(task[h].text) \in Body
      BY <1>1, <1>6 DEF MaskText, MaskContactDetails, TaskOK
    <3>2. y \in TaskState
      BY <1>1, <3>1
    <3>3. y.pc = "insert" /\ y.who \in Side /\ y.text \in Body /\ y.now = Len(msgs)
      BY <1>1, <3>1
    <3> HIDE DEF y
    <3> QED BY <1>1, <3>2, <3>3 DEF TaskOK
  <2>2. task' = [task EXCEPT ![h] = y]
    BY <1>1, <1>6 DEF MaskText
  <2> HIDE DEF y
  <2> QED BY <1>1, <1>6, <2>1, <2>2, MoveTypes DEF MaskText
<1>7. CASE StoreMessage(h)
  <2> DEFINE n == Len(msgs) + 1
             y == [task[h] EXCEPT !.pc = "count", !.at = n]
             m == [from |-> task[h].who, body |-> task[h].text, report |-> "none"]
  <2>1. /\ task[h].who \in Side /\ task[h].text \in Body /\ task[h].now \in 0..Len(msgs)
    BY <1>1, <1>7 DEF StoreMessage, TaskOK
  <2>2. y \in TaskState /\ y.pc = "count" /\ y.who \in Side /\ y.text \in Body /\ y.at = n
    <3>1. n \in Nat
      BY <1>1
    <3> HIDE DEF n
    <3> QED BY <1>1, <2>1, <3>1
  <2>3. task' = [task EXCEPT ![h] = y] /\ msgs' = Append(msgs, m)
    BY <1>1, <1>7 DEF StoreMessage
  <2>4. m \in Message
    BY <2>1
  <2> HIDE DEF y, m
  <2>5. msgs' \in Seq(Message) /\ Len(msgs') = n
    BY <1>1, <2>3, <2>4
  <2>6. readAt' \in [Side -> 0..n] /\ peak' \in [Side -> 0..n] /\ unsure' \subseteq Side
    <3>1. n \in Nat /\ n >= Len(msgs) /\ SetRead(task[h].who, task[h].now)
      BY <1>1, <1>7 DEF StoreMessage
    <3> HIDE DEF n
    <3> QED BY <2>1, <3>1, ReadTypes
  <2>7. recent' \subseteq 1..n /\ noticed' \in [Side -> SUBSET (1..n)]
    <3>1. 1..Len(msgs) \subseteq 1..n /\ n \in 1..n
      BY <1>1
    <3>2. recent' = recent \cup {n} /\ noticed' = noticed
          /\ recent \subseteq 1..Len(msgs) /\ noticed \in [Side -> SUBSET (1..Len(msgs))]
      BY <1>7 DEF StoreMessage, TypeInv, TypeOK
    <3> HIDE DEF n
    <3> QED BY <3>1, <3>2
  <2>8. \A g \in Handler : task'[g] \in TaskState /\ TaskOK(task[g]) /\ (g # h => task'[g] = task[g])
    BY <1>1, <2>2, <2>3 DEF TypeInv, TasksOK
  <2>9. TasksOK'
    BY <1>1, <2>2, <2>3, <2>5, <2>8 DEF TasksOK, TaskOK
  <2>10. task' \in [Handler -> TaskState]
    BY <1>1, <2>2, <2>3
  <2> QED BY <1>7, <2>5, <2>6, <2>7, <2>9, <2>10 DEF StoreMessage, TypeInv, TypeOK, world
<1>8. CASE Notify(h)
  <2>1. task[h].at \in 1..Len(msgs) /\ Other(task[h].who) \in Side
    BY <1>1, <1>8, IdleType DEF Notify, TaskOK
  <2>2. noticed' \in [Side -> SUBSET (1..Len(msgs))]
    <3>1. noticed \in [Side -> SUBSET (1..Len(msgs))]
      BY DEF TypeInv, TypeOK
    <3> DEFINE x == Other(task[h].who)
               n == task[h].at
    <3>2. noticed' = noticed \/ noticed' = [noticed EXCEPT ![x] = noticed[x] \cup {n}]
      BY <1>8 DEF Notify
    <3>3. x \in Side /\ n \in 1..Len(msgs)
      BY <2>1
    <3> HIDE DEF x, n
    <3> QED BY <3>1, <3>2, <3>3
  <2>3. PICK x \in TaskState : TaskOK(x) /\ task' = [task EXCEPT ![h] = x]
    BY <1>8, <1>d DEF Notify
  <2> QED BY <1>8, <2>2, <2>3 DEF Notify, TypeInv, TypeOK, TasksOK, TaskOK, chat, world
<1>9. CASE NoticeLost(h)
  <2>1. Other(task[h].who) \in Side
    BY <1>1, <1>9, IdleType DEF NoticeLost, TaskOK
  <2>2. PICK x \in TaskState : TaskOK(x) /\ task' = [task EXCEPT ![h] = x]
    BY <1>9, <1>d DEF NoticeLost
  <2> QED BY <1>1, <1>9, <2>1, <2>2 DEF NoticeLost, TypeInv, TypeOK, TasksOK, TaskOK, chat, world
<1>10. CASE Unblock(h)
  <2>1. PICK x \in TaskState : TaskOK(x) /\ task' = [task EXCEPT ![h] = x]
    BY <1>10, <1>d DEF Unblock
  <2> QED BY <1>10, <2>1 DEF Unblock, Reopen, TypeInv, TypeOK, TasksOK, TaskOK, world
<1> QED BY <1>2, <1>3, <1>4, <1>5, <1>6, <1>7, <1>8, <1>9, <1>10 DEF HandlerStep

LEMMA TypeStep == TypeInv /\ [Next]_vars => TypeInv'
<1> SUFFICES ASSUME TypeInv, [Next]_vars PROVE TypeInv'
  OBVIOUS
<1> USE DEF TypeInv, TypeOK, TasksOK, TaskOK
<1>1. ASSUME NEW h \in Handler, HandlerStep(h) PROVE TypeInv'
  BY <1>1, HandlerTypes
<1>2. ASSUME NEW h \in Handler, NEW x \in Side, Request(h, x) PROVE TypeInv'
  BY <1>2, RequestTypes
<1>3. ASSUME NEW x \in Side, MarkRead(x) PROVE TypeInv'
  <2>1. Len(msgs) \in Nat /\ Len(msgs) \in 0..Len(msgs) /\ Len(msgs) >= Len(msgs)
    OBVIOUS
  <2>2. /\ readAt' \in [Side -> 0..Len(msgs)]
        /\ peak' \in [Side -> 0..Len(msgs)]
        /\ unsure' \subseteq Side
    BY <1>3, <2>1, ReadTypes DEF MarkRead
  <2> QED BY <1>3, <2>2 DEF MarkRead, world
<1>4. ASSUME NEW who \in Side \cup {Admin}, Block(who) PROVE TypeInv'
  BY <1>4, SidesDiffer DEF Block, Asked, world
<1>5. CASE AdminUnblock
  BY <1>5 DEF AdminUnblock, Reopen, Asked, world
<1>6. ASSUME NEW i \in DOMAIN msgs, NEW r \in {"open", "resolved"}, SetReport(i, r)
      PROVE  TypeInv'
  <2>1. msgs' = [msgs EXCEPT ![i].report = r]
    BY <1>6 DEF SetReport
  <2> DEFINE m == [msgs[i] EXCEPT !.report = r]
  <2>2. m \in Message
    <3>1. msgs[i] \in Message
      BY ElementType DEF TypeInv, TypeOK
    <3> QED BY <3>1
  <2>3. msgs' \in Seq(Message) /\ Len(msgs') = Len(msgs)
    <3>1. msgs' = [msgs EXCEPT ![i] = m]
      BY <2>1
    <3> HIDE DEF m
    <3> QED BY <2>2, <3>1
  <2> QED BY <1>6, <2>3 DEF SetReport, Asked, world, history
<1>7. ASSUME NEW i \in recent, MinutePasses(i) PROVE TypeInv'
  BY <1>7 DEF MinutePasses, world, history
<1>8. CASE Trade
  BY <1>8 DEF Trade, chat, history
<1>9. CASE UNCHANGED vars
  BY <1>9 DEF vars, chat, world, history
<1> QED BY <1>1, <1>2, <1>3, <1>4, <1>5, <1>6, <1>7, <1>8, <1>9 DEF Next, Report, ResolveReport

(* Every variable of the chat keeps its type. *)
THEOREM TypeCorrect == Spec => []TypeOK
<1>1. TypeInv => TypeOK
  BY DEF TypeInv
<1> QED BY <1>1, TypeInit, TypeStep, PTL DEF Spec

(* A request that begins has no message on its way; of the other steps, only
   CheckRate brings one nearer. *)
LEMMA RequestMoves ==
  ASSUME TypeInv, NEW h \in Handler, NEW x \in Side, Request(h, x)
  PROVE  /\ UNCHANGED <<chat, world>> /\ task[h].pc = "idle"
         /\ \A g \in Handler :
              \/ task'[g] = task[g]
              \/ g = h /\ task'[g].pc \in {"open", "load", "unblock"}
<1>1. task \in [Handler -> TaskState]
  BY DEF TypeInv, TypeOK
<1>2. CASE \E t \in {"contact", "none"} : StartConversation(h, x, t)
  <2> PICK t \in {"contact", "none"} : StartConversation(h, x, t)
    BY <1>2
  <2> DEFINE y == [Idle EXCEPT !.pc = IF thread = "NONE" THEN "open" ELSE "load",
                               !.who = x, !.text = t, !.listed = listed]
  <2>1. y.pc \in {"open", "load"}
    BY DEF Idle
  <2>2. task' = [task EXCEPT ![h] = y] /\ UNCHANGED <<chat, world>> /\ task[h].pc = "idle"
    BY DEF StartConversation
  <2> HIDE DEF y
  <2>3. \A g \in Handler : task'[g] = IF g = h THEN y ELSE task[g]
    BY <1>1, <2>2
  <2> QED BY <2>1, <2>2, <2>3
<1>3. CASE SendMessage(h, x)
  <2> DEFINE y == [Idle EXCEPT !.pc = "load", !.who = x, !.text = "contact"]
  <2>1. y.pc = "load"
    BY DEF Idle
  <2>2. task' = [task EXCEPT ![h] = y] /\ UNCHANGED <<chat, world>> /\ task[h].pc = "idle"
    BY <1>3 DEF SendMessage
  <2> HIDE DEF y
  <2>3. \A g \in Handler : task'[g] = IF g = h THEN y ELSE task[g]
    BY <1>1, <2>2
  <2> QED BY <2>1, <2>2, <2>3
<1>4. CASE LoadUnblock(h, x)
  <2> DEFINE y == [Idle EXCEPT !.pc = "unblock", !.who = x]
  <2>1. y.pc = "unblock"
    BY DEF Idle
  <2>2. task' = [task EXCEPT ![h] = y] /\ UNCHANGED <<chat, world>> /\ task[h].pc = "idle"
    BY <1>4 DEF LoadUnblock
  <2> HIDE DEF y
  <2>3. \A g \in Handler : task'[g] = IF g = h THEN y ELSE task[g]
    BY <1>1, <2>2
  <2> QED BY <2>1, <2>2, <2>3
<1> QED BY <1>2, <1>3, <1>4 DEF Request

LEMMA OtherMoves ==
  ASSUME TypeInv, NEW h \in Handler,
         \/ CheckTradeOnItem(h) \/ OpenThread(h) \/ LoadThread(h) \/ CheckRate(h)
         \/ Notify(h) \/ NoticeLost(h) \/ Unblock(h)
  PROVE  /\ UNCHANGED <<msgs, world>>
         /\ \A g \in Handler : g # h => task'[g] = task[g]
         /\ \/ task'[h].pc \in {"idle", "create", "load"}
            \/ task[h].pc = "load" /\ task'[h].pc = "rate" /\ thread = "OPEN"
            \/ task[h].pc = "rate" /\ task'[h].pc = "mask"
<1>1. task \in [Handler -> TaskState]
  BY DEF TypeInv, TypeOK
<1> USE <1>1 DEF Goto, Done, Idle
<1>2. CASE CheckTradeOnItem(h)
  BY <1>2 DEF CheckTradeOnItem, chat
<1>3. CASE OpenThread(h)
  BY <1>3 DEF OpenThread
<1>4. CASE LoadThread(h)
  BY <1>4 DEF LoadThread, Accepts, chat
<1>5. CASE CheckRate(h)
  BY <1>5 DEF CheckRate, chat
<1>6. CASE Notify(h)
  BY <1>6 DEF Notify, chat
<1>7. CASE NoticeLost(h)
  BY <1>7 DEF NoticeLost, chat
<1>8. CASE Unblock(h)
  BY <1>8 DEF Unblock
<1> QED BY <1>2, <1>3, <1>4, <1>5, <1>6, <1>7, <1>8

-----------------------------------------------------------------------------
(* Contact details.  A text that shows them was checked after a trade, and a
   trade that has been cannot be undone. *)
ContactsInv ==
  /\ traded => met
  /\ \A h \in Handler : task[h].pc = "insert" /\ task[h].text = "contact" => met
  /\ ContactsAfterTrade

LEMMA ContactsInit == Init => ContactsInv
  BY IdleType DEF Init, ContactsInv, ContactsAfterTrade

LEMMA ContactsStep ==
  ASSUME TypeInv, ContactsInv, [Next]_vars
  PROVE  ContactsInv'
<1>t. /\ task \in [Handler -> TaskState] /\ msgs \in Seq(Message)
      /\ traded \in BOOLEAN /\ met \in BOOLEAN
  BY DEF TypeInv, TypeOK
<1> USE <1>t DEF ContactsInv, ContactsAfterTrade
<1>1. ASSUME NEW h \in Handler, StoreMessage(h) PROVE ContactsInv'
  <2> DEFINE m == [from |-> task[h].who, body |-> task[h].text, report |-> "none"]
             n == Len(msgs) + 1
             y == [task[h] EXCEPT !.pc = "count", !.at = n]
  <2>1. y.pc = "count" /\ m.body = task[h].text /\ m \in Message
    BY <1>1 DEF StoreMessage, TypeInv, TasksOK, TaskOK
  <2>2. /\ msgs' = Append(msgs, m) /\ task' = [task EXCEPT ![h] = y] /\ UNCHANGED <<traded, met>>
        /\ (task[h].text = "contact" => met)
    BY <1>1 DEF StoreMessage, world
  <2> HIDE DEF m, y
  <2>3. \A i \in DOMAIN msgs' : msgs'[i] = m \/ (i \in DOMAIN msgs /\ msgs'[i] = msgs[i])
    BY <2>1, <2>2
  <2> QED BY <2>1, <2>2, <2>3
<1>2. ASSUME NEW h \in Handler, MaskText(h) PROVE ContactsInv'
  <2> DEFINE y == [task[h] EXCEPT !.pc = "insert", !.now = Len(msgs),
                                  !.text = MaskContactDetails(task[h].text)]
  <2>1. y.text = "contact" => traded
    BY DEF MaskContactDetails
  <2>2. task' = [task EXCEPT ![h] = y] /\ UNCHANGED <<msgs, traded, met>>
    BY <1>2 DEF MaskText, chat, world
  <2> HIDE DEF y
  <2> QED BY <2>1, <2>2
<1>3. ASSUME NEW i \in DOMAIN msgs, NEW r \in {"open", "resolved"}, SetReport(i, r)
      PROVE  ContactsInv'
  <2> DEFINE m == [msgs[i] EXCEPT !.report = r]
  <2>1. m.body = msgs[i].body
    BY ElementType
  <2>2. msgs' = [msgs EXCEPT ![i] = m] /\ UNCHANGED <<task, traded, met>>
    BY <1>3 DEF SetReport, world
  <2> HIDE DEF m
  <2> QED BY <2>1, <2>2
<1>4. CASE Trade
  BY <1>4 DEF Trade, chat
<1>5. ASSUME UNCHANGED <<msgs, world>>,
             \A h \in Handler : task'[h].pc = "insert" => task'[h] = task[h]
      PROVE  ContactsInv'
  BY <1>5 DEF world
<1>6. ASSUME NEW h \in Handler, NEW x \in Side, Request(h, x) PROVE ContactsInv'
  BY <1>6, RequestMoves, ZenonT(60) DEF world, chat
<1>7. ASSUME NEW h \in Handler,
             \/ CheckTradeOnItem(h) \/ OpenThread(h) \/ LoadThread(h) \/ CheckRate(h)
             \/ Notify(h) \/ NoticeLost(h) \/ Unblock(h)
      PROVE  ContactsInv'
  BY <1>7, OtherMoves DEF world
<1>8. ASSUME UNCHANGED <<msgs, world, task>> PROVE ContactsInv'
  BY <1>5, <1>8
<1> QED BY <1>1, <1>2, <1>3, <1>4, <1>6, <1>7, <1>8
        DEF Next, HandlerStep, MarkRead, Block, AdminUnblock, Report, ResolveReport,
            MinutePasses, vars, chat

(* Contact details are stored only once the two have traded, however the checks
   and the writes of several sends interleave with trades that come and go. *)
THEOREM ContactsAreCovered == Spec => []ContactsAfterTrade
<1>1. Init => TypeInv /\ ContactsInv
  BY TypeInit, ContactsInit
<1>2. TypeInv /\ ContactsInv /\ [Next]_vars => (TypeInv /\ ContactsInv)'
  BY TypeStep, ContactsStep
<1>3. ContactsInv => ContactsAfterTrade
  BY DEF ContactsInv
<1> QED BY <1>1, <1>2, <1>3, PTL DEF Spec

-----------------------------------------------------------------------------
(* Blocks. *)
LEMMA PendingFinite == Pending \subseteq Handler /\ IsFiniteSet(Pending)
  BY HandlersFinite, FS_Subset DEF Pending

LEMMA BlockStep ==
  ASSUME TypeInv, [Next]_vars, thread = "BLOCKED", thread' = "BLOCKED"
  PROVE  Len(msgs') + Cardinality(Pending') <= Len(msgs) + Cardinality(Pending)
<1>t. task \in [Handler -> TaskState] /\ msgs \in Seq(Message) /\ Len(msgs) \in Nat
  BY DEF TypeInv, TypeOK
<1>f. /\ IsFiniteSet(Pending) /\ Cardinality(Pending) \in Nat
  BY PendingFinite, FS_CardinalityType
<1>1. ASSUME Pending' \subseteq Pending, Len(msgs') = Len(msgs)
      PROVE  Len(msgs') + Cardinality(Pending') <= Len(msgs) + Cardinality(Pending)
  <2>1. Cardinality(Pending') <= Cardinality(Pending) /\ Cardinality(Pending') \in Nat
    BY <1>1, <1>f, FS_Subset, FS_CardinalityType
  <2> QED BY <1>1, <1>t, <1>f, <2>1
<1>2. ASSUME NEW h \in Handler, StoreMessage(h)
      PROVE  Len(msgs') + Cardinality(Pending') <= Len(msgs) + Cardinality(Pending)
  <2> DEFINE m == [from |-> task[h].who, body |-> task[h].text, report |-> "none"]
             n == Len(msgs) + 1
             y == [task[h] EXCEPT !.pc = "count", !.at = n]
  <2>1. y.pc = "count" /\ m \in Message
    BY <1>t, <1>2 DEF StoreMessage, TypeInv, TasksOK, TaskOK
  <2>2. msgs' = Append(msgs, m) /\ task' = [task EXCEPT ![h] = y] /\ task[h].pc = "insert"
    BY <1>2, <1>t DEF StoreMessage
  <2> HIDE DEF m, y
  <2>3. Len(msgs') = Len(msgs) + 1
    BY <1>t, <2>1, <2>2
  <2>4. h \in Pending /\ Pending' = Pending \ {h}
    BY <1>t, <2>1, <2>2 DEF Pending
  <2>5. Cardinality(Pending') = Cardinality(Pending) - 1
    BY <1>f, <2>4, FS_RemoveElement
  <2> QED BY <1>t, <1>f, <2>3, <2>5
<1>3. ASSUME NEW h \in Handler, MaskText(h) PROVE Pending' \subseteq Pending /\ msgs' = msgs
  BY <1>3, <1>t DEF MaskText, Pending, chat
<1>4. ASSUME NEW h \in Handler, NEW x \in Side, Request(h, x)
      PROVE  Pending' \subseteq Pending /\ msgs' = msgs
  BY <1>4, RequestMoves DEF Pending, chat
<1>5. ASSUME NEW h \in Handler,
             \/ CheckTradeOnItem(h) \/ OpenThread(h) \/ LoadThread(h) \/ CheckRate(h)
             \/ Notify(h) \/ NoticeLost(h) \/ Unblock(h)
      PROVE  Pending' \subseteq Pending /\ msgs' = msgs
  BY <1>5, OtherMoves DEF Pending
<1>6. ASSUME NEW i \in DOMAIN msgs, NEW r \in {"open", "resolved"}, SetReport(i, r)
      PROVE  Pending' = Pending /\ Len(msgs') = Len(msgs)
  BY <1>6, <1>t DEF SetReport, Pending
<1>7. CASE UNCHANGED <<msgs, task>>
  BY <1>1, <1>7 DEF Pending
<1> QED BY <1>1, <1>2, <1>3, <1>4, <1>5, <1>6, <1>7
        DEF Next, HandlerStep, MarkRead, Block, AdminUnblock, Report, ResolveReport,
            MinutePasses, Trade, vars, chat

(* No message joins those that had passed the check when a thread was blocked,
   for any number of requests at the same time. *)
THEOREM BlocksHold == Spec => BlockHolds
<1>1. TypeInv /\ [Next]_vars =>
        [thread = "BLOCKED" /\ thread' = "BLOCKED" =>
           Len(msgs') + Cardinality(Pending') <= Len(msgs) + Cardinality(Pending)]_vars
  BY BlockStep
<1> QED BY <1>1, TypeInit, TypeStep, PTL DEF Spec, BlockHolds

-----------------------------------------------------------------------------
(* Notices.  InSend are the stages of a send past its first check. *)
InSend == {"rate", "mask", "insert", "count"}

InSendOf(h, x) == task[h].pc \in InSend /\ task[h].who = x

LEMMA SendingIs == \A h, x : h \in Sending(x) <=> h \in Handler /\ InSendOf(h, x)
  BY DEF Sending, InSendOf, InSend

LEMMA SentIs ==
  \A x, i : /\ i \in Sent(x) <=> i \in DOMAIN msgs /\ msgs[i].from = x
            /\ i \in Sent(x)' <=> i \in DOMAIN msgs' /\ msgs'[i].from = x
  BY DEF Sent

LEMMA SentRange ==
  ASSUME TypeInv, NEW x, NEW i \in Sent(x)
  PROVE  i \in Nat /\ i >= 1 /\ i <= Len(msgs)
<1>1. msgs \in Seq(Message) /\ i \in DOMAIN msgs
  BY SentIs DEF TypeInv, TypeOK
<1> QED BY <1>1

(* A message is stored for its sender and for nobody else. *)
LEMMA StoreSent ==
  ASSUME TypeInv, NEW h \in Handler, StoreMessage(h)
  PROVE  /\ task[h].who \in Side /\ task[h].now \in 0..Len(msgs)
         /\ Len(msgs) + 1 \in Sent(task[h].who)'
         /\ \A x, i : i \in Sent(x)' <=> i \in Sent(x) \/ (x = task[h].who /\ i = Len(msgs) + 1)
         /\ task'[h].pc = "count" /\ task'[h].who = task[h].who
         /\ task'[h].seen = task[h].seen /\ task'[h].at = Len(msgs) + 1
         /\ \A g \in Handler : g # h => task'[g] = task[g]
<1> DEFINE m == [from |-> task[h].who, body |-> task[h].text, report |-> "none"]
           n == Len(msgs) + 1
           y == [task[h] EXCEPT !.pc = "count", !.at = n]
<1>1. /\ task[h].who \in Side /\ task[h].text \in Body /\ task[h].now \in 0..Len(msgs)
      /\ task \in [Handler -> TaskState] /\ msgs \in Seq(Message) /\ Len(msgs) \in Nat
  BY DEF StoreMessage, TypeInv, TypeOK, TasksOK, TaskOK
<1>2. msgs' = Append(msgs, m) /\ task' = [task EXCEPT ![h] = y]
  BY <1>1 DEF StoreMessage
<1>3. m.from = task[h].who /\ m \in Message
  BY <1>1
<1>4. y.pc = "count" /\ y.who = task[h].who /\ y.seen = task[h].seen /\ y.at = n
  BY <1>1
<1> HIDE DEF m, y
<1>5. DOMAIN msgs' = DOMAIN msgs \cup {n} /\ n \notin DOMAIN msgs /\ msgs'[n] = m
      /\ \A i \in DOMAIN msgs : msgs'[i] = msgs[i]
  BY <1>1, <1>2, <1>3
<1>6. \A x, i : i \in Sent(x)' <=> i \in Sent(x) \/ (x = task[h].who /\ i = n)
  BY <1>3, <1>5, SentIs
<1> HIDE DEF n
<1> QED BY <1>1, <1>2, <1>4, <1>6 DEF n

(* The other steps store nothing. *)
LEMMA SentStays ==
  ASSUME TypeInv, [Next]_vars, \A h \in Handler : ~StoreMessage(h)
  PROVE  \A x, i : i \in Sent(x)' <=> i \in Sent(x)
<1>t. msgs \in Seq(Message)
  BY DEF TypeInv, TypeOK
<1>1. CASE UNCHANGED msgs
  BY <1>1, SentIs
<1>2. ASSUME NEW j \in DOMAIN msgs, NEW r \in {"open", "resolved"}, SetReport(j, r)
      PROVE  \A x, i : i \in Sent(x)' <=> i \in Sent(x)
  <2> DEFINE m == [msgs[j] EXCEPT !.report = r]
  <2>1. m.from = msgs[j].from
    BY <1>t, ElementType
  <2>2. msgs' = [msgs EXCEPT ![j] = m]
    BY <1>2 DEF SetReport
  <2> HIDE DEF m
  <2>3. DOMAIN msgs' = DOMAIN msgs /\ \A i \in DOMAIN msgs : msgs'[i].from = msgs[i].from
    BY <1>t, <2>1, <2>2
  <2> QED BY <2>3, SentIs
<1>3. ASSUME NEW h \in Handler, HandlerStep(h) PROVE UNCHANGED msgs
  BY <1>3, OtherMoves DEF HandlerStep, MaskText, chat
<1>4. ASSUME NEW h \in Handler, NEW x \in Side, Request(h, x) PROVE UNCHANGED msgs
  BY <1>4, RequestMoves DEF chat
<1> QED BY <1>1, <1>2, <1>3, <1>4
        DEF Next, MarkRead, Block, AdminUnblock, Report, ResolveReport, MinutePasses,
            Trade, vars, chat

(* How a request comes to be in a send: it was in it already, for the same
   side and with what it had read, or it has just loaded the thread. *)
Stays(g) ==
  /\ task[g].pc \in InSend
  /\ task'[g].who = task[g].who /\ task'[g].seen = task[g].seen
  /\ task'[g].pc = "count" => \/ task[g].pc = "count" /\ task'[g].at = task[g].at
                              \/ StoreMessage(g)

Loads(g) ==
  /\ LoadThread(g)
  /\ task'[g].who = task[g].who /\ task'[g].pc = "rate"
  /\ task'[g].seen = readAt[Other(task[g].who)]
  /\ unsure' = IF Sending(task[g].who) # {} THEN unsure \cup {Other(task[g].who)} ELSE unsure
  /\ \A k \in Handler : k # g => task'[k] = task[k]
  /\ task[g].pc \notin InSend /\ task[g].who \in Side

LEMMA SendMoves ==
  ASSUME TypeInv, [Next]_vars, NEW g \in Handler, task'[g].pc \in InSend
  PROVE  Stays(g) \/ Loads(g)
<1>t. task \in [Handler -> TaskState] /\ task[g] \in TaskState
  BY DEF TypeInv, TypeOK
<1>u. ASSUME task'[g] = task[g] PROVE Stays(g)
  BY <1>u DEF Stays
<1>1. ASSUME NEW h \in Handler, NEW x \in Side, Request(h, x) PROVE Stays(g)
  BY <1>1, <1>u, RequestMoves DEF InSend
<1>2. ASSUME NEW h \in Handler, StoreMessage(h) PROVE Stays(g)
  BY <1>2, <1>u, StoreSent DEF StoreMessage, Stays, InSend
<1>3. ASSUME NEW h \in Handler, MaskText(h) PROVE Stays(g)
  <2> DEFINE y == [task[h] EXCEPT !.pc = "insert", !.now = Len(msgs),
                                  !.text = MaskContactDetails(task[h].text)]
  <2>1. y.pc = "insert" /\ y.who = task[h].who /\ y.seen = task[h].seen
    BY <1>t
  <2>2. task' = [task EXCEPT ![h] = y] /\ task[h].pc = "mask"
    BY <1>3, <1>t DEF MaskText
  <2> HIDE DEF y
  <2> QED BY <1>t, <1>u, <2>1, <2>2 DEF Stays, InSend
<1>4. ASSUME NEW h \in Handler, LoadThread(h) PROVE Stays(g) \/ Loads(g)
  <2> DEFINE x == task[h].who
             s == readAt[Other(x)]
             y == [task[h] EXCEPT !.pc = "rate", !.seen = s]
  <2>1. y.pc = "rate" /\ y.who = x /\ y.seen = s
    BY <1>t
  <2>2. \/ task' = [task EXCEPT ![h] = Idle]
        \/ /\ task' = [task EXCEPT ![h] = y]
           /\ unsure' = IF Sending(x) # {} THEN unsure \cup {Other(x)} ELSE unsure
    BY <1>4, <1>t DEF LoadThread, Done
  <2>3. task[h].pc = "load" /\ x \in Side
    BY <1>4 DEF LoadThread, TypeInv, TasksOK, TaskOK
  <2> HIDE DEF s, y
  <2>4. CASE g = h
    <3>1. task'[g] = y /\ unsure' = IF Sending(x) # {} THEN unsure \cup {Other(x)} ELSE unsure
      BY <1>t, <2>2, <2>4, IdleType DEF InSend
    <3>2. \A k \in Handler : k # g => task'[k] = task[k]
      BY <1>t, <2>2, <2>4
    <3> QED BY <1>4, <2>1, <2>3, <2>4, <3>1, <3>2 DEF Loads, InSend, s
  <2>5. CASE g # h
    BY <1>t, <1>u, <2>2, <2>5
  <2> QED BY <2>4, <2>5
<1>5. ASSUME NEW h \in Handler, CheckRate(h) PROVE Stays(g)
  <2> DEFINE y == [task[h] EXCEPT !.pc = "mask"]
  <2>1. y.pc = "mask" /\ y.who = task[h].who /\ y.seen = task[h].seen
    BY <1>t
  <2>2. task[h].pc = "rate" /\ (task' = [task EXCEPT ![h] = y] \/ task' = [task EXCEPT ![h] = Idle])
    BY <1>5, <1>t DEF CheckRate, Goto, Done
  <2> HIDE DEF y
  <2> QED BY <1>t, <1>u, <2>1, <2>2, IdleType DEF Stays, InSend
<1>6. ASSUME NEW h \in Handler,
             CheckTradeOnItem(h) \/ OpenThread(h) \/ Notify(h) \/ NoticeLost(h) \/ Unblock(h)
      PROVE  Stays(g)
  <2>1. CASE CheckTradeOnItem(h) \/ OpenThread(h)
    <3>1. \A k \in Handler : k # h => task'[k] = task[k]
      BY <2>1, OtherMoves
    <3>2. task'[h].pc \in {"idle", "create", "load"}
      BY <2>1, <1>t, IdleType DEF CheckTradeOnItem, OpenThread, Goto, Done
    <3> QED BY <1>u, <3>1, <3>2 DEF InSend
  <2>2. CASE Notify(h) \/ NoticeLost(h) \/ Unblock(h)
    <3>1. task' = [task EXCEPT ![h] = Idle]
      BY <2>2 DEF Notify, NoticeLost, Unblock, Done
    <3> QED BY <1>t, <1>u, <3>1, IdleType DEF InSend
  <2> QED BY <1>6, <2>1, <2>2
<1>7. CASE UNCHANGED task
  BY <1>7, <1>u
<1> QED BY <1>1, <1>2, <1>3, <1>4, <1>5, <1>6, <1>7
        DEF Next, HandlerStep, MarkRead, Block, AdminUnblock, Report, ResolveReport,
            SetReport, MinutePasses, Trade, vars
(* A step leaves what a side has read alone, or that side reads. *)
LEMMA ReadMoves ==
  ASSUME TypeInv, [Next]_vars
  PROVE  \/ UNCHANGED <<readAt, peak>> /\ unsure \subseteq unsure'
         \/ \E x \in Side : MarkRead(x) /\ SetRead(x, Len(msgs))
         \/ \E h \in Handler : StoreMessage(h) /\ SetRead(task[h].who, task[h].now)
<1>1. ASSUME NEW h \in Handler, HandlerStep(h)
      PROVE  \/ UNCHANGED <<readAt, peak>> /\ unsure \subseteq unsure'
             \/ StoreMessage(h) /\ SetRead(task[h].who, task[h].now)
  <2>1. CASE StoreMessage(h)
    BY <2>1 DEF StoreMessage
  <2>2. CASE LoadThread(h)
    BY <2>2 DEF LoadThread, chat
  <2>3. CASE NoticeLost(h)
    BY <2>3 DEF NoticeLost, chat
  <2> QED BY <1>1, <2>1, <2>2, <2>3
          DEF HandlerStep, CheckTradeOnItem, OpenThread, CheckRate, MaskText, Notify,
              Unblock, chat, history
<1>2. ASSUME NEW h \in Handler, NEW x \in Side, Request(h, x)
      PROVE  UNCHANGED <<readAt, peak, unsure>>
  BY <1>2 DEF Request, StartConversation, SendMessage, LoadUnblock, chat, history
<1>3. CASE \E x \in Side : MarkRead(x)
  BY <1>3 DEF MarkRead
<1>4. CASE UNCHANGED <<readAt, peak, unsure>>
  BY <1>4
<1> QED BY <1>1, <1>2, <1>3, <1>4
        DEF Next, Block, AdminUnblock, Report, ResolveReport, SetReport, MinutePasses,
            Trade, vars, chat, history

(* What SetRead leaves, and to whom. *)
LEMMA ReadSets ==
  ASSUME TypeInv, NEW x \in Side, NEW n \in 0..Len(msgs), SetRead(x, n)
  PROVE  /\ readAt'[x] = n /\ readAt'[x] <= peak'[x] /\ peak[x] <= peak'[x]
         /\ \A y \in Side : y # x => readAt'[y] = readAt[y] /\ peak'[y] = peak[y]
         /\ unsure \subseteq unsure' /\ unsure' \subseteq unsure \cup {x}
         /\ x \notin unsure' => /\ \A h \in Handler : ~InSendOf(h, Other(x))
                                /\ \A i \in Sent(Other(x)) : i <= n
<1>1. /\ readAt \in [Side -> 0..Len(msgs)] /\ peak \in [Side -> 0..Len(msgs)]
      /\ unsure \subseteq Side /\ Len(msgs) \in Nat
  BY DEF TypeInv, TypeOK
<1>2. /\ readAt'[x] = n /\ readAt'[x] <= peak'[x] /\ peak[x] <= peak'[x]
      /\ \A y \in Side : y # x => readAt'[y] = readAt[y] /\ peak'[y] = peak[y]
  <2>1. peak'[x] = IF n > peak[x] THEN n ELSE peak[x]
    BY <1>1 DEF SetRead
  <2>2. /\ readAt'[x] = n
        /\ \A y \in Side : y # x => readAt'[y] = readAt[y] /\ peak'[y] = peak[y]
    BY <1>1 DEF SetRead
  <2>3. peak[x] \in Nat /\ n \in Nat
    BY <1>1
  <2> QED BY <2>1, <2>2, <2>3
<1>3. unsure \subseteq unsure' /\ unsure' \subseteq unsure \cup {x}
  BY DEF SetRead
<1>4. x \notin unsure' => /\ Sending(Other(x)) = {}
                          /\ \A i \in Sent(Other(x)) : ~(i > n)
  BY DEF SetRead
<1>5. \A i \in Sent(Other(x)) : ~(i > n) => i <= n
  BY SentRange
<1> QED BY <1>2, <1>3, <1>4, <1>5, SendingIs

(* Notices are only added, and only by Notify. *)
Notifies(h, x) ==
  /\ Notify(h)
  /\ task[h].who \in Side /\ x = Other(task[h].who) /\ task[h].who = Other(x)
  /\ Fresh(task[h].who, task[h].at, task[h].seen)
  /\ noticed'[x] = noticed[x] \cup {task[h].at}

LEMMA NoticedMoves ==
  ASSUME TypeInv, [Next]_vars, NEW x \in Side
  PROVE  noticed'[x] = noticed[x] \/ \E h \in Handler : Notifies(h, x)
<1>1. ASSUME NEW h \in Handler, Notify(h) PROVE noticed'[x] = noticed[x] \/ Notifies(h, x)
  <2>1. /\ task[h].who \in Side
        /\ noticed \in [Side -> SUBSET (1..Len(msgs))]
    BY <1>1 DEF Notify, TypeInv, TypeOK, TasksOK, TaskOK
  <2>2. Other(task[h].who) \in Side /\ Other(Other(task[h].who)) = task[h].who
    BY <2>1, SidesDiffer DEF Other
  <2>3. \/ noticed' = noticed
        \/ /\ Fresh(task[h].who, task[h].at, task[h].seen)
           /\ noticed' = [noticed EXCEPT ![Other(task[h].who)] = @ \cup {task[h].at}]
    BY <1>1 DEF Notify
  <2> QED BY <1>1, <2>1, <2>2, <2>3 DEF Notifies
<1>2. ASSUME NEW h \in Handler, HandlerStep(h), ~Notify(h) PROVE noticed' = noticed
  BY <1>2 DEF HandlerStep, CheckTradeOnItem, OpenThread, LoadThread, CheckRate, MaskText,
              StoreMessage, NoticeLost, Unblock, history
<1>3. ASSUME NEW h \in Handler, NEW y \in Side, Request(h, y) PROVE noticed' = noticed
  BY <1>3 DEF Request, StartConversation, SendMessage, LoadUnblock, history
<1> QED BY <1>1, <1>2, <1>3
        DEF Next, MarkRead, Block, AdminUnblock, Report, ResolveReport, SetReport,
            MinutePasses, Trade, vars, history

(* A notice is of a message from the other side; what a send saw read has been
   read. *)
BurstInv ==
  /\ \A x \in Side : /\ noticed[x] \subseteq Sent(Other(x))
                     /\ readAt[x] <= peak[x]
  /\ \A h \in Handler : task[h].pc \in InSend =>
       /\ task[h].seen <= peak[Other(task[h].who)]
       /\ task[h].pc = "count" => task[h].at \in Sent(task[h].who)

LEMMA BurstInit == Init => BurstInv
  BY IdleType DEF Init, BurstInv, InSend

LEMMA BurstStep ==
  ASSUME TypeInv, TypeInv', BurstInv, [Next]_vars
  PROVE  BurstInv'
<1>t. /\ readAt \in [Side -> 0..Len(msgs)] /\ peak \in [Side -> 0..Len(msgs)]
      /\ Len(msgs) \in Nat
      /\ task \in [Handler -> TaskState]
      /\ \A h \in Handler : task[h].pc # "idle" => task[h].who \in Side
  BY DEF TypeInv, TypeOK, TasksOK, TaskOK
<1>n. readAt' \in [Side -> Nat] /\ peak' \in [Side -> Nat] /\ \A h \in Handler : task'[h].seen \in Nat
  <2>1. /\ readAt' \in [Side -> 0..Len(msgs')] /\ peak' \in [Side -> 0..Len(msgs')]
        /\ Len(msgs') \in Nat /\ task' \in [Handler -> TaskState]
    BY DEF TypeInv, TypeOK
  <2> QED BY <2>1
<1>s. \A x, i : i \in Sent(x) => i \in Sent(x)'
  BY SentStays, StoreSent
<1>p. ASSUME NEW x \in Side
      PROVE  peak[x] <= peak'[x] /\ readAt'[x] <= peak'[x]
  <2>1. CASE UNCHANGED <<readAt, peak>>
    BY <1>t, <2>1 DEF BurstInv
  <2>2. ASSUME NEW y \in Side, NEW n \in 0..Len(msgs), SetRead(y, n)
        PROVE  peak[x] <= peak'[x] /\ readAt'[x] <= peak'[x]
    <3>1. CASE x = y
      BY <2>2, <3>1, ReadSets
    <3>2. CASE x # y
      BY <1>t, <2>2, <3>2, ReadSets DEF BurstInv
    <3> QED BY <3>1, <3>2
  <2>3. Len(msgs) \in 0..Len(msgs)
    BY <1>t
  <2> QED BY <2>1, <2>2, <2>3, ReadMoves, StoreSent
<1>1. ASSUME NEW x \in Side, NEW i \in noticed'[x] PROVE i \in Sent(Other(x))'
  <2>1. CASE i \in noticed[x]
    BY <1>s, <2>1 DEF BurstInv
  <2>2. ASSUME NEW h \in Handler, Notifies(h, x), i = task[h].at PROVE i \in Sent(Other(x))'
    BY <1>s, <2>2 DEF Notifies, Notify, BurstInv, InSend
  <2> QED BY <1>1, <2>1, <2>2, NoticedMoves DEF Notifies
<1>2. ASSUME NEW h \in Handler, task'[h].pc \in InSend
      PROVE  /\ task'[h].seen <= peak'[Other(task'[h].who)]
             /\ task'[h].pc = "count" => (task[h].at \in Sent(task[h].who))'
  <2> DEFINE x == task[h].who
  <2>1. CASE Stays(h)
    <3>1. x \in Side /\ Other(x) \in Side /\ task[h].seen \in Nat
      BY <1>t, <2>1, IdleType DEF Stays, InSend
    <3>2. task'[h].who = x
      BY <2>1 DEF Stays
    <3>3. task'[h].seen <= peak'[Other(x)]
      <4>1. task[h].seen <= peak[Other(x)] /\ peak[Other(x)] \in Nat
        BY <1>t, <2>1, <3>1 DEF Stays, BurstInv
      <4> QED BY <1>n, <1>p, <2>1, <3>1, <4>1 DEF Stays
    <3>4. ASSUME task'[h].pc = "count"
          PROVE  \E i : task'[h].at = i /\ task'[h].who = x /\ i \in Sent(x)'
      <4>1. ASSUME task[h].pc = "count", task'[h].at = task[h].at
            PROVE  task'[h].at = task[h].at /\ task[h].at \in Sent(x)
        BY <4>1 DEF BurstInv, InSend
      <4>2. ASSUME StoreMessage(h)
            PROVE  task'[h].at = Len(msgs) + 1 /\ Len(msgs) + 1 \in Sent(task[h].who)'
        BY <4>2, StoreSent
      <4> QED BY <1>s, <2>1, <3>2, <3>4, <4>1, <4>2 DEF Stays
    <3>5. task'[h].pc = "count" => (task[h].at \in Sent(task[h].who))'
      BY <3>4, SentIs
    <3> QED BY <3>2, <3>3, <3>5
  <2>2. CASE Loads(h)
    <3>1. Other(x) \in Side
      BY <2>2, IdleType DEF Loads
    <3>2. readAt' = readAt
      BY <2>2 DEF Loads, LoadThread, chat
    <3>3. /\ task'[h].who = x /\ task'[h].seen = readAt'[Other(x)]
          /\ task'[h].pc # "count"
      BY <2>2, <3>2 DEF Loads
    <3>4. readAt'[Other(x)] <= peak'[Other(x)]
      BY <1>p, <3>1
    <3> QED BY <3>3, <3>4
  <2> QED BY <1>2, <2>1, <2>2, SendMoves
<1> QED BY <1>p, <1>1, <1>2 DEF BurstInv

(* However sends load, store and count in any order, a side is notified again
   only after it read what it was notified about before. *)
THEOREM BurstsAreSingle == Spec => OneNoticePerBurst
<1>1. Init => TypeInv /\ BurstInv
  BY TypeInit, BurstInit
<1>2. TypeInv /\ BurstInv /\ [Next]_vars => (TypeInv /\ BurstInv)'
  BY TypeStep, BurstStep
<1>3. TypeInv /\ BurstInv /\ [Next]_vars =>
        [\A x \in Side : noticed'[x] # noticed[x] => \A i \in noticed[x] : i <= peak[x]]_vars
  <2> SUFFICES ASSUME TypeInv, BurstInv, [Next]_vars, NEW x \in Side,
                      noticed'[x] # noticed[x], NEW i \in noticed[x]
               PROVE  i <= peak[x]
    OBVIOUS
  <2>1. PICK h \in Handler : Notifies(h, x)
    BY NoticedMoves
  <2>2. i \in Sent(task[h].who) /\ i # task[h].at
    BY <2>1 DEF Notifies, BurstInv
  <2>3. ~(i > task[h].seen)
    BY <2>1, <2>2 DEF Notifies, Fresh
  <2>4. task[h].pc \in InSend /\ x = Other(task[h].who)
    BY <2>1 DEF Notifies, Notify, InSend
  <2>6. task[h].seen <= peak[x]
    BY <2>4 DEF BurstInv
  <2>7. task[h].seen \in Nat /\ peak[x] \in Nat
    <3>1. task[h] \in TaskState /\ peak[x] \in 0..Len(msgs) /\ Len(msgs) \in Nat
      BY DEF TypeInv, TypeOK
    <3>2. task[h].seen \in Nat
      BY <3>1, ZenonT(30) DEF TaskState
    <3> QED BY <3>1, <3>2
  <2>5. i \in Nat
    BY <2>2, SentRange
  <2> QED BY <2>3, <2>6, <2>7, <2>5
<1> QED BY <1>1, <1>2, <1>3, PTL DEF Spec, OneNoticePerBurst

-----------------------------------------------------------------------------
(* Who is told.  For a side none of whose notices was lost or raced: one send
   to it at a time, which saw what the side has read by now and whose message
   came later; and each message the side has not read is the one that send is
   about to count, or comes with a notice the side has not read either. *)
Alone(x) ==
  \A g, h \in Handler : InSendOf(g, Other(x)) /\ InSendOf(h, Other(x)) => g = h

SawRead(x) == \A h \in Handler : InSendOf(h, Other(x)) => task[h].seen = readAt[x]

Counting(h, x, i) == InSendOf(h, Other(x)) /\ task[h].pc = "count" /\ task[h].at = i

CountsLater(x) == \A h \in Handler, i \in Nat : Counting(h, x, i) => i > readAt[x]

Told(x) == \E j \in noticed[x] : j > readAt[x]

IsTold(x) ==
  \A i \in Sent(Other(x)) : i > readAt[x] => Told(x) \/ \E h \in Handler : Counting(h, x, i)

NoticeInv ==
  \A x \in Side \ unsure : Alone(x) /\ SawRead(x) /\ CountsLater(x) /\ IsTold(x)

LEMMA NoticeInit == Init => NoticeInv
<1> SUFFICES ASSUME Init, NEW x \in Side PROVE Alone(x) /\ SawRead(x) /\ CountsLater(x) /\ IsTold(x)
  BY DEF NoticeInv
<1>1. \A h \in Handler : ~InSendOf(h, Other(x))
  BY IdleType DEF Init, InSendOf, InSend
<1>2. \A i : i \notin Sent(Other(x))
  BY SentIs DEF Init
<1> QED BY <1>1, <1>2 DEF Alone, SawRead, CountsLater, IsTold, Counting

LEMMA OtherTwice == \A x \in Side : Other(x) \in Side /\ Other(Other(x)) = x /\ Other(x) # x
  BY SidesDiffer DEF Other

(* A step moves one request. *)
LEMMA HandlerMoves ==
  ASSUME TypeInv, NEW g \in Handler, HandlerStep(g)
  PROVE  \A k \in Handler : k # g => task'[k] = task[k]
<1>1. task \in [Handler -> TaskState]
  BY DEF TypeInv, TypeOK
<1>2. CASE MaskText(g)
  BY <1>1, <1>2 DEF MaskText
<1>3. CASE StoreMessage(g)
  BY <1>3, StoreSent
<1> QED BY <1>2, <1>3, OtherMoves DEF HandlerStep

(* A message leaves the count by the notice, or by its loss. *)
LEMMA CountingMoves ==
  ASSUME TypeInv, [Next]_vars, NEW x \in Side \ unsure', NEW h \in Handler, NEW i,
         Counting(h, x, i)
  PROVE  task'[h] = task[h] \/ Notify(h)
<1>1. task[h].pc = "count" /\ task[h].who = Other(x)
  BY DEF Counting, InSendOf
<1>2. ASSUME NEW g \in Handler, NEW y \in Side, Request(g, y) PROVE task'[h] = task[h]
  BY <1>1, <1>2, RequestMoves
<1>3. ASSUME HandlerStep(h) PROVE Notify(h)
  <2>1. ~NoticeLost(h)
    BY <1>1, OtherTwice DEF NoticeLost
  <2> QED BY <1>1, <1>3, <2>1
          DEF HandlerStep, CheckTradeOnItem, OpenThread, LoadThread, CheckRate, MaskText,
              StoreMessage, Unblock
<1>4. ASSUME NEW g \in Handler, HandlerStep(g) PROVE task'[h] = task[h] \/ Notify(h)
  BY <1>3, <1>4, HandlerMoves
<1>5. CASE UNCHANGED task
  BY <1>5
<1> QED BY <1>2, <1>4, <1>5
        DEF Next, MarkRead, Block, AdminUnblock, Report, ResolveReport, SetReport,
            MinutePasses, Trade, vars

(* The side itself reads: nobody was sending to it and it has read it all. *)
LEMMA NoticeRead ==
  ASSUME TypeInv, NEW x \in Side \ unsure', NEW n \in 0..Len(msgs), SetRead(x, n),
         \A g \in Handler : task'[g] = task[g] \/ task'[g].who = x,
         \A i : i \in Sent(Other(x))' <=> i \in Sent(Other(x))
  PROVE  (Alone(x) /\ SawRead(x) /\ CountsLater(x) /\ IsTold(x))'
<1>1. /\ readAt'[x] = n
      /\ \A h \in Handler : ~InSendOf(h, Other(x))
      /\ \A i \in Sent(Other(x)) : i <= n
  BY ReadSets
<1>2. \A h \in Handler : ~InSendOf(h, Other(x))'
  BY <1>1, OtherTwice DEF InSendOf
<1>3. \A i \in Sent(Other(x))' : ~(i > readAt'[x])
  <2>1. n \in Nat
    BY DEF TypeInv, TypeOK
  <2> QED BY <1>1, <2>1, SentRange
<1> QED BY <1>2, <1>3 DEF Alone, SawRead, CountsLater, IsTold, Counting

LEMMA NoticeStep ==
  ASSUME TypeInv, TypeInv', NoticeInv, [Next]_vars
  PROVE  NoticeInv'
<1> SUFFICES ASSUME NEW x \in Side \ unsure'
             PROVE  (Alone(x) /\ SawRead(x) /\ CountsLater(x) /\ IsTold(x))'
  BY DEF NoticeInv
<1> DEFINE w == Other(x)
<1>w. w \in Side /\ Other(w) = x /\ w # x
  BY OtherTwice
<1>t. /\ Len(msgs) \in Nat /\ readAt[x] \in Nat /\ readAt[x] <= Len(msgs)
      /\ task \in [Handler -> TaskState]
  <2>1. readAt[x] \in 0..Len(msgs)
    BY DEF TypeInv, TypeOK
  <2> QED BY <2>1 DEF TypeInv, TypeOK
<1>1. CASE MarkRead(x)
  <2>1. SetRead(x, Len(msgs)) /\ UNCHANGED <<msgs, task>>
    BY <1>1 DEF MarkRead
  <2>2. \A i : i \in Sent(w)' <=> i \in Sent(w)
    BY <2>1, SentIs
  <2> QED BY <1>t, <2>1, <2>2, NoticeRead
<1>2. ASSUME NEW h \in Handler, StoreMessage(h), task[h].who = x
      PROVE  (Alone(x) /\ SawRead(x) /\ CountsLater(x) /\ IsTold(x))'
  <2>1. SetRead(x, task[h].now)
    BY <1>2 DEF StoreMessage
  <2>2. /\ task[h].now \in 0..Len(msgs)
        /\ \A i : i \in Sent(w)' <=> i \in Sent(w)
        /\ \A g \in Handler : task'[g] = task[g] \/ task'[g].who = x
    BY <1>w, <1>2, StoreSent
  <2> QED BY <2>1, <2>2, NoticeRead
<1>3. ASSUME ~MarkRead(x), \A h \in Handler : StoreMessage(h) => task[h].who # x
      PROVE  (Alone(x) /\ SawRead(x) /\ CountsLater(x) /\ IsTold(x))'
  <2>r. readAt'[x] = readAt[x] /\ unsure \subseteq unsure'
    <3>1. ASSUME NEW y \in Side, MarkRead(y), SetRead(y, Len(msgs))
          PROVE  readAt'[x] = readAt[x] /\ unsure \subseteq unsure'
      <4>1. x # y /\ Len(msgs) \in 0..Len(msgs)
        BY <1>t, <1>3, <3>1
      <4> QED BY <3>1, <4>1, ReadSets
    <3>2. ASSUME NEW h \in Handler, StoreMessage(h), SetRead(task[h].who, task[h].now)
          PROVE  readAt'[x] = readAt[x] /\ unsure \subseteq unsure'
      <4>1. task[h].who \in Side /\ task[h].who # x /\ task[h].now \in 0..Len(msgs)
        BY <1>3, <3>2, StoreSent
      <4> QED BY <3>2, <4>1, ReadSets
    <3> QED BY <3>1, <3>2, ReadMoves
  <2>i. Alone(x) /\ SawRead(x) /\ CountsLater(x) /\ IsTold(x)
    BY <2>r DEF NoticeInv
  <2>1. ASSUME NEW g \in Handler, InSendOf(g, w)'
        PROVE  \/ Stays(g) /\ InSendOf(g, w)
               \/ /\ Loads(g) /\ task'[g].seen = readAt[x]
                  /\ \A k \in Handler : k # g => ~InSendOf(k, w)'
    <3>1. task'[g].pc \in InSend /\ task'[g].who = w
      BY <2>1 DEF InSendOf
    <3>2. CASE Stays(g)
      BY <3>1, <3>2 DEF Stays, InSendOf
    <3>3. CASE Loads(g)
      <4>1. task[g].who = w /\ task'[g].seen = readAt[x]
        BY <1>w, <3>1, <3>3 DEF Loads
      <4>2. Sending(w) = {}
        BY <1>w, <3>3, <4>1 DEF Loads
      <4>3. \A k \in Handler : ~InSendOf(k, w)
        BY <4>2, SendingIs
      <4> QED BY <3>3, <4>1, <4>3 DEF Loads, InSendOf
    <3> QED BY <3>1, <3>2, <3>3, SendMoves
  <2>2. Alone(x)'
    <3> SUFFICES ASSUME NEW g \in Handler, NEW h \in Handler, InSendOf(g, w)', InSendOf(h, w)'
                 PROVE  g = h
      BY DEF Alone
    <3> QED BY <2>1, <2>i DEF Alone
  <2>3. SawRead(x)'
    <3> SUFFICES ASSUME NEW h \in Handler, InSendOf(h, w)' PROVE task'[h].seen = readAt'[x]
      BY DEF SawRead
    <3> QED BY <2>1, <2>i, <2>r DEF SawRead, Stays
  <2>4. CountsLater(x)'
    <3> SUFFICES ASSUME NEW h \in Handler, NEW i \in Nat, Counting(h, x, i)' PROVE i > readAt'[x]
      BY DEF CountsLater
    <3>1. InSendOf(h, w)' /\ task'[h].pc = "count" /\ task'[h].at = i
      BY DEF Counting
    <3>2. Stays(h) /\ InSendOf(h, w)
      BY <2>1, <3>1 DEF Loads
    <3>3. CASE StoreMessage(h)
      <4>1. i = Len(msgs) + 1
        BY <3>1, <3>3, StoreSent
      <4> QED BY <1>t, <2>r, <4>1
    <3>4. CASE task[h].pc = "count" /\ task'[h].at = task[h].at
      BY <2>i, <2>r, <3>1, <3>2, <3>4 DEF CountsLater, Counting
    <3> QED BY <3>1, <3>2, <3>3, <3>4 DEF Stays
  <2>5. Told(x) => Told(x)'
    BY <2>r, NoticedMoves DEF Told, Notifies
  <2>6. IsTold(x)'
    <3> SUFFICES ASSUME NEW i \in Sent(w)', i > readAt'[x]
                 PROVE  Told(x)' \/ \E h \in Handler : Counting(h, x, i)'
      BY DEF IsTold
    <3>1. ASSUME NEW h \in Handler, Counting(h, x, i), i \in Sent(w), Notify(h) PROVE Told(x)'
      <4>1. /\ task[h].pc = "count" /\ task[h].who = w /\ task[h].at = i
            /\ task[h].seen = readAt[x]
        BY <2>i, <3>1 DEF Counting, SawRead, InSendOf
      <4>2. CASE Fresh(w, i, readAt[x])
        <5>1. noticed' = [noticed EXCEPT ![x] = @ \cup {i}]
          BY <1>w, <3>1, <4>1, <4>2 DEF Notify
        <5>2. i \in noticed'[x]
          BY <5>1 DEF TypeInv, TypeOK
        <5> QED BY <5>2 DEF Told
      <4>3. CASE ~Fresh(w, i, readAt[x])
        <5>1. PICK j \in Sent(w) : j # i /\ j > readAt[x]
          BY <4>3 DEF Fresh
        <5>2. ~ \E k \in Handler : Counting(k, x, j)
          BY <2>i, <3>1, <4>1, <5>1 DEF Alone, Counting
        <5> QED BY <2>i, <2>5, <5>1, <5>2 DEF IsTold
      <4> QED BY <4>2, <4>3
    <3>2. CASE i \in Sent(w)
      <4>1. ASSUME NEW h \in Handler, Counting(h, x, i), task'[h] = task[h]
            PROVE  Counting(h, x, i)'
        BY <4>1 DEF Counting, InSendOf
      <4> QED BY <2>i, <2>r, <2>5, <3>1, <3>2, <4>1, CountingMoves DEF IsTold
    <3>3. CASE i \notin Sent(w)
      <4>1. PICK h \in Handler : StoreMessage(h)
        BY <3>3, SentStays
      <4>2. task[h].who = w /\ i = Len(msgs) + 1
        BY <3>3, <4>1, StoreSent
      <4> QED BY <4>1, <4>2, StoreSent DEF Counting, InSendOf, InSend
    <3> QED BY <3>2, <3>3
  <2> QED BY <2>2, <2>3, <2>4, <2>6
<1> QED BY <1>1, <1>2, <1>3

(* Whoever has unread messages was told of one, but for the races that unsure
   names, for any number of sends, reads and losses. *)
THEOREM UnreadAreNoticed == Spec => []UnreadIsNoticed
<1>1. Init => TypeInv /\ NoticeInv
  BY TypeInit, NoticeInit
<1>2. TypeInv /\ NoticeInv /\ [Next]_vars => (TypeInv /\ NoticeInv)'
  BY TypeStep, NoticeStep
<1>3. NoticeInv => UnreadIsNoticed
  <2> SUFFICES ASSUME NoticeInv, NEW x \in Side \ unsure, Unread(x) # {}, Sending(Other(x)) = {}
               PROVE  Told(x)
    BY DEF UnreadIsNoticed, Told
  <2>1. PICK i \in Sent(Other(x)) : i > readAt[x]
    BY DEF Unread
  <2>2. ~ \E h \in Handler : Counting(h, x, i)
    BY SendingIs DEF Counting
  <2> QED BY <2>1, <2>2 DEF NoticeInv, IsTold
<1> QED BY <1>1, <1>2, <1>3, PTL DEF Spec
=============================================================================
