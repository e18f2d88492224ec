-------------------------------- MODULE Chat --------------------------------
(***************************************************************************)
(* A chat between the buyer and the seller of an item (src/chat): opening  *)
(* the thread, sending with its checks, the notice to the recipient,       *)
(* reading, blocking by a participant or an operator, and reports.         *)
(*                                                                         *)
(* A message is stored several awaits after its thread was loaded, and the *)
(* recipient is notified after another one: the steps of a send interleave *)
(* with reads, blocks and the other sends.  Time is the number of messages *)
(* stored so far: readAt says how many of them had been when a side last   *)
(* read.                                                                   *)
(***************************************************************************)
EXTENDS Integers, Sequences, FiniteSets

CONSTANTS
  Buyer, Seller, Admin,
  Handler,     \* requests handled at the same time
  Limit,       \* MESSAGES_PER_MINUTE
  None,
  MaxRequests, \* bound on the requests made, reads apart
  MaxFaults    \* bound on notices lost and on crashes

Side == {Buyer, Seller}

ASSUME SidesDiffer == Buyer # Seller /\ Admin \notin Side /\ None \notin Side \cup {Admin}
ASSUME BoundsType == Limit \in Nat \ {0} /\ MaxRequests \in Nat /\ MaxFaults \in Nat
ASSUME HandlersFinite == IsFiniteSet(Handler)

VARIABLES
  thread,   \* Conversation.status, "NONE" before it is opened
  holder,   \* blockedById: a side, or Admin for "admin:<id>"
  msgs,     \* the messages, oldest first
  readAt,   \* buyerLastReadAt, sellerLastReadAt
  recent,   \* messages of the last minute
  listed,   \* the item is available
  onItem,   \* the two have a deal, order or booking on the item, in any state
  traded,   \* haveTraded: an agreed one, on any item
  noticed,  \* the messages each side was notified about
  met,      \* history: traded has been true
  peak,     \* history: the furthest each side has read
  unsure,   \* history: sides whose notice was lost or raced
  task,     \* where each request stands
  requests, faults

chat == <<thread, holder, msgs, readAt, recent>>

world == <<listed, onItem, traded, met>>

history == <<noticed, peak, unsure>>

vars == <<chat, world, history, task, requests, faults>>

Other(x) == IF x = Buyer THEN Seller ELSE Buyer

(* Every text holds a contact detail: one that holds none is stored as it is. *)
Body == {"contact", "masked"}

Message == [from : Side, body : Body, report : {"none", "open", "resolved"}]

TaskState ==
  [pc : {"idle", "open", "create", "load", "rate", "mask", "insert", "count",
         "unblock"},
   who : Side \cup {None},
   text : Body \cup {"none"},
   listed : BOOLEAN,   \* the item when it was read
   seen : Nat,         \* the recipient's readAt when the thread was read
   now : Nat,          \* the time taken before the message is stored
   at : Nat]           \* the message stored

Idle == [pc |-> "idle", who |-> None, text |-> "none", listed |-> FALSE,
         seen |-> 0, now |-> 0, at |-> 0]

TypeOK ==
  /\ thread \in {"NONE", "OPEN", "BLOCKED"}
  /\ holder \in Side \cup {Admin, None}
  /\ (holder = None) = (thread # "BLOCKED")
  /\ msgs \in Seq(Message)
  /\ readAt \in [Side -> 0..Len(msgs)]
  /\ recent \subseteq 1..Len(msgs)
  /\ listed \in BOOLEAN /\ onItem \in BOOLEAN /\ traded \in BOOLEAN
  /\ noticed \in [Side -> SUBSET (1..Len(msgs))]
  /\ met \in BOOLEAN
  /\ peak \in [Side -> 0..Len(msgs)]
  /\ unsure \subseteq Side
  /\ task \in [Handler -> TaskState]
  /\ requests \in Nat
  /\ faults \in Nat

Goto(h, pc) == task' = [task EXCEPT ![h].pc = pc]

Done(h) == task' = [task EXCEPT ![h] = Idle]

Asked == requests < MaxRequests /\ requests' = requests + 1

Sent(x) == {i \in DOMAIN msgs : msgs[i].from = x}

(* A send past its first check, and one whose message is not stored yet. *)
Sending(x) == {h \in Handler : task[h].pc \in {"rate", "mask", "insert", "count"}
                               /\ task[h].who = x}

Pending == {h \in Handler : task[h].pc \in {"rate", "mask", "insert"}}

(* unreadByConversation, unreadConversationCount, the badge of myConversations. *)
Unread(x) == {i \in Sent(Other(x)) : i > readAt[x]}

(* A side's lastReadAt is set to the time n.  It races the notices to that
   side if a message to it is being sent, or was stored after n. *)
SetRead(x, n) ==
  /\ readAt' = [readAt EXCEPT ![x] = n]
  /\ peak' = [peak EXCEPT ![x] = IF n > @ THEN n ELSE @]
  /\ unsure' = IF Sending(Other(x)) # {} \/ \E i \in Sent(Other(x)) : i > n
               THEN unsure \cup {x} ELSE unsure

-----------------------------------------------------------------------------
(* startConversation. *)

StartConversation(h, x, t) ==
  /\ task[h].pc = "idle"
  /\ Asked
  /\ task' = [task EXCEPT ![h] = [Idle EXCEPT
       !.pc = IF thread = "NONE" THEN "open" ELSE "load",
       !.who = x, !.text = t, !.listed = listed]]
  /\ UNCHANGED <<chat, world, history, faults>>

(* An owner writes first only to someone who traded on the item; a buyer, only
   about an item on offer, or one they traded on. *)
MayOpen(x, available) == onItem \/ (x = Buyer /\ available)

CheckTradeOnItem(h) ==
  /\ task[h].pc = "open"
  /\ IF MayOpen(task[h].who, task[h].listed) THEN Goto(h, "create") ELSE Done(h)
  /\ UNCHANGED <<chat, world, history, requests, faults>>

(* The upsert finds the thread that another request opened meanwhile. *)
OpenThread(h) ==
  /\ task[h].pc = "create"
  /\ thread' = IF thread = "NONE" THEN "OPEN" ELSE thread
  /\ Goto(h, "load")
  /\ UNCHANGED <<holder, msgs, readAt, recent, world, history, requests, faults>>

-----------------------------------------------------------------------------
(* sendMessage. *)

SendMessage(h, x) ==
  /\ task[h].pc = "idle"
  /\ thread # "NONE"
  /\ Asked
  /\ task' = [task EXCEPT ![h] = [Idle EXCEPT !.pc = "load", !.who = x, !.text = "contact"]]
  /\ UNCHANGED <<chat, world, history, faults>>

(* Mutant: only the other side's block stops a message. *)
Accepts_OneWay(x) == thread = "OPEN" \/ holder = x

Accepts(x) == thread = "OPEN"

(* Without a first message there is nothing to send. *)
LoadThread(h) ==
  LET x == task[h].who
      goes == task[h].text # "none" /\ Accepts(x)
  IN
  /\ task[h].pc = "load"
  /\ IF goes
     THEN task' = [task EXCEPT ![h].pc = "rate", ![h].seen = readAt[Other(x)]]
     ELSE Done(h)
  /\ unsure' = IF goes /\ Sending(x) # {} THEN unsure \cup {Other(x)} ELSE unsure
  /\ UNCHANGED <<chat, world, noticed, peak, requests, faults>>

TooFast(n) == n >= Limit

CheckRate(h) ==
  /\ task[h].pc = "rate"
  /\ IF TooFast(Cardinality(recent \cap Sent(task[h].who)))
     THEN Done(h) ELSE Goto(h, "mask")
  /\ UNCHANGED <<chat, world, history, requests, faults>>

(* Mutant: any trade on the item, a proposal too, uncovers contact details. *)
MaskContactDetails_Proposed(t) == IF traded \/ onItem THEN t ELSE "masked"

MaskContactDetails(t) == IF traded THEN t ELSE "masked"

MaskText(h) ==
  /\ task[h].pc = "mask"
  /\ task' = [task EXCEPT ![h].pc = "insert", ![h].now = Len(msgs),
                          ![h].text = MaskContactDetails(@)]
  /\ UNCHANGED <<chat, world, history, requests, faults>>

(* The message, and the time at which its sender had read the thread. *)
StoreMessage(h) ==
  LET x == task[h].who
      n == Len(msgs) + 1
  IN
  /\ task[h].pc = "insert"
  /\ msgs' = Append(msgs, [from |-> x, body |-> task[h].text, report |-> "none"])
  /\ recent' = recent \cup {n}
  /\ SetRead(x, task[h].now)
  /\ task' = [task EXCEPT ![h].pc = "count", ![h].at = n]
  /\ UNCHANGED <<thread, holder, world, noticed, requests, faults>>

(* Mutant: every message is notified. *)
Fresh_Always(x, n, seen) == TRUE

(* Mutant: the message just stored counts as unread before it. *)
Fresh_CountsItself(x, n, seen) == {i \in Sent(x) : i > seen} = {}

(* Nothing but message n was waiting beyond what the recipient had read. *)
Fresh(x, n, seen) == {i \in Sent(x) : i # n /\ i > seen} = {}

(* One notice per unread burst, sent without waiting for its outcome. *)
Notify(h) ==
  LET x == task[h].who
      n == task[h].at
  IN
  /\ task[h].pc = "count"
  /\ IF Fresh(x, n, task[h].seen)
     THEN noticed' = [noticed EXCEPT ![Other(x)] = @ \cup {n}]
     ELSE UNCHANGED noticed
  /\ Done(h)
  /\ UNCHANGED <<chat, world, peak, unsure, requests, faults>>

(* The process dies before the notice, or the users subgraph does not take it. *)
NoticeLost(h) ==
  /\ task[h].pc = "count"
  /\ faults < MaxFaults
  /\ faults' = faults + 1
  /\ unsure' = unsure \cup {Other(task[h].who)}
  /\ Done(h)
  /\ UNCHANGED <<chat, world, noticed, peak, requests>>

-----------------------------------------------------------------------------
(* markRead. *)

MarkRead(x) ==
  /\ thread # "NONE"
  /\ Unread(x) # {}
  /\ SetRead(x, Len(msgs))
  /\ UNCHANGED <<thread, holder, msgs, recent, world, noticed, task, requests,
                 faults>>

-----------------------------------------------------------------------------
(* setBlocked, by a participant and by an operator. *)

(* Mutant: who blocked it is not forgotten. *)
Reopen_Held == thread' = "OPEN" /\ UNCHANGED holder

Reopen == thread' = "OPEN" /\ holder' = None

Block(who) ==
  /\ thread # "NONE"
  /\ Asked
  /\ thread' = "BLOCKED"
  /\ holder' = who
  /\ UNCHANGED <<msgs, readAt, recent, world, noticed, peak, unsure, task, faults>>

LoadUnblock(h, x) ==
  /\ task[h].pc = "idle"
  /\ thread # "NONE"
  /\ holder \in {None, x}
  /\ Asked
  /\ task' = [task EXCEPT ![h] = [Idle EXCEPT !.pc = "unblock", !.who = x]]
  /\ UNCHANGED <<chat, world, history, faults>>

Unblock(h) ==
  /\ task[h].pc = "unblock"
  /\ Reopen
  /\ Done(h)
  /\ UNCHANGED <<msgs, readAt, recent, world, noticed, peak, unsure, requests, faults>>

AdminUnblock ==
  /\ thread = "BLOCKED"
  /\ Asked
  /\ Reopen
  /\ UNCHANGED <<msgs, readAt, recent, world, noticed, peak, unsure, task, faults>>

-----------------------------------------------------------------------------
(* reportMessage, resolveReport. *)

(* reportedMessages: what an operator has to review. *)
Reported == {i \in DOMAIN msgs : msgs[i].report = "open"}

SetReport(i, r) ==
  /\ Asked
  /\ msgs' = [msgs EXCEPT ![i].report = r]
  /\ UNCHANGED <<thread, holder, readAt, recent, world, history, task, faults>>

Report(x, i) == i \in Sent(Other(x)) \ Reported /\ SetReport(i, "open")

ResolveReport(i) == i \in Reported /\ SetReport(i, "resolved")

-----------------------------------------------------------------------------
(* What goes on outside the chat. *)

MinutePasses(i) ==
  /\ i \in recent
  /\ \A j \in recent : i <= j
  /\ recent' = recent \ {i}
  /\ UNCHANGED <<thread, holder, msgs, readAt, world, history, task, requests, faults>>

Trade ==
  /\ \/ listed /\ listed' = FALSE /\ UNCHANGED <<onItem, traded>>
     \/ ~onItem /\ onItem' = TRUE /\ UNCHANGED <<listed, traded>>
     \/ traded' = ~traded /\ UNCHANGED <<listed, onItem>>
  /\ met' = (met \/ traded')
  /\ UNCHANGED <<chat, history, task, requests, faults>>

Init ==
  /\ thread = "NONE" /\ holder = None /\ msgs = <<>>
  /\ readAt = [x \in Side |-> 0] /\ recent = {}
  /\ listed = TRUE /\ onItem = FALSE /\ traded = FALSE /\ met = FALSE
  /\ noticed = [x \in Side |-> {}] /\ peak = [x \in Side |-> 0]
  /\ unsure = {}
  /\ task = [h \in Handler |-> Idle]
  /\ requests = 0 /\ faults = 0

(* The mutations of the two resolvers, with those below. *)
Request(h, x) ==
  \/ \E t \in {"contact", "none"} : StartConversation(h, x, t)
  \/ SendMessage(h, x)
  \/ LoadUnblock(h, x)

HandlerStep(h) ==
  \/ CheckTradeOnItem(h) \/ OpenThread(h)
  \/ LoadThread(h) \/ CheckRate(h) \/ MaskText(h) \/ StoreMessage(h)
  \/ Notify(h) \/ NoticeLost(h) \/ Unblock(h)

Next ==
  \/ \E h \in Handler : HandlerStep(h) \/ \E x \in Side : Request(h, x)
  \/ \E x \in Side : MarkRead(x) \/ Block(x)
  \/ Block(Admin) \/ AdminUnblock
  \/ \E x \in Side, i \in DOMAIN msgs : Report(x, i)
  \/ \E i \in DOMAIN msgs : ResolveReport(i)
  \/ \E i \in recent : MinutePasses(i)
  \/ Trade

Spec == Init /\ [][Next]_vars
-----------------------------------------------------------------------------
(* Contact details are visible only between people who have traded: a trade
   that is only proposed, on this item or another, uncovers none. *)
ContactsAfterTrade ==
  \A i \in DOMAIN msgs : msgs[i].body = "contact" => met

(* While a thread stays blocked, only the messages that had passed the check
   when it was blocked still arrive: no new one joins them. *)
BlockHolds ==
  [][thread = "BLOCKED" /\ thread' = "BLOCKED" =>
       Len(msgs') + Cardinality(Pending') <= Len(msgs) + Cardinality(Pending)]_vars

(* A side is notified again only after it read everything it was notified
   about before, whatever the order in which sends load, store and count. *)
OneNoticePerBurst ==
  [][\A x \in Side : noticed'[x] # noticed[x] => \A i \in noticed[x] : i <= peak[x]]_vars

(* Whoever has unread messages was told of one of them, unless a notice was
   lost, the side read the thread while a message to it was being sent, or two
   messages to it were being sent at once: those races do leave a side untold,
   and no other does. *)
UnreadIsNoticed ==
  \A x \in Side \ unsure :
    Unread(x) # {} /\ Sending(Other(x)) = {} =>
      \E i \in noticed[x] : i > readAt[x]
=============================================================================
