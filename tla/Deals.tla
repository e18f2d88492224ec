-------------------------------- MODULE Deals --------------------------------
(***************************************************************************)
(* Deals between people (src/marketplace-deals): sales and exchanges of    *)
(* second-hand products that are proposed, accepted, confirmed by both     *)
(* parties or ended in another way, the sweep that expires those not       *)
(* confirmed in time, the reputation of the parties, the products'         *)
(* availability in the marketplace subgraph and the points of the users    *)
(* subgraph.                                                               *)
(*                                                                         *)
(* A request loads the deal, checks it, and later updates it whatever      *)
(* became of it: steps are cut between the two, and at each call to        *)
(* another service.                                                        *)
(***************************************************************************)
EXTENDS Integers, FiniteSets

CONSTANTS
  User, Product,
  Owner,       \* who offers each product: [Product -> User]
  Price,       \* [Product -> Nat]
  Gap,         \* compensationThresholdClp
  Deal,        \* the proposals people may make
  Terms,       \* their terms: [Deal -> [buyer, wanted, offered]]
  Standing,    \* those already made when the model starts
  Threshold,   \* strikeBlockThreshold
  Handler,     \* requests handled at the same time
  Sweeper,     \* the worker of the p2p-deals queue
  None,
  MaxRequests, \* bound on the requests made
  MaxFaults    \* bound on calls that fail and on crashes

ASSUME TermsType ==
  /\ Owner \in [Product -> User]
  /\ Price \in [Product -> Nat]
  /\ Terms \in [Deal -> [buyer : User, wanted : Product,
                         offered : Product \cup {None}]]
  /\ Gap \in Nat \ {0}
ASSUME ThresholdType == Threshold \in Nat \ {0}
ASSUME BoundsType == MaxRequests \in Nat /\ MaxFaults \in Nat
ASSUME HandlerType == Sweeper \notin Handler
ASSUME NoneIsNothing == None \notin User /\ None \notin Deal /\ None \notin Product

VARIABLES
  status,     \* P2PDeal.status, "NONE" before the proposal
  confirmed,  \* who has confirmed each deal
  settled,    \* compensationSettledAt is set
  overdue,    \* deals whose confirmation deadline has passed
  reserved,   \* marketplace: the deal until whose deadline a product is held
  sold,       \* marketplace: products sold
  strikes, failed, completed, blocked,   \* P2PReputation
  credited,   \* users: the <<deal, user>> the points engine has paid
  ledger,     \* rows of the local points ledger, by deal and user
  ruled,      \* history: deals an operator ruled completed
  task,       \* where each actor stands
  requests,   \* requests made so far
  faults

products == <<reserved, sold>>

reputation == <<strikes, failed, completed, blocked>>

points == <<credited, ledger>>

rows == <<status, confirmed, settled, overdue>>

vars == <<rows, products, reputation, points, ruled, task, requests, faults>>

-----------------------------------------------------------------------------
(* The terms of a proposal. *)

Buyer(d) == Terms[d].buyer

Seller(d) == Owner[Terms[d].wanted]

Parties(d) == {Buyer(d), Seller(d)}

IsExchange(d) == Terms[d].offered # None

(* _itemIds. *)
Items(d) == {Terms[d].wanted, Terms[d].offered} \ {None}

(* The owner of the cheaper product of an exchange tops up a large gap, and
   the other one attests that the cash was received. *)
CashReceiver(d) ==
  LET want == Price[Terms[d].wanted]
      give == Price[Terms[d].offered]
  IN CASE ~IsExchange(d) -> None
       [] give + Gap <= want -> Seller(d)
       [] want + Gap <= give -> Buyer(d)
       [] OTHER -> None

(* What proposeSale and proposeExchange ask of the parties. *)
WellFormed(d) ==
  /\ Buyer(d) # Seller(d)
  /\ IsExchange(d) => /\ Owner[Terms[d].offered] = Buyer(d)
                      /\ Terms[d].offered # Terms[d].wanted

ASSUME TermsAreWellFormed == \A d \in Deal : WellFormed(d)

DealStatus == {"PROPOSED", "ACCEPTED", "COMPLETED", "DISPUTED", "EXPIRED",
               "CANCELLED", "DECLINED"}

Open == {"PROPOSED", "ACCEPTED"}

Task == Handler \cup {Sweeper}

Pc == {"idle", "check", "create", "accept", "reserve", "decline", "confirm",
       "dispute", "cancel", "release", "complete", "sell", "award", "bump",
       "strike", "striking", "void", "next"}

TaskState ==
  [pc : Pc, deal : Deal \cup {None}, who : User \cup {None},
   cash : BOOLEAN,            \* confirm: the cash was received
   held : BOOLEAN,            \* cancel: the deal was ACCEPTED when loaded
   todo : SUBSET User,        \* users still to strike, or to award
   fresh : SUBSET User,       \* award: whom the points engine paid just now
   seen : 0..Threshold,       \* the strikes read
   jailed : BOOLEAN,          \* the block read
   then : Pc,                 \* after the strikes
   batch : SUBSET (Deal \X SUBSET User)]   \* the sweep's snapshot: offenders

Idle == [pc |-> "idle", deal |-> None, who |-> None, cash |-> FALSE,
         held |-> FALSE, todo |-> {}, fresh |-> {}, seen |-> 0, jailed |-> FALSE,
         then |-> "idle", batch |-> {}]

TypeOK ==
  /\ status \in [Deal -> DealStatus \cup {"NONE"}]
  /\ confirmed \in [Deal -> SUBSET User]
  /\ settled \in [Deal -> BOOLEAN]
  /\ overdue \subseteq Deal
  /\ reserved \in [Product -> Deal \cup {None}]
  /\ sold \subseteq Product
  /\ strikes \in [User -> 0..(Threshold - 1)]
  /\ failed \in [User -> Nat]
  /\ completed \in [User -> Nat]
  /\ blocked \subseteq User
  /\ credited \subseteq Deal \X User
  /\ ledger \in [Deal \X User -> Nat]
  /\ ruled \subseteq Deal
  /\ task \in [Task -> TaskState]
  /\ requests \in Nat
  /\ faults \in Nat

Goto(t, pc) == task' = [task EXCEPT ![t].pc = pc]

Done(t) == task' = [task EXCEPT ![t] = Idle]

Begin(h, d, pc) == task' = [task EXCEPT ![h] = [Idle EXCEPT !.pc = pc, !.deal = d]]

SetStatus(t, s) == status' = [status EXCEPT ![task[t].deal] = s]

(* A call or a statement may fail, as often as MaxFaults allows. *)
Fault == faults < MaxFaults /\ faults' = faults + 1

-----------------------------------------------------------------------------
(* proposeSale, proposeExchange. *)

Held(i) == reserved[i] # None /\ reserved[i] \notin overdue

CheckListing(h, d) ==
  /\ task[h].pc = "idle"
  /\ status[d] = "NONE"
  /\ Buyer(d) \notin blocked
  /\ \A i \in Items(d) : i \notin sold /\ ~Held(i)
  /\ Begin(h, d, "check")
  /\ UNCHANGED <<rows, products, reputation, points, ruled, faults>>

(* _assertNoOpenDeal. *)
Contended(d) == \E e \in Deal : status[e] \in Open /\ Items(e) \cap Items(d) # {}

CheckNoOpenDeal(h) ==
  /\ task[h].pc = "check"
  /\ IF Contended(task[h].deal) THEN Done(h) ELSE Goto(h, "create")
  /\ UNCHANGED <<rows, products, reputation, points, ruled, faults, requests>>

Create(h) ==
  /\ task[h].pc = "create"
  /\ status[task[h].deal] = "NONE"
  /\ SetStatus(h, "PROPOSED")
  /\ Done(h)
  /\ UNCHANGED <<confirmed, settled, overdue, products, reputation, points, ruled,
                 faults, requests>>

-----------------------------------------------------------------------------
(* acceptDeal, declineDeal. *)

LoadAccept(h, d) ==
  /\ task[h].pc = "idle"
  /\ status[d] = "PROPOSED"
  /\ Seller(d) \notin blocked
  /\ Begin(h, d, "accept")
  /\ UNCHANGED <<rows, products, reputation, points, ruled, faults>>

Accept(h) ==
  /\ task[h].pc = "accept"
  /\ SetStatus(h, "ACCEPTED")
  /\ overdue' = overdue \ {task[h].deal}
  /\ Goto(h, "reserve")
  /\ UNCHANGED <<confirmed, settled, products, reputation, points, ruled, faults, requests>>

(* setAvailability: logs its errors. *)
Reserve(h) ==
  LET d == task[h].deal IN
  /\ task[h].pc = "reserve"
  /\ \/ /\ reserved' = [i \in Product |-> IF i \in Items(d) THEN d ELSE reserved[i]]
        /\ UNCHANGED faults
     \/ Fault /\ UNCHANGED reserved
  /\ Done(h)
  /\ UNCHANGED <<rows, sold, reputation, points, ruled, requests>>

LoadDecline(h, d) ==
  /\ task[h].pc = "idle"
  /\ status[d] = "PROPOSED"
  /\ Begin(h, d, "decline")
  /\ UNCHANGED <<rows, products, reputation, points, ruled, faults>>

Decline(h) ==
  /\ task[h].pc = "decline"
  /\ SetStatus(h, "DECLINED")
  /\ Done(h)
  /\ UNCHANGED <<confirmed, settled, overdue, products, reputation, points, ruled,
                 faults, requests>>

-----------------------------------------------------------------------------
(* confirmDeal. *)

(* Whoever is owed cash attests it before, or while, confirming. *)
MayConfirm(d, u, cash) ==
  /\ u \in Parties(d)
  /\ u = CashReceiver(d) => settled[d] \/ cash

LoadConfirm(h, d, u, cash) ==
  /\ task[h].pc = "idle"
  /\ status[d] = "ACCEPTED"
  /\ MayConfirm(d, u, cash)
  /\ task' = [task EXCEPT ![h] = [Idle EXCEPT !.pc = "confirm", !.deal = d,
                !.who = u, !.cash = cash /\ u = CashReceiver(d)]]
  /\ UNCHANGED <<rows, products, reputation, points, ruled, faults>>

(* Mutant: one confirmation is enough. *)
BothConfirmed_One(d, by) == by # {}

BothConfirmed(d, by) == Parties(d) \subseteq by

(* The update sets one side and returns the row with both. *)
Confirm(h) ==
  LET d == task[h].deal IN
  /\ task[h].pc = "confirm"
  /\ confirmed' = [confirmed EXCEPT ![d] = @ \cup {task[h].who}]
  /\ settled' = [settled EXCEPT ![d] = @ \/ task[h].cash]
  /\ IF BothConfirmed(d, confirmed[d] \cup {task[h].who})
     THEN Begin(h, d, "complete") ELSE Done(h)
  /\ UNCHANGED <<status, overdue, products, reputation, points, ruled, faults, requests>>

-----------------------------------------------------------------------------
(* _completeDeal, from a confirmation or from an operator's ruling. *)

Complete(h) ==
  /\ task[h].pc = "complete"
  /\ SetStatus(h, "COMPLETED")
  /\ Goto(h, "sell")
  /\ UNCHANGED <<confirmed, settled, overdue, products, reputation, points, ruled,
                 faults, requests>>

(* One call marks the products sold and lifts their reservation. *)
MarkSold(h) ==
  LET items == Items(task[h].deal) IN
  /\ task[h].pc = "sell"
  /\ \/ /\ sold' = sold \cup items
        /\ reserved' = [i \in Product |-> IF i \in items THEN None ELSE reserved[i]]
        /\ UNCHANGED faults
     \/ Fault /\ UNCHANGED products
  /\ task' = [task EXCEPT ![h].pc = "award", ![h].todo = Parties(task[h].deal),
                          ![h].fresh = {}]
  /\ UNCHANGED <<rows, reputation, points, ruled, requests>>

(* The points engine pays each party once per `deal:<id>`, and answers 0 the
   second time.  The two calls run at once and end in either order. *)
AwardPoints(h, u) ==
  LET d == task[h].deal IN
  /\ task[h].pc = "award"
  /\ u \in task[h].todo
  /\ credited' = credited \cup {<<d, u>>}
  /\ task' = [task EXCEPT ![h].todo = @ \ {u},
                          ![h].fresh = @ \cup {v \in {u} : <<d, v>> \notin credited}]
  /\ UNCHANGED <<rows, products, reputation, ledger, ruled, faults, requests>>

(* One of the calls throws, or the insert of the rows does, and the request
   goes on without them; a call it no longer waits for may pay all the same. *)
AwardThrows(h) ==
  LET d == task[h].deal IN
  /\ task[h].pc = "award"
  /\ Fault
  /\ \E paid \in SUBSET task[h].todo : credited' = credited \cup ({d} \X paid)
  /\ Goto(h, "bump")
  /\ UNCHANGED <<rows, products, reputation, ledger, ruled, requests>>

(* Mutant: a row for each party, whatever was credited. *)
LedgerRows_All(h) == {task[h].deal} \X Parties(task[h].deal)

LedgerRows(h) == {task[h].deal} \X task[h].fresh

WriteLedger(h) ==
  /\ task[h].pc = "award"
  /\ task[h].todo = {}
  /\ ledger' = [r \in Deal \X User |->
                  ledger[r] + IF r \in LedgerRows(h) THEN 1 ELSE 0]
  /\ Goto(h, "bump")
  /\ UNCHANGED <<rows, products, reputation, credited, ruled, faults, requests>>

BumpReputation(h) ==
  /\ task[h].pc = "bump"
  /\ completed' = [u \in User |->
       completed[u] + IF u \in Parties(task[h].deal) THEN 1 ELSE 0]
  /\ Done(h)
  /\ UNCHANGED <<rows, products, strikes, failed, blocked, points, ruled, faults, requests>>

-----------------------------------------------------------------------------
(* disputeDeal, cancelDeal, resolveDeal. *)

LoadDispute(h, d) ==
  /\ task[h].pc = "idle"
  /\ status[d] = "ACCEPTED"
  /\ Begin(h, d, "dispute")
  /\ UNCHANGED <<rows, products, reputation, points, ruled, faults>>

Dispute(h) ==
  /\ task[h].pc = "dispute"
  /\ SetStatus(h, "DISPUTED")
  /\ Done(h)
  /\ UNCHANGED <<confirmed, settled, overdue, products, reputation, points, ruled,
                 faults, requests>>

LoadCancel(h, d) ==
  /\ task[h].pc = "idle"
  /\ status[d] \in Open
  /\ task' = [task EXCEPT ![h] = [Idle EXCEPT !.pc = "cancel", !.deal = d,
                                              !.held = status[d] = "ACCEPTED"]]
  /\ UNCHANGED <<rows, products, reputation, points, ruled, faults>>

Cancel(h) ==
  /\ task[h].pc = "cancel"
  /\ SetStatus(h, "CANCELLED")
  /\ IF task[h].held THEN Begin(h, task[h].deal, "release") ELSE Done(h)
  /\ UNCHANGED <<confirmed, settled, overdue, products, reputation, points, ruled,
                 faults, requests>>

(* The operator's answer, and whom to strike first: any account. *)
Rule(h, d, outcome, struck) ==
  /\ task[h].pc = "idle"
  /\ status[d] = "DISPUTED"
  /\ ruled' = IF outcome = "complete" THEN ruled \cup {d} ELSE ruled
  /\ task' = [task EXCEPT ![h] =
       [Idle EXCEPT !.pc = IF struck = {} THEN outcome ELSE "strike",
                    !.deal = d, !.todo = struck, !.then = outcome]]
  /\ UNCHANGED <<rows, products, reputation, points, faults>>

Void(h) ==
  /\ task[h].pc = "void"
  /\ SetStatus(h, "CANCELLED")
  /\ Goto(h, "release")
  /\ UNCHANGED <<confirmed, settled, overdue, products, reputation, points, ruled,
                 faults, requests>>

-----------------------------------------------------------------------------
(* _strike: the counter is read, then written. *)

ReadStrikes(t, u) ==
  /\ task[t].pc = "strike"
  /\ u \in task[t].todo
  /\ task' = [task EXCEPT ![t].pc = "striking", ![t].who = u,
                          ![t].todo = @ \ {u},
                          ![t].seen = strikes[u], ![t].jailed = u \in blocked]
  /\ UNCHANGED <<rows, products, reputation, points, ruled, faults, requests>>

(* Mutant: blocks one strike early. *)
ShouldBlock_Early(n) == n + 1 >= Threshold

ShouldBlock(n) == n >= Threshold

(* Mutant: the counter is not reset when it blocks. *)
StrikesAfter_Kept(n) == n

StrikesAfter(n) == IF ShouldBlock(n) THEN 0 ELSE n

(* A strike that does not block writes back the blockedUntil it read. *)
Strike(t) ==
  LET u == task[t].who
      n == task[t].seen + 1
  IN
  /\ task[t].pc = "striking"
  /\ strikes' = [strikes EXCEPT ![u] = StrikesAfter(n)]
  /\ failed' = [failed EXCEPT ![u] = @ + 1]
  /\ blocked' = CASE ShouldBlock(n) -> blocked \cup {u}
                  [] task[t].jailed -> blocked
                  [] OTHER -> blocked \ {u}
  /\ task' = [task EXCEPT ![t].pc = IF task[t].todo = {} THEN task[t].then
                                     ELSE "strike",
                          ![t].who = None, ![t].seen = 0, ![t].jailed = FALSE]
  /\ UNCHANGED <<rows, products, completed, points, ruled, faults, requests>>

-----------------------------------------------------------------------------
(* sweepExpiredDeals. *)

(* Mutant: a deal one party confirmed is left alone. *)
IsLate_Unconfirmed(d) ==
  status[d] = "ACCEPTED" /\ d \in overdue /\ confirmed[d] = {}

IsLate(d) == status[d] = "ACCEPTED" /\ d \in overdue

Offenders(d) == Parties(d) \ confirmed[d]

StartSweep ==
  /\ task[Sweeper].pc = "idle"
  /\ \E d \in Deal : IsLate(d)
  /\ task' = [task EXCEPT ![Sweeper] =
       [Idle EXCEPT !.pc = "next",
                    !.batch = {<<d, Offenders(d)>> : d \in {e \in Deal : IsLate(e)}}]]
  /\ UNCHANGED <<rows, products, reputation, points, ruled, faults, requests>>

Expire(d, offenders) ==
  /\ task[Sweeper].pc = "next"
  /\ <<d, offenders>> \in task[Sweeper].batch
  /\ status' = [status EXCEPT ![d] = "EXPIRED"]
  /\ task' = [task EXCEPT ![Sweeper].pc = "release", ![Sweeper].deal = d,
                          ![Sweeper].todo = offenders, ![Sweeper].then = "next",
                          ![Sweeper].batch = @ \ {<<d, offenders>>}]
  /\ UNCHANGED <<confirmed, settled, overdue, products, reputation, points, ruled,
                 faults, requests>>

EndSweep ==
  /\ task[Sweeper].pc = "next"
  /\ task[Sweeper].batch = {}
  /\ Done(Sweeper)
  /\ UNCHANGED <<rows, products, reputation, points, ruled, faults, requests>>

(* releaseProducts, for a cancelled deal or for the sweep. *)
Release(t) ==
  LET d == task[t].deal IN
  /\ task[t].pc = "release"
  /\ \/ /\ reserved' = [i \in Product |-> IF i \in Items(d) THEN None
                                          ELSE reserved[i]]
        /\ UNCHANGED faults
     \/ Fault /\ UNCHANGED reserved
  /\ CASE t = Sweeper /\ task[t].todo # {} -> Goto(t, "strike")
       [] t = Sweeper /\ task[t].todo = {} -> Goto(t, "next")
       [] OTHER -> Done(t)
  /\ UNCHANGED <<rows, sold, reputation, points, ruled, requests>>

-----------------------------------------------------------------------------
(* Time, and faults. *)

(* The deadline of the deal, and of the reservations made until then, which a
   deal that ended otherwise may have left behind. *)
DeadlinePasses(d) ==
  /\ status[d] = "ACCEPTED" \/ \E i \in Product : reserved[i] = d
  /\ d \notin overdue
  /\ overdue' = overdue \cup {d}
  /\ UNCHANGED <<status, confirmed, settled, products, reputation, points, ruled,
                 task, faults, requests>>

BlockEnds(u) ==
  /\ u \in blocked
  /\ blocked' = blocked \ {u}
  /\ UNCHANGED <<rows, products, strikes, failed, completed, points, ruled, task,
                 faults, requests>>

(* A statement throws, or the process dies, in the middle of a request or of
   a sweep: what was written stays.  (Before its first write a request that
   aborts is one that never came.) *)
Abort(t) ==
  /\ task[t].pc \in {"reserve", "release", "sell", "award", "bump",
                     "strike", "striking", "complete", "void", "next"}
  /\ Fault
  /\ Done(t)
  /\ UNCHANGED <<rows, products, reputation, points, ruled, requests>>

Init ==
  /\ status = [d \in Deal |-> IF d \in Standing THEN "PROPOSED" ELSE "NONE"]
  /\ confirmed = [d \in Deal |-> {}]
  /\ settled = [d \in Deal |-> FALSE]
  /\ overdue = {}
  /\ reserved = [i \in Product |-> None]
  /\ sold = {}
  /\ strikes = [u \in User |-> 0]
  /\ failed = [u \in User |-> 0]
  /\ completed = [u \in User |-> 0]
  /\ blocked = {}
  /\ credited = {}
  /\ ledger = [r \in Deal \X User |-> 0]
  /\ ruled = {}
  /\ task = [t \in Task |-> Idle]
  /\ requests = 0
  /\ faults = 0

(* The mutations of the resolver: what a signed-in person or an operator can
   ask about a deal. *)
Request(h, d) ==
  /\ requests < MaxRequests
  /\ requests' = requests + 1
  /\ \/ CheckListing(h, d) \/ LoadAccept(h, d) \/ LoadDecline(h, d)
     \/ \E u \in Parties(d), cash \in BOOLEAN : LoadConfirm(h, d, u, cash)
     \/ LoadDispute(h, d) \/ LoadCancel(h, d)
     \/ \E outcome \in {"complete", "void"}, struck \in {{}} \cup {{u} : u \in User} :
          Rule(h, d, outcome, struck)

HandlerStep(h) ==
  \/ CheckNoOpenDeal(h) \/ Create(h) \/ Accept(h) \/ Reserve(h) \/ Decline(h)
  \/ Confirm(h) \/ Complete(h) \/ MarkSold(h) \/ AwardThrows(h)
  \/ (\E u \in User : AwardPoints(h, u)) \/ WriteLedger(h) \/ BumpReputation(h)
  \/ Dispute(h) \/ Cancel(h) \/ Void(h)

Striking(t) == (\E u \in User : ReadStrikes(t, u)) \/ Strike(t) \/ Release(t)

SweeperStep ==
  \/ StartSweep \/ EndSweep \/ Striking(Sweeper)
  \/ \E d \in Deal, offenders \in SUBSET User : Expire(d, offenders)

Next ==
  \/ \E h \in Handler : HandlerStep(h) \/ Striking(h) \/ Abort(h)
                        \/ \E d \in Deal : Request(h, d)
  \/ SweeperStep
  \/ Abort(Sweeper)
  \/ \E d \in Deal : DeadlinePasses(d)
  \/ \E u \in User : BlockEnds(u)

Spec == Init /\ [][Next]_vars

(* The sweep is a repeated job. *)
FairSpec == Spec /\ WF_vars(SweeperStep)
-----------------------------------------------------------------------------
(* Points are paid only for a deal both parties confirmed, the one owed cash
   after attesting it, or for one an operator ruled completed: no order of
   confirmations, disputes, sweeps and rulings pays a deal half done. *)
PaidIfDone ==
  \A d \in Deal, u \in User : <<d, u>> \in credited =>
    \/ d \in ruled
    \/ /\ Parties(d) \subseteq confirmed[d]
       /\ CashReceiver(d) # None => settled[d]

(* The ledger shows each party's points once: a party that confirms again while
   the other one confirms completes the deal twice, and the second award must
   leave no second row. *)
LedgerOnce ==
  \A d \in Deal, u \in User :
    /\ ledger[<<d, u>>] <= 1
    /\ ledger[<<d, u>>] = 1 => <<d, u>> \in credited

(* The points of a deal, in the users subgraph and in the local ledger, are
   those a finished deal earned, once. *)
PointsAreEarned == PaidIfDone /\ LedgerOnce

(* Nobody is blocked before Threshold failures, though strikes of a sweep and
   of an operator read and write the same counter. *)
BlockIsEarned == \A u \in blocked : failed[u] >= Threshold

(* A deal that is not confirmed in time does not stay in progress. *)
LateDealsEnd ==
  \A d \in Deal :
    (status[d] = "ACCEPTED" /\ d \in overdue)
      ~> (status[d] # "ACCEPTED" \/ d \notin overdue)
=============================================================================
