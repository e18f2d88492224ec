-------------------------- MODULE ConnectionsProofs --------------------------
(***************************************************************************)
(* Proofs about Connections, for any stores, accounts and token pairs, any *)
(* number of requests at the same time and any number of faults.           *)
(***************************************************************************)
EXTENDS Connections, TLAPS

Task == [pc : {"idle", "upsert"}, store : Store \cup {None},
         account : Account \cup {None}, pair : Pair \cup {0}]

Renewal == [pc : {"idle", "next", "write", "pause"}, store : Store \cup {None},
            pair : Pair \cup {0}, batch : SUBSET Snapshot]

Sealings == [pc : {"boot", "next", "done"}, batch : SUBSET Snapshot]

Grant == [account : Account, store : Store]

-----------------------------------------------------------------------------
(* Types, and whose each pair is.  A snapshot, a request and the job name only
   pairs Mercado Pago issued for their store. *)
Own(s, p) == p \in DOMAIN issued /\ issued[p].store = s

RowsOwn ==
  \A s \in Store : /\ row[s].access # 0 => Own(s, row[s].access)
                   /\ row[s].refresh # 0 => Own(s, row[s].refresh)

TasksOwn ==
  \A h \in Handler : task[h].pc = "upsert" =>
    /\ task[h].store \in Store /\ task[h].account \in Account
    /\ task[h].pair \in DOMAIN issued
    /\ issued[task[h].pair].store = task[h].store
    /\ issued[task[h].pair].account = task[h].account

JobsOwn ==
  /\ \A r \in renewal.batch : Own(r.store, r.refresh)
  /\ renewal.pc = "write" => Own(renewal.store, renewal.pair)
  /\ \A r \in sealing.batch : /\ r.access # 0 => Own(r.store, r.access)
                              /\ r.refresh # 0 => Own(r.store, r.refresh)

TypeInv == TypeOK /\ RowsOwn /\ TasksOwn /\ JobsOwn

LEMMA Appended ==
  ASSUME NEW S, NEW q \in Seq(S), NEW x \in S
  PROVE  /\ Append(q, x) \in Seq(S) /\ Len(Append(q, x)) = Len(q) + 1
         /\ \A p \in DOMAIN q : p \in DOMAIN Append(q, x) /\ Append(q, x)[p] = q[p]
         /\ Len(q) + 1 \in DOMAIN Append(q, x) /\ Append(q, x)[Len(q) + 1] = x
         /\ Len(q) + 1 \notin DOMAIN q
         /\ DOMAIN q = 1..Len(q) /\ Len(q) \in Nat
  OBVIOUS

LEMMA ElementType ==
  ASSUME NEW S, NEW q \in Seq(S), NEW p \in DOMAIN q
  PROVE  q[p] \in S
  OBVIOUS

(* A pair issued for a store joins the others, which stay whose they were. *)
LEMMA IssueTypes ==
  ASSUME TypeInv, NEW g \in Grant, Issue(g)
  PROVE  /\ issued' \in Seq(Grant) /\ Len(issued') = Len(issued) + 1
         /\ Len(issued') <= MaxTokens
         /\ Len(issued) + 1 \in Pair
         /\ DOMAIN issued \subseteq DOMAIN issued'
         /\ \A p \in DOMAIN issued : issued'[p] = issued[p]
         /\ Len(issued) + 1 \in DOMAIN issued' /\ issued'[Len(issued) + 1] = g
         /\ Len(issued) + 1 \notin DOMAIN issued
<1>1. issued \in Seq(Grant) /\ Len(issued) < MaxTokens /\ issued' = Append(issued, g)
  BY DEF Issue, TypeInv, TypeOK, Grant
<1>2. Len(issued) \in Nat
  BY <1>1
<1>3. Len(issued) + 1 \in Pair /\ Len(issued) + 1 <= MaxTokens
  BY <1>1, <1>2, BoundsType DEF Pair
<1> QED BY <1>1, <1>3, Appended

LEMMA TypeInit == Init => TypeInv
<1> SUFFICES ASSUME NEW first \in Store \cup {None}, NEW a \in Account,
                    row = [s \in Store |-> IF s = first
                      THEN [account |-> a, access |-> 1, refresh |-> 1, active |-> TRUE,
                            sealed |-> FALSE, old |-> FALSE]
                      ELSE NoRow],
                    issued = IF first = None THEN <<>>
                             ELSE <<[account |-> a, store |-> first]>>,
                    wants = [s \in Store |-> IF s = first THEN "on" ELSE "off"],
                    crossed = [s \in Store |-> {}],
                    links = {} /\ spent = {} /\ revoked = {} /\ notices = {},
                    task = [h \in Handler |-> Idle],
                    renewal = [pc |-> "idle", store |-> None, pair |-> 0, batch |-> {}],
                    sealing = [pc |-> "boot", batch |-> {}],
                    lost = {} /\ overtaken = {} /\ faults = 0
             PROVE  TypeInv
  BY DEF Init
<1>1. 1 \in Pair /\ None \notin Store
  BY BoundsType, NoneIsNothing DEF Pair
<1>2. row \in [Store -> Row]
  BY <1>1 DEF Row, NoRow
<1>3. issued \in Seq(Grant) /\ Len(issued) <= MaxTokens
  <2>1. CASE first = None
    BY <2>1, BoundsType
  <2>2. CASE first # None
    <3>1. [account |-> a, store |-> first] \in Grant
      BY <2>2 DEF Grant
    <3> QED BY <2>2, <3>1, BoundsType
  <2> QED BY <2>1, <2>2
<1>4. task \in [Handler -> Task] /\ TasksOwn
  BY DEF Task, Idle, TasksOwn
<1>5. renewal \in Renewal /\ sealing \in Sealings /\ JobsOwn
  BY DEF Renewal, Sealings, JobsOwn
<1>6. RowsOwn
  <2>1. CASE first = None
    BY <1>1, <2>1 DEF RowsOwn, NoRow
  <2>2. CASE first # None
    <3>1. 1 \in DOMAIN issued /\ issued[1].store = first
      BY <2>2
    <3> QED BY <3>1 DEF RowsOwn, NoRow, Own
  <2> QED BY <2>1, <2>2
<1> QED BY <1>2, <1>3, <1>4, <1>5, <1>6 DEF TypeInv, TypeOK, Task, Renewal, Sealings, Grant

LEMMA RenewalReads ==
  ASSUME StartRenewal
  PROVE  \E read \in SUBSET Store :
           /\ \A s \in read : Expiring(s)
           /\ renewal' = [renewal EXCEPT !.pc = "next",
                !.batch = {[store |-> s, access |-> row[s].access,
                            refresh |-> row[s].refresh] : s \in read}]
  BY DEF StartRenewal, SnapshotOf

(* The provider's pairs and what the store asked, apart. *)
RestOK ==
  /\ links \subseteq Link
  /\ issued \in Seq(Grant) /\ Len(issued) <= MaxTokens
  /\ spent \subseteq DOMAIN issued /\ revoked \subseteq DOMAIN issued
  /\ notices \subseteq Account
  /\ wants \in [Store -> {"on", "off"}]
  /\ crossed \in [Store -> SUBSET {"completion", "job"}]
  /\ lost \subseteq Store /\ overtaken \subseteq Store
  /\ faults \in Nat

RenewalOK == renewal \in Renewal /\ ((renewal.store = None) = (renewal.pc \in {"idle", "next"}))

LEMMA TypeParts ==
  TypeInv <=> /\ RestOK /\ row \in [Store -> Row] /\ task \in [Handler -> Task]
              /\ RenewalOK /\ sealing \in Sealings /\ RowsOwn /\ TasksOwn /\ JobsOwn
  BY DEF TypeInv, TypeOK, RestOK, RenewalOK, Task, Renewal, Sealings, Grant

LEMMA TypePartsNext ==
  TypeInv' <=> /\ RestOK' /\ row' \in [Store -> Row] /\ task' \in [Handler -> Task]
               /\ RenewalOK' /\ sealing' \in Sealings /\ RowsOwn' /\ TasksOwn' /\ JobsOwn'
  BY DEF TypeInv, TypeOK, RestOK, RenewalOK, Task, Renewal, Sealings, Grant

(* Steps that write the tokens of rows only with tokens that are theirs. *)
LEMMA RowTypes ==
  ASSUME TypeInv, RestOK', row' \in [Store -> Row], UNCHANGED issued,
         task' \in [Handler -> Task], TasksOwn', RenewalOK', sealing' \in Sealings,
         renewal'.batch \subseteq renewal.batch, sealing'.batch \subseteq sealing.batch,
         renewal'.pc = "write" => Own(renewal'.store, renewal'.pair),
         \A s \in Store :
           /\ row'[s].access # 0 => Own(s, row'[s].access)
           /\ row'[s].refresh # 0 => Own(s, row'[s].refresh)
  PROVE  TypeInv'
<1>1. JobsOwn
  BY TypeParts
<1>2. JobsOwn' /\ RowsOwn'
  BY <1>1 DEF JobsOwn, RowsOwn, Own
<1> QED BY <1>2, TypePartsNext

LEMMA TypeStep == TypeInv /\ [Next]_vars => TypeInv'
<1> SUFFICES ASSUME TypeInv, [Next]_vars PROVE TypeInv'
  OBVIOUS
<1>t. /\ RestOK /\ row \in [Store -> Row] /\ task \in [Handler -> Task]
      /\ RenewalOK /\ sealing \in Sealings /\ RowsOwn /\ TasksOwn /\ JobsOwn
  BY TypeParts
<1>r. /\ \A s \in Store : row[s] \in Row
      /\ \A r \in renewal.batch \cup sealing.batch :
           r \in Snapshot /\ r.store \in Store /\ r.access \in Pair \cup {0}
           /\ r.refresh \in Pair \cup {0}
  BY <1>t DEF RenewalOK, Renewal, Sealings, Snapshot
<1>1. ASSUME NEW s \in Store, NEW u \in Actor, NEW a \in Account, Authorize(s, u, a)
      PROVE  TypeInv'
  <2>1. [store |-> s, actor |-> u, account |-> a] \in Link
    BY DEF Link
  <2> QED BY <1>1, <1>t, <2>1, RowTypes
          DEF Authorize, RestOK, RenewalOK, provider, jobs, history, RowsOwn, TasksOwn, JobsOwn
<1>2. ASSUME NEW l \in links, LinkExpires(l) PROVE TypeInv'
  BY <1>2, <1>t, RowTypes
     DEF LinkExpires, RestOK, RenewalOK, provider, jobs, history, RowsOwn, TasksOwn, JobsOwn
<1>3. ASSUME NEW s \in Store, NEW h \in Handler, NEW u \in Actor, NEW l \in links,
             ExchangeCode(h, s, u, l)
      PROVE  TypeInv'
  <2> DEFINE g == [account |-> l.account, store |-> l.store]
             n == Len(issued) + 1
             y == [pc |-> "upsert", store |-> s, account |-> l.account, pair |-> n]
  <2>1. /\ l.store = s /\ l.account \in Account /\ g \in Grant /\ Issue(g)
        /\ UNCHANGED <<row, spent, revoked, notices, renewal, sealing, lost, overtaken>>
        /\ links' \subseteq Link /\ faults' \in Nat
        /\ wants' = [wants EXCEPT ![s] = "on"] /\ crossed' = crossed
        /\ task' = [task EXCEPT ![h] = y] \/ task' = task
    BY <1>3, <1>t DEF ExchangeCode, ReadConnectState, Link, Grant, RestOK, Fault, jobs, history
  <2>2. /\ issued' \in Seq(Grant) /\ Len(issued') <= MaxTokens
        /\ n \in Pair
        /\ DOMAIN issued \subseteq DOMAIN issued'
        /\ \A p \in DOMAIN issued : issued'[p] = issued[p]
        /\ n \in DOMAIN issued' /\ issued'[n] = g
    BY <2>1, IssueTypes
  <2>3. y \in Task /\ y.pc = "upsert" /\ y.store = s /\ y.account = l.account /\ y.pair = n
    BY <2>1, <2>2 DEF Task
  <2>4. g.store = s /\ g.account = l.account
    BY <2>1
  <2> HIDE DEF n, y, g
  <2>5. task' \in [Handler -> Task] /\ TasksOwn'
    BY <1>t, <2>1, <2>2, <2>3, <2>4 DEF TasksOwn
  <2>6. RowsOwn' /\ JobsOwn'
    BY <1>t, <2>1, <2>2 DEF RowsOwn, JobsOwn, Own
  <2>7. RestOK' /\ RenewalOK'
    BY <1>t, <2>1, <2>2 DEF RestOK, RenewalOK
  <2> QED BY <1>t, <2>1, <2>5, <2>6, <2>7, TypePartsNext
<1>4. ASSUME NEW h \in Handler, Upsert(h) PROVE TypeInv'
  <2> DEFINE s == task[h].store
             y == [account |-> task[h].account, access |-> task[h].pair,
                   refresh |-> task[h].pair, active |-> TRUE, sealed |-> TRUE, old |-> FALSE]
  <2>1. /\ s \in Store /\ Own(s, task[h].pair) /\ task[h] \in Task
        /\ task[h].account \in Account
    BY <1>4, <1>t DEF Upsert, TasksOwn, Own
  <2>2. y \in Row /\ y.access = task[h].pair /\ y.refresh = task[h].pair
    BY <2>1 DEF Row, Task
  <2>3. row' = [row EXCEPT ![s] = y] /\ task' = [task EXCEPT ![h] = Idle]
    BY <1>4 DEF Upsert
  <2> HIDE DEF s, y
  <2>4. task' \in [Handler -> Task] /\ TasksOwn'
    <3>1. Idle \in Task /\ Idle.pc = "idle" /\ issued' = issued
      BY <1>4 DEF Idle, Task, Upsert, provider
    <3> QED BY <1>t, <2>3, <3>1 DEF TasksOwn
  <2>5. RestOK' /\ RenewalOK'
    BY <1>4, <1>t, <2>1 DEF Upsert, Writes, RestOK, RenewalOK, provider, jobs, s
  <2>6. UNCHANGED <<issued, renewal, sealing>>
    BY <1>4 DEF Upsert, provider, jobs
  <2> QED BY <1>t, <2>1, <2>2, <2>3, <2>4, <2>5, <2>6, RowTypes DEF RowsOwn, JobsOwn
<1>5. ASSUME NEW s \in Store, Disconnect(s) PROVE TypeInv'
  <2> DEFINE y == Disconnected(row[s])
  <2>1. y \in Row /\ y.access = row[s].access /\ y.refresh = 0
    BY <1>r DEF Disconnected, Row
  <2>2. row' = [row EXCEPT ![s] = y]
    BY <1>5 DEF Disconnect
  <2> HIDE DEF y
  <2>3. RestOK' /\ RenewalOK'
    BY <1>5, <1>t DEF Disconnect, Writes, RestOK, RenewalOK, provider, jobs
  <2>4. UNCHANGED <<issued, renewal, sealing, task>>
    BY <1>5 DEF Disconnect, provider, jobs
  <2> QED BY <1>t, <2>1, <2>2, <2>3, <2>4, RowTypes DEF RowsOwn, JobsOwn, TasksOwn
<1>6. ASSUME NEW a \in Account, Unlink(a) PROVE TypeInv'
  BY <1>6, <1>t, RowTypes
     DEF Unlink, RestOK, RenewalOK, jobs, history, RowsOwn, TasksOwn, JobsOwn
<1>7. ASSUME NEW a \in Account, Deauthorize(a) PROVE TypeInv'
  <2>1. ASSUME NEW s \in Store
        PROVE  /\ row'[s] \in Row
               /\ row'[s].access = row[s].access /\ row'[s].refresh = row[s].refresh
    BY <1>7, <1>r DEF Deauthorize, Row
  <2>2. row' \in [Store -> Row]
    BY <1>7, <2>1 DEF Deauthorize
  <2>3. RestOK' /\ RenewalOK' /\ UNCHANGED <<issued, renewal, sealing, task>>
    BY <1>7, <1>t DEF Deauthorize, RestOK, RenewalOK, jobs, history
  <2> QED BY <1>t, <2>1, <2>2, <2>3, RowTypes DEF RowsOwn, JobsOwn, TasksOwn
<1>8. CASE StartRenewal
  <2>p. PICK read \in SUBSET Store :
          /\ \A s \in read : Expiring(s)
          /\ renewal' = [renewal EXCEPT !.pc = "next",
               !.batch = {[store |-> s, access |-> row[s].access,
                           refresh |-> row[s].refresh] : s \in read}]
    BY <1>8, RenewalReads
  <2> DEFINE b == {[store |-> s, access |-> row[s].access, refresh |-> row[s].refresh] :
                     s \in read}
             y == [renewal EXCEPT !.pc = "next", !.batch = b]
  <2>1. /\ b \in SUBSET Snapshot
        /\ \A r \in b : r.store \in Store /\ Expiring(r.store) /\ r.refresh = row[r.store].refresh
    BY <1>r, <2>p DEF Snapshot, Row
  <2>2. renewal' = y /\ renewal \in Renewal /\ renewal.store = None /\ UNCHANGED issued
    BY <1>8, <1>t, <2>p DEF StartRenewal, RenewalOK, provider
  <2> HIDE DEF b
  <2>3. y \in Renewal /\ y.pc = "next" /\ y.store = None /\ y.batch = b
    BY <2>1, <2>2 DEF Renewal
  <2> HIDE DEF y
  <2>4. JobsOwn'
    <3>1. UNCHANGED <<row, issued, sealing>>
      BY <1>8 DEF StartRenewal, provider
    <3> QED BY <1>t, <2>1, <2>2, <2>3, <3>1 DEF JobsOwn, RowsOwn, Expiring, Own
  <2>5. RestOK' /\ RenewalOK' /\ UNCHANGED <<row, task, sealing>>
    BY <1>8, <1>t, <2>2, <2>3 DEF StartRenewal, RestOK, RenewalOK, provider, history
  <2> QED BY <1>t, <2>2, <2>4, <2>5, TypePartsNext DEF RowsOwn, TasksOwn, Own
(* The job takes a row of its batch. *)
<1>k. ASSUME NEW r \in renewal.batch, NEW pc \in {"next", "write", "pause"},
             NEW n \in Pair \cup {0}, Take(r, pc, n)
      PROVE  /\ RenewalOK' /\ renewal'.pc = pc /\ renewal'.pair = n
             /\ renewal'.batch \subseteq renewal.batch
             /\ pc # "next" => renewal'.store = r.store
  <2> DEFINE b == renewal.batch \ {r}
             s == IF pc = "next" THEN None ELSE r.store
  <2>1. b \in SUBSET Snapshot /\ s \in Store \cup {None} /\ ((s = None) = (pc = "next"))
    BY <1>t, <1>r, NoneIsNothing DEF RenewalOK, Renewal
  <2>2. renewal' = [pc |-> pc, store |-> s, pair |-> n, batch |-> b]
    BY <1>k DEF Take
  <2>3. pc # "next" => s = r.store
    OBVIOUS
  <2>4. b \subseteq renewal.batch
    OBVIOUS
  <2> HIDE DEF b, s
  <2> QED BY <2>1, <2>2, <2>3, <2>4 DEF RenewalOK, Renewal
<1>9. ASSUME NEW r \in renewal.batch, Renew(r) PROVE TypeInv'
  <2> DEFINE g == issued[r.refresh]
             n == Len(issued) + 1
  <2>1. Own(r.store, r.refresh) /\ r.store \in Store
    BY <1>t, <1>r DEF JobsOwn
  <2>2. g \in Grant /\ g.store = r.store /\ Issue(g)
    BY <1>9, <1>t, <2>1, ElementType DEF Renew, RestOK, Own
  <2>3. /\ issued' \in Seq(Grant) /\ Len(issued') <= MaxTokens
        /\ n \in Pair
        /\ DOMAIN issued \subseteq DOMAIN issued'
        /\ \A p \in DOMAIN issued : issued'[p] = issued[p]
        /\ n \in DOMAIN issued' /\ issued'[n] = g
    BY <2>2, IssueTypes
  <2> HIDE DEF g
  <2>4. \/ Take(r, "write", n) /\ UNCHANGED <<lost, faults>>
        \/ Fault /\ Take(r, "next", 0) /\ lost' = lost \cup {r.store}
    BY <1>9 DEF Renew
  <2>5. /\ spent' = spent \cup {r.refresh}
        /\ UNCHANGED <<row, links, revoked, notices, task, sealing, wants, crossed, overtaken>>
    BY <1>9 DEF Renew
  <2> HIDE DEF n
  <2>6. /\ RenewalOK' /\ renewal'.batch \subseteq renewal.batch
        /\ renewal'.pc = "write" => renewal'.store = r.store /\ renewal'.pair = n
    BY <1>k, <2>3, <2>4
  <2>7. RestOK'
    BY <1>t, <2>1, <2>3, <2>4, <2>5 DEF RestOK, Fault, Own
  <2>8. JobsOwn' /\ RowsOwn' /\ TasksOwn'
    <3>1. JobsOwn'
      BY <1>t, <2>2, <2>3, <2>5, <2>6 DEF JobsOwn, Own
    <3>2. RowsOwn' /\ TasksOwn'
      BY <1>t, <2>3, <2>5 DEF RowsOwn, TasksOwn, Own
    <3> QED BY <3>1, <3>2
  <2> QED BY <1>t, <2>5, <2>6, <2>7, <2>8, TypePartsNext
<1>10. ASSUME NEW r \in renewal.batch, RenewFails(r) PROVE TypeInv'
  <2>1. \E pc \in {"next", "pause"} : Take(r, pc, 0)
    BY <1>10 DEF RenewFails, Refused
  <2>2. /\ RenewalOK' /\ renewal'.batch \subseteq renewal.batch /\ renewal'.pc # "write"
    BY <1>k, <2>1
  <2>3. RestOK' /\ UNCHANGED <<row, issued, task, sealing>>
    BY <1>10, <1>t DEF RenewFails, Fault, RestOK, provider, history
  <2> QED BY <1>t, <2>2, <2>3, RowTypes DEF RowsOwn, JobsOwn, TasksOwn
<1>11. CASE WriteRenewed
  <2> DEFINE s == renewal.store
             y == Renewed(row[s], renewal.pair)
             z == [renewal EXCEPT !.pc = "next", !.store = None, !.pair = 0]
  <2>1. /\ renewal \in Renewal /\ s \in Store /\ Own(s, renewal.pair)
        /\ renewal.pair \in Pair \cup {0}
    BY <1>11, <1>t DEF WriteRenewed, RenewalOK, Renewal, JobsOwn
  <2>2. y \in Row /\ y.access = renewal.pair /\ y.refresh = renewal.pair
    BY <1>r, <2>1, ZenonT(60) DEF Renewed, Row
  <2>3. /\ row' = [row EXCEPT ![s] = y] /\ renewal' = z
        /\ overtaken' \subseteq overtaken \cup {s}
        /\ UNCHANGED <<links, issued, spent, revoked, notices, task, sealing>>
        /\ UNCHANGED <<wants, crossed, lost, faults>>
    BY <1>11 DEF WriteRenewed, Writes, provider
  <2>4. z \in Renewal /\ z.pc = "next" /\ z.store = None /\ z.batch = renewal.batch
    BY <2>1 DEF Renewal
  <2> HIDE DEF s, y, z
  <2>5. RestOK' /\ RenewalOK'
    BY <1>t, <2>1, <2>3, <2>4 DEF RestOK, RenewalOK
  <2> QED BY <1>t, <2>1, <2>2, <2>3, <2>4, <2>5, RowTypes DEF RowsOwn, TasksOwn
<1>12. CASE Pause
  <2> DEFINE s == renewal.store
             y == [row[s] EXCEPT !.active = FALSE]
             z == [renewal EXCEPT !.pc = "next", !.store = None]
  <2>1. renewal \in Renewal /\ s \in Store
    BY <1>12, <1>t DEF Pause, RenewalOK, Renewal
  <2>2. y \in Row /\ y.access = row[s].access /\ y.refresh = row[s].refresh
    BY <1>r, <2>1 DEF Row
  <2>3. row' = [row EXCEPT ![s] = y] /\ renewal' = z
    BY <1>12 DEF Pause
  <2>4. z \in Renewal /\ z.pc = "next" /\ z.store = None /\ z.batch = renewal.batch
    BY <2>1 DEF Renewal
  <2> HIDE DEF s, y, z
  <2>5. RestOK' /\ RenewalOK' /\ UNCHANGED <<issued, task, sealing>>
    BY <1>12, <1>t, <2>3, <2>4 DEF Pause, RestOK, RenewalOK, provider, history
  <2> QED BY <1>t, <2>1, <2>2, <2>3, <2>4, <2>5, RowTypes DEF RowsOwn, TasksOwn
<1>13. CASE EndRenewal
  <2> DEFINE z == [renewal EXCEPT !.pc = "idle"]
  <2>1. renewal \in Renewal /\ renewal.store = None /\ renewal' = z
    BY <1>13, <1>t DEF EndRenewal, RenewalOK
  <2>2. z \in Renewal /\ z.pc = "idle" /\ z.store = None /\ z.batch = renewal.batch
    BY <2>1 DEF Renewal
  <2> HIDE DEF z
  <2>3. RestOK' /\ RenewalOK' /\ UNCHANGED <<row, issued, task, sealing>>
    BY <1>13, <1>t, <2>1, <2>2 DEF EndRenewal, RestOK, RenewalOK, provider, history
  <2> QED BY <1>t, <2>1, <2>2, <2>3, RowTypes DEF RowsOwn, TasksOwn
<1>14. CASE StartSealing
  <2> DEFINE b == {[store |-> s, access |-> row[s].access, refresh |-> row[s].refresh] :
                     s \in {x \in Store : ~row[x].sealed}}
  <2>1. /\ b \in SUBSET Snapshot
        /\ \A r \in b : /\ r.store \in Store
                        /\ r.refresh = row[r.store].refresh /\ r.access = row[r.store].access
    BY <1>r DEF Snapshot, Row
  <2>2. sealing' = [pc |-> "next", batch |-> b]
    BY <1>14 DEF StartSealing, SnapshotOf
  <2> HIDE DEF b
  <2>3. sealing' \in Sealings /\ sealing'.batch = b
    BY <2>1, <2>2 DEF Sealings
  <2>4. RestOK' /\ RenewalOK' /\ UNCHANGED <<row, issued, task, renewal>>
    BY <1>14, <1>t DEF StartSealing, SnapshotOf, RestOK, RenewalOK, provider, history
  <2>5. JobsOwn' /\ RowsOwn' /\ TasksOwn'
    BY <1>t, <2>1, <2>3, <2>4 DEF JobsOwn, RowsOwn, TasksOwn, Own
  <2> QED BY <1>t, <2>3, <2>4, <2>5, TypePartsNext
<1>15. ASSUME NEW r \in sealing.batch, SealRow(r) PROVE TypeInv'
  <2> DEFINE s == r.store
             y == [row[s] EXCEPT !.access = r.access, !.refresh = r.refresh, !.sealed = TRUE]
             z == [sealing EXCEPT !.batch = sealing.batch \ {r}]
  <2>1. /\ s \in Store /\ y \in Row /\ y.access = r.access /\ y.refresh = r.refresh
    <3>1. /\ s \in Store /\ r.access \in Pair \cup {0} /\ r.refresh \in Pair \cup {0}
      BY <1>r
    <3>2. row[s] \in Row
      BY <1>r, <3>1
    <3> QED BY <3>1, <3>2 DEF Row
  <2>2. row' = [row EXCEPT ![s] = y] /\ sealing' = z
    BY <1>15, <1>t, <1>r DEF SealRow
  <2>3. z \in Sealings /\ z.batch \subseteq sealing.batch
    BY <1>t DEF Sealings
  <2>4. (r.access # 0 => Own(s, r.access)) /\ (r.refresh # 0 => Own(s, r.refresh))
    BY <1>t DEF JobsOwn
  <2> HIDE DEF y, z, s
  <2>5. RestOK' /\ RenewalOK' /\ UNCHANGED <<issued, task, renewal>>
    BY <1>15, <1>t, <2>1 DEF SealRow, Writes, RestOK, RenewalOK, provider, s
  <2> QED BY <1>t, <2>1, <2>2, <2>3, <2>4, <2>5, RowTypes DEF RowsOwn, TasksOwn, JobsOwn
<1>16. CASE EndSealing
  <2>1. sealing' \in Sealings /\ sealing'.batch = sealing.batch
    BY <1>16, <1>t DEF EndSealing, Sealings
  <2>2. RestOK' /\ RenewalOK' /\ UNCHANGED <<row, issued, task, renewal>>
    BY <1>16, <1>t DEF EndSealing, RestOK, RenewalOK, provider, history
  <2> QED BY <1>t, <2>1, <2>2, RowTypes DEF RowsOwn, TasksOwn, JobsOwn
<1>17. ASSUME NEW s \in Store, Age(s) PROVE TypeInv'
  <2> DEFINE y == [row[s] EXCEPT !.old = TRUE]
  <2>1. y \in Row /\ y.access = row[s].access /\ y.refresh = row[s].refresh
    BY <1>r DEF Row
  <2>2. row' = [row EXCEPT ![s] = y]
    BY <1>17 DEF Age
  <2> HIDE DEF y
  <2>3. RestOK' /\ RenewalOK' /\ UNCHANGED <<issued, task, renewal, sealing>>
    BY <1>17, <1>t DEF Age, RestOK, RenewalOK, provider, jobs, history
  <2> QED BY <1>t, <2>1, <2>2, <2>3, RowTypes DEF RowsOwn, TasksOwn, JobsOwn
<1>18. CASE CrashRenewal
  <2>1. RenewalOK' /\ renewal'.pc = "idle" /\ renewal'.batch = {}
    BY <1>18, NoneIsNothing DEF CrashRenewal, RenewalOK, Renewal
  <2>2. lost' \subseteq Store
    BY <1>18, <1>t DEF CrashRenewal, RestOK, RenewalOK, Renewal
  <2>3. RestOK' /\ UNCHANGED <<row, issued, task, sealing>>
    BY <1>18, <1>t, <2>2 DEF CrashRenewal, Fault, RestOK, provider
  <2> QED BY <1>t, <2>1, <2>3, RowTypes DEF RowsOwn, TasksOwn, JobsOwn
<1>19. CASE UNCHANGED vars
  BY <1>19, <1>t, RowTypes
     DEF vars, RestOK, RenewalOK, provider, jobs, history, RowsOwn, TasksOwn, JobsOwn
<1> QED BY <1>1, <1>2, <1>3, <1>4, <1>5, <1>6, <1>7, <1>8, <1>9, <1>10, <1>11, <1>12, <1>13,
           <1>14, <1>15, <1>16, <1>17, <1>18, <1>19 DEF Next, Request, RenewalStep, Sealer

(* Every variable of the connections keeps its type. *)
THEOREM TypeCorrect == Spec => []TypeOK
<1>1. TypeInv => TypeOK
  BY DEF TypeInv
<1> QED BY <1>1, TypeInit, TypeStep, PTL DEF Spec

-----------------------------------------------------------------------------
(* What the jobs know.  Unless another writer came between, a snapshot still
   shows the tokens of its row, the job holds each store once, and a row's
   tokens are of its account. *)
SnapshotsInv ==
  /\ \A s \in Store \ overtaken :
       /\ row[s].access # 0 => issued[row[s].access].account = row[s].account
       /\ row[s].refresh # 0 => issued[row[s].refresh].account = row[s].account
       /\ renewal.pc = "write" /\ renewal.store = s =>
            issued[renewal.pair].account = row[s].account
       /\ \A r \in renewal.batch : r.store = s => r.refresh = row[s].refresh
       /\ \A r \in sealing.batch : r.store = s => /\ r.access = row[s].access
                                                 /\ r.refresh = row[s].refresh
  /\ \A r \in renewal.batch :
       /\ r.refresh # 0 /\ r.store # renewal.store
       /\ \A q \in renewal.batch : q.store = r.store => q = r

LEMMA SnapshotsInit == Init => SnapshotsInv
<1> SUFFICES ASSUME NEW first \in Store \cup {None}, NEW a \in Account,
                    row = [s \in Store |-> IF s = first
                      THEN [account |-> a, access |-> 1, refresh |-> 1, active |-> TRUE,
                            sealed |-> FALSE, old |-> FALSE]
                      ELSE NoRow],
                    issued = IF first = None THEN <<>>
                             ELSE <<[account |-> a, store |-> first]>>,
                    renewal = [pc |-> "idle", store |-> None, pair |-> 0, batch |-> {}],
                    sealing = [pc |-> "boot", batch |-> {}]
             PROVE  SnapshotsInv
  BY DEF Init
<1>1. first # None => issued[1].account = a
  OBVIOUS
<1>2. renewal.batch = {} /\ sealing.batch = {} /\ renewal.pc = "idle"
  OBVIOUS
<1>3. \A s \in Store : /\ row[s].access # 0 => issued[row[s].access].account = row[s].account
                       /\ row[s].refresh # 0 => issued[row[s].refresh].account = row[s].account
  BY <1>1, NoneIsNothing DEF NoRow
<1> QED BY <1>2, <1>3 DEF SnapshotsInv

(* A step that changes no token, and only takes from the batches. *)
LEMMA QuietSnapshots ==
  ASSUME TypeInv, SnapshotsInv,
         \A s \in Store : /\ row'[s].access = row[s].access
                          /\ row'[s].refresh = row[s].refresh
                          /\ row'[s].account = row[s].account,
         \A p \in DOMAIN issued : issued'[p] = issued[p],
         overtaken \subseteq overtaken',
         renewal'.pc = "write" =>
           renewal'.store \in overtaken' \/ issued'[renewal'.pair].account = row[renewal'.store].account,
         renewal'.batch \subseteq renewal.batch, sealing'.batch \subseteq sealing.batch,
         \A r \in renewal'.batch : r.store # renewal'.store
  PROVE  SnapshotsInv'
<1>1. \A s \in Store : /\ row[s].access # 0 => row[s].access \in DOMAIN issued
                       /\ row[s].refresh # 0 => row[s].refresh \in DOMAIN issued
  BY TypeParts DEF RowsOwn, Own
<1>2. \A s \in Store : renewal'.pc = "write" /\ renewal'.store = s /\ s \notin overtaken' =>
                         issued'[renewal'.pair].account = row'[s].account
  OBVIOUS
<1> QED BY <1>1, <1>2 DEF SnapshotsInv

(* A step that rewrites the tokens of one store, whose other writers, if any,
   are overtaken. *)
LEMMA RewriteSnapshots ==
  ASSUME TypeInv, SnapshotsInv, NEW s \in Store, NEW y,
         row' = [row EXCEPT ![s] = y], UNCHANGED <<issued, renewal, sealing>>,
         Writes(s, Renewing(s) \/ Sealing(s)),
         y.access # 0 => issued[y.access].account = y.account,
         y.refresh # 0 => issued[y.refresh].account = y.account
  PROVE  SnapshotsInv'
<1>1. \A x \in Store : x # s => row'[x] = row[x]
  BY TypeParts
<1>2. row'[s] = y
  BY TypeParts
<1>3. overtaken \subseteq overtaken'
  BY DEF Writes
<1>4. s \notin overtaken' =>
        /\ s # renewal.store
        /\ \A r \in renewal.batch : r.store # s
        /\ \A r \in sealing.batch : r.store # s
  BY DEF Writes, Renewing, Sealing
<1>5. \A r \in renewal.batch : r.refresh # 0 /\ r.store # renewal.store
        /\ \A q \in renewal.batch : q.store = r.store => q = r
  BY DEF SnapshotsInv
<1>6. ASSUME NEW x \in Store \ overtaken'
      PROVE  /\ row'[x].access # 0 => issued'[row'[x].access].account = row'[x].account
             /\ row'[x].refresh # 0 => issued'[row'[x].refresh].account = row'[x].account
             /\ renewal'.pc = "write" /\ renewal'.store = x =>
                  issued'[renewal'.pair].account = row'[x].account
             /\ \A r \in renewal'.batch : r.store = x => r.refresh = row'[x].refresh
             /\ \A r \in sealing'.batch : r.store = x => /\ r.access = row'[x].access
                                                        /\ r.refresh = row'[x].refresh
  <2>1. CASE x = s
    BY <1>2, <1>4, <2>1
  <2>2. CASE x # s
    BY <1>1, <1>3, <2>2 DEF SnapshotsInv
  <2> QED BY <2>1, <2>2
<1> QED BY <1>5, <1>6 DEF SnapshotsInv

LEMMA SnapshotsStep == TypeInv /\ SnapshotsInv /\ [Next]_vars => SnapshotsInv'
<1> SUFFICES ASSUME TypeInv, SnapshotsInv, [Next]_vars PROVE SnapshotsInv'
  OBVIOUS
<1>t. /\ RestOK /\ row \in [Store -> Row] /\ task \in [Handler -> Task]
      /\ RenewalOK /\ sealing \in Sealings /\ RowsOwn /\ TasksOwn /\ JobsOwn
  BY TypeParts
<1>r. /\ \A s \in Store : row[s] \in Row
      /\ \A r \in renewal.batch \cup sealing.batch :
           r \in Snapshot /\ r.store \in Store /\ r.access \in Pair \cup {0}
           /\ r.refresh \in Pair \cup {0}
  BY <1>t DEF RenewalOK, Renewal, Sealings, Snapshot
<1>w. renewal.pc = "write" =>
        renewal.store \in overtaken \/ issued[renewal.pair].account = row[renewal.store].account
  BY <1>t DEF SnapshotsInv, RenewalOK, Renewal
<1>b. \A r \in renewal.batch : r.store # renewal.store
  BY DEF SnapshotsInv
<1>q. ASSUME \A s \in Store : /\ row'[s].access = row[s].access
                              /\ row'[s].refresh = row[s].refresh
                              /\ row'[s].account = row[s].account,
             UNCHANGED <<issued, renewal, overtaken>>, sealing'.batch \subseteq sealing.batch
      PROVE  SnapshotsInv'
  BY <1>q, <1>w, <1>b, QuietSnapshots
<1>1. ASSUME NEW s \in Store, NEW u \in Actor, NEW a \in Account, Authorize(s, u, a)
      PROVE  SnapshotsInv'
  BY <1>1, <1>q DEF Authorize, provider, jobs, history
<1>2. ASSUME NEW l \in links, LinkExpires(l) PROVE SnapshotsInv'
  BY <1>2, <1>q DEF LinkExpires, provider, jobs, history
<1>3. ASSUME NEW s \in Store, NEW h \in Handler, NEW u \in Actor, NEW l \in links,
             ExchangeCode(h, s, u, l)
      PROVE  SnapshotsInv'
  <2>1. [account |-> l.account, store |-> l.store] \in Grant
        /\ Issue([account |-> l.account, store |-> l.store])
    BY <1>3, <1>t DEF ExchangeCode, Link, Grant, RestOK
  <2>2. \A p \in DOMAIN issued : issued'[p] = issued[p]
    BY <2>1, IssueTypes
  <2>3. UNCHANGED <<row, renewal, sealing, overtaken>>
    BY <1>3 DEF ExchangeCode, jobs, history
  <2>4. renewal.pc = "write" => renewal.pair \in DOMAIN issued
    BY <1>t DEF JobsOwn, Own
  <2> QED BY <1>w, <1>b, <2>2, <2>3, <2>4, QuietSnapshots
<1>4. ASSUME NEW h \in Handler, Upsert(h) PROVE SnapshotsInv'
  <2> DEFINE s == task[h].store
             y == [account |-> task[h].account, access |-> task[h].pair,
                   refresh |-> task[h].pair, active |-> TRUE, sealed |-> TRUE, old |-> FALSE]
  <2>1. /\ s \in Store /\ issued[task[h].pair].account = task[h].account
    BY <1>4, <1>t DEF Upsert, TasksOwn
  <2>2. /\ y.access = task[h].pair /\ y.refresh = task[h].pair /\ y.account = task[h].account
    OBVIOUS
  <2>3. /\ row' = [row EXCEPT ![s] = y] /\ UNCHANGED <<issued, renewal, sealing>>
        /\ Writes(s, Renewing(s) \/ Sealing(s))
    BY <1>4 DEF Upsert, provider, jobs
  <2> HIDE DEF s, y
  <2> QED BY <2>1, <2>2, <2>3, RewriteSnapshots
<1>5. ASSUME NEW s \in Store, Disconnect(s) PROVE SnapshotsInv'
  <2> DEFINE y == Disconnected(row[s])
  <2>1. y.access = row[s].access /\ y.refresh = 0 /\ y.account = row[s].account
    BY <1>r DEF Disconnected, Row
  <2>2. /\ row' = [row EXCEPT ![s] = y] /\ UNCHANGED <<issued, renewal, sealing>>
        /\ Writes(s, Renewing(s) \/ Sealing(s))
    BY <1>5 DEF Disconnect, provider, jobs
  <2> HIDE DEF y
  <2>3. CASE s \in overtaken
    <3>1. \A x \in Store : x # s => row'[x] = row[x]
      BY <1>t, <2>2
    <3>2. overtaken \subseteq overtaken'
      BY <2>2 DEF Writes
    <3> QED BY <2>2, <2>3, <3>1, <3>2 DEF SnapshotsInv
  <2>4. CASE s \notin overtaken
    <3>1. y.access # 0 => issued[y.access].account = y.account
      BY <2>1, <2>4 DEF SnapshotsInv
    <3> QED BY <2>1, <2>2, <3>1, RewriteSnapshots
  <2> QED BY <2>3, <2>4
<1>6. ASSUME NEW a \in Account, Unlink(a) PROVE SnapshotsInv'
  BY <1>6, <1>q DEF Unlink, jobs, history
<1>7. ASSUME NEW a \in Account, Deauthorize(a) PROVE SnapshotsInv'
  <2>1. ASSUME NEW s \in Store
        PROVE  /\ row'[s].access = row[s].access /\ row'[s].refresh = row[s].refresh
               /\ row'[s].account = row[s].account
    BY <1>7, <1>r DEF Deauthorize, Row
  <2> QED BY <1>7, <1>q, <2>1 DEF Deauthorize, jobs, history
<1>8. CASE StartRenewal
  <2>p. PICK read \in SUBSET Store :
          /\ \A s \in read : Expiring(s)
          /\ renewal' = [renewal EXCEPT !.pc = "next",
               !.batch = {[store |-> s, access |-> row[s].access,
                           refresh |-> row[s].refresh] : s \in read}]
    BY <1>8, RenewalReads
  <2> DEFINE b == {[store |-> s, access |-> row[s].access, refresh |-> row[s].refresh] :
                     s \in read}
             y == [renewal EXCEPT !.pc = "next", !.batch = b]
  <2>1. \A r \in b : /\ r.store \in Store /\ r.refresh = row[r.store].refresh /\ r.refresh # 0
                     /\ \A q \in b : q.store = r.store => q = r
    BY <2>p DEF Expiring
  <2>2. renewal' = y /\ renewal \in Renewal /\ renewal.store = None
    BY <1>8, <1>t, <2>p DEF StartRenewal, RenewalOK
  <2> HIDE DEF b
  <2>3. y.pc = "next" /\ y.store = None /\ y.batch = b
    BY <2>2 DEF Renewal
  <2> HIDE DEF y
  <2>4. UNCHANGED <<row, issued, sealing, overtaken>>
    BY <1>8 DEF StartRenewal, provider, history
  <2> QED BY <2>1, <2>2, <2>3, <2>4, NoneIsNothing DEF SnapshotsInv
<1>k. ASSUME NEW r \in renewal.batch, NEW pc \in {"next", "write", "pause"},
             NEW n \in Pair \cup {0}, Take(r, pc, n)
      PROVE  /\ renewal'.pc = pc /\ renewal'.pair = n
             /\ renewal'.batch = renewal.batch \ {r}
             /\ renewal'.store = IF pc = "next" THEN None ELSE r.store
  BY <1>k DEF Take
<1>9. ASSUME NEW r \in renewal.batch, Renew(r) PROVE SnapshotsInv'
  <2> DEFINE g == issued[r.refresh]
             n == Len(issued) + 1
             s == r.store
  <2>1. Own(s, r.refresh) /\ s \in Store
    BY <1>t, <1>r DEF JobsOwn
  <2>2. g \in Grant /\ Issue(g)
    BY <1>9, <1>t, <2>1, ElementType DEF Renew, RestOK, Own
  <2>3. n \in Pair /\ issued'[n] = g /\ \A p \in DOMAIN issued : issued'[p] = issued[p]
    BY <2>2, IssueTypes
  <2>4. s \in overtaken \/ g.account = row[s].account
    BY <1>r, <2>1 DEF SnapshotsInv
  <2> HIDE DEF g
  <2>5. /\ Take(r, "write", n) \/ Take(r, "next", 0)
        /\ UNCHANGED <<row, sealing, overtaken>>
    BY <1>9 DEF Renew
  <2> HIDE DEF n
  <2>6. /\ renewal'.batch = renewal.batch \ {r}
        /\ renewal'.pc = "write" => renewal'.store = s /\ renewal'.pair = n
        /\ renewal'.store \in {None, s}
    BY <1>k, <2>3, <2>5
  <2>7. \A q \in renewal'.batch : q.store # renewal'.store
    BY <1>r, <2>6, NoneIsNothing DEF SnapshotsInv
  <2> HIDE DEF s
  <2> QED BY <2>3, <2>4, <2>5, <2>6, <2>7, QuietSnapshots
<1>10. ASSUME NEW r \in renewal.batch, RenewFails(r) PROVE SnapshotsInv'
  <2>1. \E pc \in {"next", "pause"} : Take(r, pc, 0)
    BY <1>10 DEF RenewFails, Refused
  <2>2. /\ renewal'.batch = renewal.batch \ {r} /\ renewal'.pc # "write"
        /\ renewal'.store \in {None, r.store}
    BY <1>k, <2>1
  <2>3. UNCHANGED <<row, issued, sealing, overtaken>>
    BY <1>10 DEF RenewFails, provider, history
  <2>4. \A q \in renewal'.batch : q.store # renewal'.store
    BY <1>r, <2>2, NoneIsNothing DEF SnapshotsInv
  <2> QED BY <2>2, <2>3, <2>4, QuietSnapshots
<1>11. CASE WriteRenewed
  <2> DEFINE s == renewal.store
             y == Renewed(row[s], renewal.pair)
             z == [renewal EXCEPT !.pc = "next", !.store = None, !.pair = 0]
  <2>1. renewal \in Renewal /\ s \in Store /\ Own(s, renewal.pair) /\ renewal.pc = "write"
    BY <1>11, <1>t DEF WriteRenewed, RenewalOK, Renewal, JobsOwn
  <2>2. y.access = renewal.pair /\ y.refresh = renewal.pair /\ y.account = row[s].account
    BY <1>r, <2>1 DEF Renewed, Row
  <2>3. row' = [row EXCEPT ![s] = y] /\ renewal' = z /\ UNCHANGED <<issued, sealing>>
        /\ Writes(s, Sealing(s))
    BY <1>11 DEF WriteRenewed, provider
  <2>4. z.pc = "next" /\ z.store = None /\ z.batch = renewal.batch
    BY <2>1 DEF Renewal
  <2>5. s \in overtaken \/ issued[renewal.pair].account = row[s].account
    BY <1>w, <2>1
  <2> HIDE DEF y, z, s
  <2>6. \A x \in Store : x # s => row'[x] = row[x]
    BY <1>t, <2>3
  <2>7. row'[s] = y
    BY <1>t, <2>1, <2>3
  <2>8. /\ overtaken \subseteq overtaken'
        /\ s \notin overtaken' => \A r \in sealing.batch : r.store # s
    BY <2>3 DEF Writes, Sealing
  <2>9. \A r \in renewal.batch : r.store # s
    BY <1>b DEF s
  <2>10. ASSUME NEW x \in Store \ overtaken'
         PROVE  /\ row'[x].access # 0 => issued'[row'[x].access].account = row'[x].account
                /\ row'[x].refresh # 0 => issued'[row'[x].refresh].account = row'[x].account
                /\ \A r \in renewal'.batch : r.store = x => r.refresh = row'[x].refresh
                /\ \A r \in sealing'.batch : r.store = x => /\ r.access = row'[x].access
                                                           /\ r.refresh = row'[x].refresh
    <3>1. CASE x = s
      BY <2>2, <2>3, <2>4, <2>5, <2>7, <2>8, <2>9, <3>1
    <3>2. CASE x # s
      BY <2>3, <2>4, <2>6, <2>8, <3>2 DEF SnapshotsInv
    <3> QED BY <3>1, <3>2
  <2>11. \A r \in renewal'.batch : r.refresh # 0 /\ r.store # renewal'.store
           /\ \A q \in renewal'.batch : q.store = r.store => q = r
    BY <1>r, <2>3, <2>4, NoneIsNothing DEF SnapshotsInv
  <2>12. renewal'.pc # "write"
    BY <2>3, <2>4
  <2> QED BY <2>10, <2>11, <2>12 DEF SnapshotsInv
<1>12. CASE Pause
  <2> DEFINE s == renewal.store
             y == [row[s] EXCEPT !.active = FALSE]
             z == [renewal EXCEPT !.pc = "next", !.store = None]
  <2>1. renewal \in Renewal /\ s \in Store
    BY <1>12, <1>t DEF Pause, RenewalOK, Renewal
  <2>2. y.access = row[s].access /\ y.refresh = row[s].refresh /\ y.account = row[s].account
    BY <1>r, <2>1 DEF Row
  <2>3. row' = [row EXCEPT ![s] = y] /\ renewal' = z /\ UNCHANGED <<issued, sealing, overtaken>>
    BY <1>12 DEF Pause, provider, history
  <2>4. z.pc = "next" /\ z.store = None /\ z.batch = renewal.batch
    BY <2>1 DEF Renewal
  <2> HIDE DEF s, y, z
  <2>5. \A x \in Store : /\ row'[x].access = row[x].access /\ row'[x].refresh = row[x].refresh
                         /\ row'[x].account = row[x].account
    BY <1>t, <2>2, <2>3
  <2> QED BY <1>r, <2>3, <2>4, <2>5, NoneIsNothing, QuietSnapshots
<1>13. CASE EndRenewal
  <2> DEFINE z == [renewal EXCEPT !.pc = "idle"]
  <2>1. renewal \in Renewal /\ renewal' = z /\ renewal.batch = {}
    BY <1>13, <1>t DEF EndRenewal, RenewalOK
  <2>2. z.pc = "idle" /\ z.store = renewal.store /\ z.batch = renewal.batch
    BY <2>1 DEF Renewal
  <2> HIDE DEF z
  <2>3. UNCHANGED <<row, issued, sealing, overtaken>>
    BY <1>13 DEF EndRenewal, provider, history
  <2> QED BY <2>1, <2>2, <2>3, QuietSnapshots
<1>14. CASE StartSealing
  <2> DEFINE b == {[store |-> s, access |-> row[s].access, refresh |-> row[s].refresh] :
                     s \in {x \in Store : ~row[x].sealed}}
  <2>1. \A r \in b : r.refresh = row[r.store].refresh /\ r.access = row[r.store].access
    OBVIOUS
  <2>2. sealing'.batch = b
    BY <1>14 DEF StartSealing, SnapshotOf
  <2> HIDE DEF b
  <2>3. UNCHANGED <<row, issued, renewal, overtaken>>
    BY <1>14 DEF StartSealing, SnapshotOf, provider, history
  <2> QED BY <2>1, <2>2, <2>3 DEF SnapshotsInv
<1>15. ASSUME NEW r \in sealing.batch, SealRow(r) PROVE SnapshotsInv'
  <2> DEFINE s == r.store
             y == [row[s] EXCEPT !.access = r.access, !.refresh = r.refresh, !.sealed = TRUE]
             z == [sealing EXCEPT !.batch = sealing.batch \ {r}]
  <2>1. s \in Store /\ row[s] \in Row
    BY <1>r
  <2>2. y.access = r.access /\ y.refresh = r.refresh /\ y.account = row[s].account
    BY <2>1 DEF Row
  <2>3. row' = [row EXCEPT ![s] = y] /\ sealing' = z
        /\ UNCHANGED <<issued, renewal>> /\ overtaken \subseteq overtaken'
    BY <1>15, <1>t, <2>1 DEF SealRow, Writes, provider
  <2>4. z.batch \subseteq sealing.batch
    BY <1>t DEF Sealings
  <2>5. s \notin overtaken => r.access = row[s].access /\ r.refresh = row[s].refresh
    BY <2>1 DEF SnapshotsInv
  <2> HIDE DEF s, y, z
  <2>6. \A x \in Store : x # s => row'[x] = row[x]
    BY <1>t, <2>3
  <2>7. row'[s] = y
    BY <1>t, <2>1, <2>3
  <2>8. ASSUME NEW x \in Store \ overtaken'
        PROVE  /\ row'[x].access = row[x].access /\ row'[x].refresh = row[x].refresh
               /\ row'[x].account = row[x].account
    <3>1. CASE x = s
      BY <2>2, <2>3, <2>5, <2>7, <3>1
    <3>2. CASE x # s
      BY <2>6, <3>2
    <3> QED BY <3>1, <3>2
  <2> QED BY <2>3, <2>4, <2>8 DEF SnapshotsInv
<1>16. CASE EndSealing
  <2>1. sealing'.batch = sealing.batch
    BY <1>16, <1>t DEF EndSealing, Sealings
  <2> QED BY <1>16, <1>q, <2>1 DEF EndSealing, provider, history
<1>17. ASSUME NEW s \in Store, Age(s) PROVE SnapshotsInv'
  <2> DEFINE y == [row[s] EXCEPT !.old = TRUE]
  <2>1. y.access = row[s].access /\ y.refresh = row[s].refresh /\ y.account = row[s].account
    BY <1>r DEF Row
  <2>2. row' = [row EXCEPT ![s] = y]
    BY <1>17 DEF Age
  <2> HIDE DEF y
  <2>3. UNCHANGED <<issued, renewal, overtaken, sealing>>
    BY <1>17 DEF Age, provider, jobs, history
  <2> QED BY <1>t, <1>q, <2>1, <2>2, <2>3
<1>18. CASE CrashRenewal
  <2>1. renewal'.pc = "idle" /\ renewal'.batch = {}
    BY <1>18 DEF CrashRenewal
  <2>2. UNCHANGED <<row, issued, sealing, overtaken>>
    BY <1>18 DEF CrashRenewal, provider
  <2> QED BY <2>1, <2>2, QuietSnapshots
<1>19. CASE UNCHANGED vars
  BY <1>19, <1>q DEF vars, provider, jobs, history
<1> QED BY <1>1, <1>2, <1>3, <1>4, <1>5, <1>6, <1>7, <1>8, <1>9, <1>10, <1>11, <1>12, <1>13,
           <1>14, <1>15, <1>16, <1>17, <1>18, <1>19 DEF Next, Request, RenewalStep, Sealer

-----------------------------------------------------------------------------
(* Pairs that nobody uses yet: those a request or the job was just given.  No
   row and no snapshot shows them, so none of them is spent. *)
Held ==
  {row[s].refresh : s \in Store} \cup {r.refresh : r \in renewal.batch \cup sealing.batch}

FreshInv ==
  /\ \A s \in Store \ (overtaken \cup lost) :
       row[s].refresh \in spent => renewal.pc = "write" /\ renewal.store = s
  /\ \A h \in Handler : task[h].pc = "upsert" =>
       /\ task[h].pair \notin spent \cup Held
       /\ \A g \in Handler : task[g].pc = "upsert" /\ task[g].pair = task[h].pair => g = h
  /\ renewal.pc = "write" =>
       /\ renewal.pair \notin spent \cup Held
       /\ \A h \in Handler : task[h].pc = "upsert" => task[h].pair # renewal.pair

Inv == SnapshotsInv /\ FreshInv

LEMMA InvInit == Init => Inv
<1> SUFFICES ASSUME Init PROVE FreshInv
  BY SnapshotsInit DEF Inv
<1>1. /\ spent = {} /\ renewal.pc = "idle" /\ \A h \in Handler : task[h].pc = "idle"
  BY DEF Init, Idle
<1> QED BY <1>1 DEF FreshInv

(* Pairs are numbered from 1, and every pair that is used was issued. *)
LEMMA Numbers ==
  ASSUME TypeInv
  PROVE  /\ 0 \notin DOMAIN issued /\ spent \subseteq DOMAIN issued
         /\ Held \subseteq DOMAIN issued \cup {0}
         /\ \A h \in Handler : task[h].pc = "upsert" => task[h].pair \in DOMAIN issued
         /\ renewal.pc = "write" => renewal.pair \in DOMAIN issued
<1>1. issued \in Seq(Grant) /\ spent \subseteq DOMAIN issued
  BY TypeParts DEF RestOK
<1>2. 0 \notin DOMAIN issued
  BY <1>1
<1> QED BY <1>1, <1>2, TypeParts DEF Held, RowsOwn, JobsOwn, TasksOwn, Own

(* A step that gives nobody a pair and spends none. *)
LEMMA QuietInv ==
  ASSUME TypeInv, FreshInv, UNCHANGED <<spent, task>>,
         overtaken \subseteq overtaken', lost \subseteq lost',
         \A s \in Store : \/ row'[s].refresh \in {row[s].refresh, 0}
                          \/ s \in overtaken' /\ row'[s].refresh \in Held,
         \A r \in renewal'.batch \cup sealing'.batch : r.refresh \in Held,
         renewal'.pc = "write" =>
           renewal.pc = "write" /\ renewal'.store = renewal.store /\ renewal'.pair = renewal.pair,
         renewal.pc = "write" => renewal'.pc = "write" \/ renewal.store \in lost'
  PROVE  FreshInv'
<1>1. Held' \subseteq Held \cup {0}
  BY DEF Held
<1>2. /\ 0 \notin spent
      /\ \A h \in Handler : task[h].pc = "upsert" => task[h].pair # 0
      /\ renewal.pc = "write" => renewal.pair # 0
  BY Numbers
<1>3. ASSUME NEW s \in Store \ (overtaken' \cup lost'), row'[s].refresh \in spent'
      PROVE  renewal'.pc = "write" /\ renewal'.store = s
  <2>1. row'[s].refresh = row[s].refresh
    BY <1>2, <1>3
  <2>2. renewal.pc = "write" /\ renewal.store = s
    BY <1>3, <2>1 DEF FreshInv
  <2> QED BY <1>3, <2>2
<1>4. \A h \in Handler : task'[h].pc = "upsert" =>
        /\ task'[h].pair \notin spent' \cup Held'
        /\ \A g \in Handler : task'[g].pc = "upsert" /\ task'[g].pair = task'[h].pair => g = h
  BY <1>1, <1>2 DEF FreshInv
<1>5. renewal'.pc = "write" =>
        /\ renewal'.pair \notin spent' \cup Held'
        /\ \A h \in Handler : task'[h].pc = "upsert" => task'[h].pair # renewal'.pair
  BY <1>1, <1>2 DEF FreshInv
<1> QED BY <1>3, <1>4, <1>5 DEF FreshInv

LEMMA GivenStep ==
  ASSUME TypeInv, Inv,
         \/ \E s \in Store, h \in Handler, u \in Actor, l \in links : ExchangeCode(h, s, u, l)
         \/ \E h \in Handler : Upsert(h)
         \/ \E r \in renewal.batch : Renew(r)
         \/ WriteRenewed
  PROVE  FreshInv'
<1>t. /\ RestOK /\ row \in [Store -> Row] /\ task \in [Handler -> Task]
      /\ RenewalOK /\ sealing \in Sealings /\ RowsOwn /\ TasksOwn /\ JobsOwn
      /\ SnapshotsInv /\ FreshInv
  BY TypeParts DEF Inv
<1>r. /\ \A s \in Store : row[s] \in Row
      /\ \A r \in renewal.batch \cup sealing.batch : r.store \in Store
  BY <1>t DEF RenewalOK, Renewal, Sealings, Snapshot
<1>n. /\ 0 \notin DOMAIN issued /\ spent \subseteq DOMAIN issued
      /\ Held \subseteq DOMAIN issued \cup {0}
      /\ \A h \in Handler : task[h].pc = "upsert" => task[h].pair \in DOMAIN issued
      /\ renewal.pc = "write" => renewal.pair \in DOMAIN issued
  BY Numbers
<1>1. ASSUME NEW s \in Store, NEW h \in Handler, NEW u \in Actor, NEW l \in links,
             ExchangeCode(h, s, u, l)
      PROVE  FreshInv'
  <2> DEFINE n == Len(issued) + 1
             y == [pc |-> "upsert", store |-> s, account |-> l.account, pair |-> n]
  <2>1. [account |-> l.account, store |-> l.store] \in Grant
        /\ Issue([account |-> l.account, store |-> l.store])
    BY <1>1, <1>t DEF ExchangeCode, Link, Grant, RestOK
  <2>2. n \notin DOMAIN issued /\ n # 0
    <3>1. n \in Pair
      BY <2>1, IssueTypes
    <3> QED BY <2>1, <3>1, IssueTypes DEF Pair
  <2>3. /\ task' = [task EXCEPT ![h] = y] \/ task' = task
        /\ UNCHANGED <<row, spent, renewal, sealing, lost, overtaken>>
    BY <1>1 DEF ExchangeCode, jobs, history
  <2>4. y.pair = n
    OBVIOUS
  <2> HIDE DEF n, y
  <2>5. Held' = Held
    BY <2>3 DEF Held
  <2>6. \A g \in Handler : task'[g] = task[g] \/ (g = h /\ task'[g].pair = n)
    BY <1>t, <2>3, <2>4
  <2>7. FreshInv'
    <3>1. \A g \in Handler : task'[g].pc = "upsert" =>
            /\ task'[g].pair \notin spent' \cup Held'
            /\ \A k \in Handler : task'[k].pc = "upsert" /\ task'[k].pair = task'[g].pair => k = g
      BY <1>t, <1>n, <2>2, <2>3, <2>5, <2>6 DEF FreshInv
    <3>2. renewal'.pc = "write" =>
            /\ renewal'.pair \notin spent' \cup Held'
            /\ \A g \in Handler : task'[g].pc = "upsert" => task'[g].pair # renewal'.pair
      BY <1>t, <1>n, <2>2, <2>3, <2>5, <2>6 DEF FreshInv
    <3> QED BY <1>t, <2>3, <3>1, <3>2 DEF FreshInv
  <2> QED BY <2>7
<1>2. ASSUME NEW h \in Handler, Upsert(h) PROVE FreshInv'
  <2> DEFINE s == task[h].store
             n == task[h].pair
             y == [account |-> task[h].account, access |-> n,
                   refresh |-> n, active |-> TRUE, sealed |-> TRUE, old |-> FALSE]
  <2>1. /\ s \in Store /\ task[h].pc = "upsert" /\ n \notin spent \cup Held
    BY <1>2, <1>t DEF Upsert, TasksOwn, FreshInv
  <2>2. y.refresh = n
    OBVIOUS
  <2>3. /\ row' = [row EXCEPT ![s] = y] /\ task' = [task EXCEPT ![h] = Idle]
        /\ UNCHANGED <<spent, renewal, sealing, lost>>
        /\ overtaken \subseteq overtaken'
    BY <1>2 DEF Upsert, Writes, provider, jobs
  <2> HIDE DEF s, n, y
  <2>4. Held' \subseteq Held \cup {n}
    BY <1>t, <2>2, <2>3 DEF Held
  <2>5. \A g \in Handler : task'[g].pc = "upsert" => task'[g] = task[g] /\ task[g].pair # n
    BY <1>t, <2>1, <2>3 DEF Idle, FreshInv, n
  <2>6. \A g \in Handler : task'[g].pc = "upsert" =>
          /\ task'[g].pair \notin spent' \cup Held'
          /\ \A k \in Handler : task'[k].pc = "upsert" /\ task'[k].pair = task'[g].pair => k = g
    BY <1>t, <2>3, <2>4, <2>5 DEF FreshInv
  <2>7. renewal'.pc = "write" =>
          /\ renewal'.pair \notin spent' \cup Held'
          /\ \A g \in Handler : task'[g].pc = "upsert" => task'[g].pair # renewal'.pair
    BY <1>t, <2>1, <2>3, <2>4, <2>5 DEF FreshInv, n
  <2>8. \A x \in Store : row'[x] = IF x = s THEN y ELSE row[x]
    BY <1>t, <2>3
  <2> QED BY <1>t, <2>1, <2>2, <2>3, <2>6, <2>7, <2>8 DEF FreshInv
<1>k. ASSUME NEW r \in renewal.batch, NEW pc \in {"next", "write"}, NEW n, Take(r, pc, n)
      PROVE  /\ renewal'.pc = pc /\ renewal'.pair = n
             /\ renewal'.batch \subseteq renewal.batch
             /\ renewal'.store = IF pc = "next" THEN None ELSE r.store
  BY <1>k DEF Take
<1>3. ASSUME NEW r \in renewal.batch, Renew(r) PROVE FreshInv'
  <2> DEFINE g == issued[r.refresh]
             n == Len(issued) + 1
             s == r.store
  <2>1. Own(s, r.refresh) /\ s \in Store /\ r.refresh \in Held /\ r.refresh # 0
    BY <1>t, <1>r DEF JobsOwn, Held, SnapshotsInv
  <2>2. g \in Grant /\ Issue(g)
    BY <1>3, <1>t, <2>1, ElementType DEF Renew, RestOK, Own
  <2>3. n \notin DOMAIN issued /\ n # 0
    <3>1. n \in Pair
      BY <2>2, IssueTypes
    <3> QED BY <2>2, <3>1, IssueTypes DEF Pair
  <2>4. \/ Take(r, "write", n) /\ UNCHANGED lost
        \/ Take(r, "next", 0) /\ lost' = lost \cup {s}
    BY <1>3 DEF Renew
  <2>5. /\ spent' = spent \cup {r.refresh} /\ renewal.pc = "next"
        /\ UNCHANGED <<row, task, sealing, wants, overtaken>>
    BY <1>3 DEF Renew
  <2> HIDE DEF g, n, s
  <2>6. /\ renewal'.batch \subseteq renewal.batch
        /\ \/ renewal'.pc = "write" /\ renewal'.store = s /\ renewal'.pair = n /\ lost' = lost
           \/ renewal'.pc = "next" /\ lost' = lost \cup {s}
    BY <1>k, <2>4 DEF s
  <2>7. Held' \subseteq Held
    BY <2>5, <2>6 DEF Held
  <2>8. \A x \in Store : row[x].refresh = r.refresh => x = s
    BY <1>t, <2>1 DEF RowsOwn, Own
  <2>9. \A x \in Store \ (overtaken' \cup lost') :
          row'[x].refresh \in spent' => renewal'.pc = "write" /\ renewal'.store = x
    BY <1>t, <2>5, <2>6, <2>8 DEF FreshInv
  <2>10. \A h \in Handler : task'[h].pc = "upsert" =>
           /\ task'[h].pair \notin spent' \cup Held'
           /\ \A k \in Handler : task'[k].pc = "upsert" /\ task'[k].pair = task'[h].pair => k = h
    BY <1>t, <2>1, <2>5, <2>7 DEF FreshInv
  <2>11. renewal'.pc = "write" =>
           /\ renewal'.pair \notin spent' \cup Held'
           /\ \A h \in Handler : task'[h].pc = "upsert" => task'[h].pair # renewal'.pair
    BY <1>n, <2>1, <2>3, <2>5, <2>6, <2>7
  <2> QED BY <2>9, <2>10, <2>11 DEF FreshInv
<1>4. CASE WriteRenewed
  <2> DEFINE s == renewal.store
             n == renewal.pair
             y == Renewed(row[s], n)
             z == [renewal EXCEPT !.pc = "next", !.store = None, !.pair = 0]
  <2>1. /\ renewal \in Renewal /\ s \in Store /\ renewal.pc = "write"
        /\ n \notin spent \cup Held
        /\ \A h \in Handler : task[h].pc = "upsert" => task[h].pair # n
    BY <1>4, <1>t DEF WriteRenewed, RenewalOK, Renewal, FreshInv
  <2>2. y.refresh = n /\ y.active = row[s].active
    BY <1>r, <2>1 DEF Renewed, Row
  <2>3. /\ row' = [row EXCEPT ![s] = y] /\ renewal' = z
        /\ UNCHANGED <<spent, task, sealing, lost, wants>> /\ overtaken \subseteq overtaken'
    BY <1>4 DEF WriteRenewed, Writes, provider
  <2>4. z.pc = "next" /\ z.batch = renewal.batch
    BY <2>1 DEF Renewal
  <2> HIDE DEF y, z, n
  <2>5. \A x \in Store : row'[x] = IF x = s THEN y ELSE row[x]
    BY <1>t, <2>3
  <2>6. Held' \subseteq Held \cup {n}
    BY <2>2, <2>3, <2>4, <2>5 DEF Held
  <2>7. \A h \in Handler : task'[h].pc = "upsert" =>
          /\ task'[h].pair \notin spent' \cup Held'
          /\ \A k \in Handler : task'[k].pc = "upsert" /\ task'[k].pair = task'[h].pair => k = h
    BY <1>t, <2>1, <2>3, <2>6 DEF FreshInv
  <2> QED BY <1>t, <2>1, <2>2, <2>3, <2>4, <2>5, <2>7 DEF FreshInv
<1> QED BY <1>1, <1>2, <1>3, <1>4

LEMMA InvStep == TypeInv /\ Inv /\ [Next]_vars => Inv'
<1> SUFFICES ASSUME TypeInv, Inv, [Next]_vars PROVE FreshInv'
  BY SnapshotsStep DEF Inv
<1>t. /\ RestOK /\ row \in [Store -> Row] /\ task \in [Handler -> Task]
      /\ RenewalOK /\ sealing \in Sealings
      /\ SnapshotsInv /\ FreshInv
  BY TypeParts DEF Inv
<1>r. /\ \A s \in Store : row[s] \in Row
      /\ \A r \in renewal.batch \cup sealing.batch : r.store \in Store /\ r.refresh \in Held
      /\ \A s \in Store : row[s].refresh \in Held
  BY <1>t DEF RenewalOK, Renewal, Sealings, Snapshot, Held
<1>q. ASSUME UNCHANGED <<spent, task, wants, renewal, sealing, lost, overtaken>>,
             \A s \in Store : /\ row'[s].refresh = row[s].refresh
                              /\ row'[s].active => row[s].active
      PROVE  FreshInv'
  BY <1>q, <1>t, <1>r, QuietInv
<1>1. ASSUME NEW s \in Store, NEW u \in Actor, NEW a \in Account, Authorize(s, u, a)
      PROVE  FreshInv'
  BY <1>1, <1>q DEF Authorize, provider, jobs, history
<1>2. ASSUME NEW l \in links, LinkExpires(l) PROVE FreshInv'
  BY <1>2, <1>q DEF LinkExpires, provider, jobs, history
<1>3. ASSUME \/ \E s \in Store, h \in Handler, u \in Actor, l \in links : ExchangeCode(h, s, u, l)
             \/ \E h \in Handler : Upsert(h)
             \/ \E r \in renewal.batch : Renew(r)
             \/ WriteRenewed
      PROVE  FreshInv'
  BY <1>3, GivenStep
<1>5. ASSUME NEW s \in Store, Disconnect(s) PROVE FreshInv'
  <2> DEFINE y == Disconnected(row[s])
  <2>1. y.refresh = 0 /\ y.active = FALSE
    BY <1>r DEF Disconnected, Row
  <2>2. /\ row' = [row EXCEPT ![s] = y] /\ UNCHANGED <<spent, renewal, sealing, task, lost>>
        /\ Writes(s, Renewing(s) \/ Sealing(s))
    BY <1>5 DEF Disconnect, provider, jobs
  <2> HIDE DEF y
  <2>3. /\ overtaken \subseteq overtaken'
        /\ s \notin overtaken' => renewal.store # s
    BY <2>2 DEF Writes, Renewing
  <2>4. \A x \in Store : row'[x] = IF x = s THEN y ELSE row[x]
    BY <1>t, <2>2
  <2>5. \A x \in Store : row'[x].refresh \in {row[x].refresh, 0}
    BY <2>1, <2>4
  <2> QED BY <1>t, <1>r, <2>2, <2>3, <2>5, QuietInv
<1>6. ASSUME NEW a \in Account, Unlink(a) PROVE FreshInv'
  BY <1>6, <1>q DEF Unlink, jobs, history
<1>7. ASSUME NEW a \in Account, Deauthorize(a) PROVE FreshInv'
  <2>1. ASSUME NEW s \in Store
        PROVE  row'[s].refresh = row[s].refresh /\ (row'[s].active => row[s].active)
    BY <1>7, <1>r DEF Deauthorize, Row
  <2> QED BY <1>7, <1>q, <2>1 DEF Deauthorize, jobs, history
<1>8. CASE StartRenewal
  <2>p. PICK read \in SUBSET Store :
          /\ \A s \in read : Expiring(s)
          /\ renewal' = [renewal EXCEPT !.pc = "next",
               !.batch = {[store |-> s, access |-> row[s].access,
                           refresh |-> row[s].refresh] : s \in read}]
    BY <1>8, RenewalReads
  <2> DEFINE b == {[store |-> s, access |-> row[s].access, refresh |-> row[s].refresh] :
                     s \in read}
             y == [renewal EXCEPT !.pc = "next", !.batch = b]
  <2>1. \A r \in b : r.refresh \in Held
    BY <1>r
  <2>2. renewal' = y /\ renewal \in Renewal /\ renewal.pc = "idle"
    BY <1>8, <1>t, <2>p DEF StartRenewal, RenewalOK
  <2> HIDE DEF b
  <2>3. y.pc = "next" /\ y.batch = b
    BY <2>2 DEF Renewal
  <2> HIDE DEF y
  <2>4. UNCHANGED <<row, spent, task, sealing, lost, overtaken>>
    BY <1>8 DEF StartRenewal, provider, history
  <2> QED BY <1>t, <1>r, <2>1, <2>2, <2>3, <2>4, QuietInv
<1>10. ASSUME NEW r \in renewal.batch, RenewFails(r) PROVE FreshInv'
  <2>1. \E pc \in {"next", "pause"} : Take(r, pc, 0)
    BY <1>10 DEF RenewFails, Refused
  <2>2. renewal'.batch \subseteq renewal.batch /\ renewal'.pc # "write" /\ renewal.pc = "next"
    BY <1>10, <2>1 DEF Take, RenewFails
  <2>3. UNCHANGED <<row, spent, task, sealing, lost, overtaken>>
    BY <1>10 DEF RenewFails, provider, history
  <2> QED BY <1>t, <1>r, <2>2, <2>3, QuietInv
<1>12. CASE Pause
  <2> DEFINE s == renewal.store
             y == [row[s] EXCEPT !.active = FALSE]
             z == [renewal EXCEPT !.pc = "next", !.store = None]
  <2>1. renewal \in Renewal /\ s \in Store /\ renewal.pc = "pause"
    BY <1>12, <1>t DEF Pause, RenewalOK, Renewal
  <2>2. y.refresh = row[s].refresh /\ y.active = FALSE
    BY <1>r, <2>1 DEF Row
  <2>3. row' = [row EXCEPT ![s] = y] /\ renewal' = z
        /\ UNCHANGED <<spent, task, sealing, lost, overtaken>>
    BY <1>12 DEF Pause, provider, history
  <2>4. z.pc = "next" /\ z.batch = renewal.batch
    BY <2>1 DEF Renewal
  <2> HIDE DEF s, y, z
  <2>5. \A x \in Store : row'[x].refresh = row[x].refresh /\ (row'[x].active => row[x].active)
    BY <1>t, <2>2, <2>3
  <2> QED BY <1>t, <1>r, <2>1, <2>3, <2>4, <2>5, QuietInv
<1>13. CASE EndRenewal
  <2> DEFINE z == [renewal EXCEPT !.pc = "idle"]
  <2>1. renewal \in Renewal /\ renewal' = z /\ renewal.pc = "next"
    BY <1>13, <1>t DEF EndRenewal, RenewalOK
  <2>2. z.pc = "idle" /\ z.batch = renewal.batch
    BY <2>1 DEF Renewal
  <2> HIDE DEF z
  <2>3. UNCHANGED <<row, spent, task, sealing, lost, overtaken>>
    BY <1>13 DEF EndRenewal, provider, history
  <2> QED BY <1>t, <1>r, <2>1, <2>2, <2>3, QuietInv
<1>14. CASE StartSealing
  <2> DEFINE b == {[store |-> s, access |-> row[s].access, refresh |-> row[s].refresh] :
                     s \in {x \in Store : ~row[x].sealed}}
  <2>1. \A r \in b : r.refresh \in Held
    BY <1>r
  <2>2. sealing'.batch = b
    BY <1>14 DEF StartSealing, SnapshotOf
  <2> HIDE DEF b
  <2>3. UNCHANGED <<row, spent, task, renewal, wants, lost, overtaken>>
    BY <1>14 DEF StartSealing, SnapshotOf, provider, history
  <2> QED BY <1>t, <1>r, <2>1, <2>2, <2>3, QuietInv
<1>15. ASSUME NEW r \in sealing.batch, SealRow(r) PROVE FreshInv'
  <2> DEFINE s == r.store
             y == [row[s] EXCEPT !.access = r.access, !.refresh = r.refresh, !.sealed = TRUE]
             z == [sealing EXCEPT !.batch = sealing.batch \ {r}]
  <2>1. s \in Store /\ row[s] \in Row
    BY <1>r
  <2>2. y.refresh = r.refresh /\ y.active = row[s].active
    BY <2>1 DEF Row
  <2>3. row' = [row EXCEPT ![s] = y] /\ sealing' = z
        /\ UNCHANGED <<spent, task, renewal, wants, lost>> /\ overtaken \subseteq overtaken'
    BY <1>15, <1>t, <2>1 DEF SealRow, Writes, provider
  <2>4. z.batch \subseteq sealing.batch
    BY <1>t DEF Sealings
  <2>5. s \notin overtaken' => r.refresh = row[s].refresh
    BY <1>t, <2>1, <2>3 DEF SnapshotsInv
  <2> HIDE DEF s, y, z
  <2>6. \A x \in Store : row'[x] = IF x = s THEN y ELSE row[x]
    BY <1>t, <2>3
  <2>7. \A x \in Store : \/ row'[x].refresh \in {row[x].refresh, 0}
                         \/ x \in overtaken' /\ row'[x].refresh \in Held
    BY <1>r, <2>2, <2>5, <2>6
  <2>8. \A x \in Store : row'[x].active => row[x].active
    BY <2>2, <2>6
  <2> QED BY <1>t, <1>r, <2>3, <2>4, <2>7, <2>8, QuietInv
<1>16. CASE EndSealing
  <2>1. sealing'.batch = sealing.batch
    BY <1>16, <1>t DEF EndSealing, Sealings
  <2>2. UNCHANGED <<row, spent, task, renewal, wants, lost, overtaken>>
    BY <1>16 DEF EndSealing, provider, history
  <2> QED BY <1>t, <1>r, <2>1, <2>2, QuietInv
<1>17. ASSUME NEW s \in Store, Age(s) PROVE FreshInv'
  <2> DEFINE y == [row[s] EXCEPT !.old = TRUE]
  <2>1. y.refresh = row[s].refresh /\ y.active = row[s].active
    BY <1>r DEF Row
  <2>2. row' = [row EXCEPT ![s] = y]
    BY <1>17 DEF Age
  <2> HIDE DEF y
  <2>3. UNCHANGED <<spent, task, wants, renewal, sealing, lost, overtaken>>
    BY <1>17 DEF Age, provider, jobs, history
  <2> QED BY <1>t, <1>q, <2>1, <2>2, <2>3
<1>18. CASE CrashRenewal
  <2>1. renewal'.pc = "idle" /\ renewal'.batch = {}
    BY <1>18 DEF CrashRenewal
  <2>2. UNCHANGED <<row, spent, task, sealing, wants, overtaken>>
    BY <1>18 DEF CrashRenewal, provider
  <2>3. lost \subseteq lost' /\ (renewal.pc = "write" => renewal.store \in lost')
    BY <1>18 DEF CrashRenewal
  <2> QED BY <1>t, <1>r, <2>1, <2>2, <2>3, QuietInv
<1>19. CASE UNCHANGED vars
  BY <1>19, <1>q DEF vars, provider, jobs, history
<1> QED BY <1>1, <1>2, <1>3, <1>5, <1>6, <1>7, <1>8, <1>10, <1>12, <1>13,
           <1>14, <1>15, <1>16, <1>17, <1>18, <1>19 DEF Next, Request, RenewalStep, Sealer

(* The tokens of a row were authorized for its store, are of the account it
   shows and were not used up, for any interleaving of connections, renewals,
   sealing and crashes in which no second writer came between. *)
THEOREM TokensAreOwn == Spec => []TokenIsOwn
<1>1. Init => TypeInv /\ Inv
  BY TypeInit, InvInit
<1>2. TypeInv /\ Inv /\ [Next]_vars => (TypeInv /\ Inv)'
  BY TypeStep, InvStep
<1>3. TypeInv /\ Inv => TokenIsOwn
  <2> SUFFICES ASSUME TypeInv, Inv PROVE TokenIsOwn
    OBVIOUS
  <2>1. RowsOwn /\ SnapshotsInv /\ FreshInv
    BY TypeParts DEF Inv
  <2>2. TokenIsItsStores
    BY <2>1 DEF TokenIsItsStores, RowsOwn, SnapshotsInv, Own
  <2>3. NeverSpent
    BY <2>1 DEF NeverSpent, FreshInv
  <2> QED BY <2>2, <2>3 DEF TokenIsOwn
<1> QED BY <1>1, <1>2, <1>3, PTL DEF Spec

-----------------------------------------------------------------------------
(* Disconnections.  What can bring back a token, or the connection, of a store
   that wants neither was under way when it disconnected, and is recorded. *)
SealsToken(s) == \E r \in sealing.batch : r.store = s /\ r.refresh # 0

OffInv ==
  \A s \in Store : wants[s] = "off" =>
    /\ row[s].active \/ Completing(s) => "completion" \in crossed[s]
    /\ row[s].refresh # 0 \/ Renewing(s) \/ SealsToken(s) => crossed[s] # {}

(* A step that starts nothing for a store, and writes only what was under way. *)
Quiet(s) ==
  /\ wants[s] = "off" /\ crossed'[s] = crossed[s]
  /\ row'[s].active => row[s].active \/ Completing(s)
  /\ Completing(s)' => Completing(s)
  /\ row'[s].refresh # 0 =>
       row[s].refresh # 0 \/ Completing(s) \/ Renewing(s) \/ SealsToken(s)
  /\ Renewing(s)' => Renewing(s) \/ row[s].refresh # 0
  /\ SealsToken(s)' => SealsToken(s) \/ row[s].refresh # 0

LEMMA OffInit == Init => OffInv
<1> SUFFICES ASSUME Init PROVE OffInv
  OBVIOUS
<1>1. \A s \in Store : wants[s] = "off" => ~row[s].active /\ row[s].refresh = 0
  BY DEF Init, NoRow
<1>2. /\ \A h \in Handler : task[h].pc = "idle"
      /\ renewal.store = None /\ renewal.batch = {} /\ sealing.batch = {}
  BY DEF Init, Idle
<1> QED BY <1>1, <1>2, NoneIsNothing DEF OffInv, Completing, Renewing, SealsToken

LEMMA QuietOff ==
  ASSUME OffInv, \A s \in Store : wants'[s] = "off" => Quiet(s)
  PROVE  OffInv'
<1> SUFFICES ASSUME NEW s \in Store, wants'[s] = "off"
             PROVE  /\ row'[s].active \/ Completing(s)' => "completion" \in crossed'[s]
                    /\ row'[s].refresh # 0 \/ Renewing(s)' \/ SealsToken(s)' => crossed'[s] # {}
  BY DEF OffInv
<1>1. Quiet(s)
  OBVIOUS
<1>2. /\ row[s].active \/ Completing(s) => "completion" \in crossed[s]
      /\ row[s].refresh # 0 \/ Renewing(s) \/ SealsToken(s) => crossed[s] # {}
  BY <1>1 DEF Quiet, OffInv
<1> QED BY <1>1, <1>2 DEF Quiet

LEMMA OffStep == TypeInv /\ OffInv /\ [Next]_vars => OffInv'
<1> SUFFICES ASSUME TypeInv, OffInv, [Next]_vars PROVE OffInv'
  OBVIOUS
<1>t. /\ RestOK /\ row \in [Store -> Row] /\ task \in [Handler -> Task]
      /\ RenewalOK /\ sealing \in Sealings /\ TasksOwn
  BY TypeParts
<1>r. /\ \A s \in Store : row[s] \in Row
      /\ \A r \in renewal.batch \cup sealing.batch : r.store \in Store
      /\ None \notin Store
  BY <1>t, NoneIsNothing DEF RenewalOK, Renewal, Sealings, Snapshot
(* Steps that take from what is under way and give no row a token. *)
<1>q. ASSUME UNCHANGED <<wants, crossed>>, UNCHANGED task,
             \A s \in Store : /\ row'[s].refresh = row[s].refresh
                              /\ row'[s].active => row[s].active,
             renewal'.batch \subseteq renewal.batch, sealing'.batch \subseteq sealing.batch,
             \/ renewal'.store \in {renewal.store, None}
             \/ \E r \in renewal.batch : renewal'.store = r.store
      PROVE  OffInv'
  BY <1>q, <1>r, QuietOff DEF Quiet, Completing, Renewing, SealsToken
<1>1. ASSUME NEW s \in Store, NEW u \in Actor, NEW a \in Account, Authorize(s, u, a)
      PROVE  OffInv'
  BY <1>1, <1>q DEF Authorize, provider, jobs, history
<1>2. ASSUME NEW l \in links, LinkExpires(l) PROVE OffInv'
  BY <1>2, <1>q DEF LinkExpires, provider, jobs, history
<1>3. ASSUME NEW s \in Store, NEW h \in Handler, NEW u \in Actor, NEW l \in links,
             ExchangeCode(h, s, u, l)
      PROVE  OffInv'
  <2> DEFINE y == [pc |-> "upsert", store |-> s, account |-> l.account,
                   pair |-> Len(issued) + 1]
  <2>1. /\ task' = [task EXCEPT ![h] = y] \/ task' = task
        /\ wants' = [wants EXCEPT ![s] = "on"]
        /\ UNCHANGED <<row, renewal, sealing, crossed>>
    BY <1>3 DEF ExchangeCode, jobs
  <2>2. y.store = s
    OBVIOUS
  <2> HIDE DEF y
  <2>3. ASSUME NEW x \in Store, wants'[x] = "off" PROVE Quiet(x)
    <3>1. x # s /\ wants[x] = "off"
      BY <1>t, <2>1, <2>3 DEF RestOK
    <3>2. Completing(x)' => Completing(x)
      BY <1>t, <2>1, <2>2, <3>1 DEF Completing
    <3> QED BY <2>1, <3>1, <3>2 DEF Quiet, Renewing, SealsToken
  <2> QED BY <2>3, QuietOff
<1>4. ASSUME NEW h \in Handler, Upsert(h) PROVE OffInv'
  <2> DEFINE s == task[h].store
             y == [account |-> task[h].account, access |-> task[h].pair,
                   refresh |-> task[h].pair, active |-> TRUE, sealed |-> TRUE, old |-> FALSE]
  <2>1. /\ row' = [row EXCEPT ![s] = y] /\ task' = [task EXCEPT ![h] = Idle]
        /\ task[h].pc = "upsert" /\ UNCHANGED <<wants, crossed, renewal, sealing>>
    BY <1>4 DEF Upsert, jobs
  <2> HIDE DEF y
  <2>2. Completing(s)
    BY <2>1 DEF Completing
  <2> HIDE DEF s
  <2>3. \A x \in Store : row'[x] = row[x] \/ Completing(x)
    BY <1>t, <2>1, <2>2
  <2>4. \A x \in Store : Completing(x)' => Completing(x)
    BY <1>t, <2>1 DEF Completing, Idle
  <2> QED BY <2>1, <2>3, <2>4, QuietOff DEF Quiet, Renewing, SealsToken
<1>5. ASSUME NEW s \in Store, Disconnect(s) PROVE OffInv'
  <2> DEFINE y == Disconnected(row[s])
             c == {x \in {"completion", "job"} :
                     IF x = "job" THEN Renewing(s) \/ Sealing(s) ELSE Completing(s)}
  <2>1. y.refresh = 0 /\ y.active = FALSE
    BY <1>r DEF Disconnected, Row
  <2>2. /\ row' = [row EXCEPT ![s] = y] /\ UNCHANGED <<renewal, sealing, task>>
        /\ wants' = [wants EXCEPT ![s] = "off"]
        /\ crossed' = [crossed EXCEPT ![s] = c]
    BY <1>5 DEF Disconnect, provider, jobs
  <2>3. /\ Completing(s) => "completion" \in c
        /\ Renewing(s) \/ SealsToken(s) => c # {}
    <3>1. Renewing(s) \/ SealsToken(s) => "job" \in c
      BY DEF Sealing, SealsToken
    <3> QED BY <3>1
  <2> HIDE DEF y, c
  <2>4. ASSUME NEW x \in Store, wants'[x] = "off"
        PROVE  /\ row'[x].active \/ Completing(x)' => "completion" \in crossed'[x]
               /\ row'[x].refresh # 0 \/ Renewing(x)' \/ SealsToken(x)' => crossed'[x] # {}
    <3>1. /\ Completing(x)' <=> Completing(x)
          /\ Renewing(x)' <=> Renewing(x)
          /\ SealsToken(x)' <=> SealsToken(x)
      BY <2>2 DEF Completing, Renewing, SealsToken
    <3>2. CASE x = s
      <4>1. crossed'[x] = c /\ row'[x] = y
        BY <1>t, <2>2, <3>2 DEF RestOK
      <4> QED BY <2>1, <2>3, <3>1, <3>2, <4>1
    <3>3. CASE x # s
      <4>1. crossed'[x] = crossed[x] /\ row'[x] = row[x] /\ wants[x] = "off"
        BY <1>t, <2>2, <2>4, <3>3 DEF RestOK
      <4> QED BY <3>1, <4>1 DEF OffInv
    <3> QED BY <3>2, <3>3
  <2> QED BY <2>4 DEF OffInv
<1>6. ASSUME NEW a \in Account, Unlink(a) PROVE OffInv'
  BY <1>6, <1>q DEF Unlink, jobs, history
<1>7. ASSUME NEW a \in Account, Deauthorize(a) PROVE OffInv'
  <2>1. ASSUME NEW s \in Store
        PROVE  row'[s].refresh = row[s].refresh /\ (row'[s].active => row[s].active)
    BY <1>7, <1>r DEF Deauthorize, Row
  <2> QED BY <1>7, <1>q, <2>1 DEF Deauthorize, jobs, history
<1>8. CASE StartRenewal
  <2>p. PICK read \in SUBSET Store :
          /\ \A s \in read : Expiring(s)
          /\ renewal' = [renewal EXCEPT !.pc = "next",
               !.batch = {[store |-> s, access |-> row[s].access,
                           refresh |-> row[s].refresh] : s \in read}]
    BY <1>8, RenewalReads
  <2> DEFINE b == {[store |-> s, access |-> row[s].access, refresh |-> row[s].refresh] :
                     s \in read}
             y == [renewal EXCEPT !.pc = "next", !.batch = b]
  <2>1. \A r \in b : r.store \in Store /\ row[r.store].refresh # 0
    BY <2>p DEF Expiring
  <2>2. renewal' = y /\ renewal \in Renewal
    BY <1>t, <2>p DEF RenewalOK
  <2> HIDE DEF b
  <2>3. y.store = renewal.store /\ y.batch = b
    BY <2>2 DEF Renewal
  <2> HIDE DEF y
  <2>4. UNCHANGED <<row, task, sealing, wants, crossed>>
    BY <1>8 DEF StartRenewal, provider, history
  <2>5. \A s \in Store : Renewing(s)' => Renewing(s) \/ row[s].refresh # 0
    BY <2>1, <2>2, <2>3 DEF Renewing
  <2> QED BY <2>4, <2>5, QuietOff DEF Quiet, Completing, SealsToken
<1>9. ASSUME NEW r \in renewal.batch, Renew(r) \/ RenewFails(r) PROVE OffInv'
  <2>1. /\ \E pc \in {"next", "write", "pause"}, n \in {0, Len(issued) + 1} : Take(r, pc, n)
        /\ UNCHANGED <<row, task, sealing, wants, crossed>>
    BY <1>9 DEF Renew, RenewFails, Refused, provider, history
  <2>2. /\ renewal'.batch \subseteq renewal.batch
        /\ renewal'.store = None \/ renewal'.store = r.store
    BY <2>1 DEF Take
  <2> QED BY <1>9, <1>q, <2>1, <2>2
<1>10. CASE WriteRenewed
  <2> DEFINE s == renewal.store
             y == Renewed(row[s], renewal.pair)
             z == [renewal EXCEPT !.pc = "next", !.store = None, !.pair = 0]
  <2>1. renewal \in Renewal /\ s \in Store
    BY <1>10, <1>t DEF WriteRenewed, RenewalOK, Renewal
  <2>2. y.active = row[s].active
    BY <1>r, <2>1 DEF Renewed, Row
  <2>3. /\ row' = [row EXCEPT ![s] = y] /\ renewal' = z
        /\ UNCHANGED <<task, sealing, wants, crossed>>
    BY <1>10 DEF WriteRenewed
  <2>4. z.store = None /\ z.batch = renewal.batch
    BY <2>1 DEF Renewal
  <2> HIDE DEF y, z
  <2>5. \A x \in Store : /\ row'[x].active => row[x].active
                         /\ x # s => row'[x] = row[x]
    BY <1>t, <2>1, <2>2, <2>3
  <2>6. Renewing(s) /\ \A x \in Store : Renewing(x)' => Renewing(x)
    BY <1>r, <2>3, <2>4 DEF Renewing
  <2> HIDE DEF s
  <2> QED BY <2>3, <2>5, <2>6, QuietOff DEF Quiet, Completing, SealsToken
<1>12. CASE Pause
  <2> DEFINE s == renewal.store
             y == [row[s] EXCEPT !.active = FALSE]
             z == [renewal EXCEPT !.pc = "next", !.store = None]
  <2>1. renewal \in Renewal /\ s \in Store
    BY <1>12, <1>t DEF Pause, RenewalOK, Renewal
  <2>2. y.refresh = row[s].refresh /\ y.active = FALSE
    BY <1>r, <2>1 DEF Row
  <2>3. row' = [row EXCEPT ![s] = y] /\ renewal' = z
        /\ UNCHANGED <<task, sealing, wants, crossed>>
    BY <1>12 DEF Pause, provider, history
  <2>4. z.store = None /\ z.batch = renewal.batch
    BY <2>1 DEF Renewal
  <2> HIDE DEF s, y, z
  <2>5. \A x \in Store : row'[x].refresh = row[x].refresh /\ (row'[x].active => row[x].active)
    BY <1>t, <2>2, <2>3
  <2> QED BY <1>q, <2>3, <2>4, <2>5
<1>13. CASE EndRenewal
  <2> DEFINE z == [renewal EXCEPT !.pc = "idle"]
  <2>1. renewal \in Renewal /\ renewal' = z /\ UNCHANGED <<row, task, sealing, wants, crossed>>
    BY <1>13, <1>t DEF EndRenewal, RenewalOK, provider, history
  <2>2. z.store = renewal.store /\ z.batch = renewal.batch
    BY <2>1 DEF Renewal
  <2> HIDE DEF z
  <2> QED BY <1>q, <2>1, <2>2
<1>14. CASE StartSealing
  <2> DEFINE b == {[store |-> s, access |-> row[s].access, refresh |-> row[s].refresh] :
                     s \in {x \in Store : ~row[x].sealed}}
  <2>1. \A r \in b : r.refresh = row[r.store].refresh
    OBVIOUS
  <2>2. sealing'.batch = b /\ UNCHANGED <<row, task, renewal, wants, crossed>>
    BY <1>14 DEF StartSealing, SnapshotOf, provider, history
  <2> HIDE DEF b
  <2> QED BY <2>1, <2>2, QuietOff DEF Quiet, Completing, Renewing, SealsToken
<1>15. ASSUME NEW r \in sealing.batch, SealRow(r) PROVE OffInv'
  <2> DEFINE s == r.store
             y == [row[s] EXCEPT !.access = r.access, !.refresh = r.refresh, !.sealed = TRUE]
             z == [sealing EXCEPT !.batch = sealing.batch \ {r}]
  <2>1. s \in Store /\ row[s] \in Row
    BY <1>r
  <2>2. y.refresh = r.refresh /\ y.active = row[s].active
    BY <2>1 DEF Row
  <2>3. row' = [row EXCEPT ![s] = y] /\ sealing' = z
        /\ UNCHANGED <<task, renewal, wants, crossed>>
    BY <1>15, <1>t, <2>1 DEF SealRow, provider
  <2>4. z.batch \subseteq sealing.batch
    BY <1>t DEF Sealings
  <2> HIDE DEF y, z
  <2>5. \A x \in Store : row'[x].active => row[x].active
    BY <1>t, <2>1, <2>2, <2>3
  <2>6. \A x \in Store : row'[x].refresh # 0 => row[x].refresh # 0 \/ SealsToken(x)
    <3>1. \A x \in Store : row'[x] = IF x = s THEN y ELSE row[x]
      BY <1>t, <2>1, <2>3
    <3>2. r.refresh # 0 => SealsToken(s)
      BY DEF SealsToken
    <3> HIDE DEF s
    <3> QED BY <2>2, <3>1, <3>2
  <2> QED BY <2>3, <2>4, <2>5, <2>6, QuietOff DEF Quiet, Completing, Renewing, SealsToken
<1>16. CASE EndSealing
  <2>1. sealing'.batch = sealing.batch /\ UNCHANGED <<row, task, renewal, wants, crossed>>
    BY <1>16, <1>t DEF EndSealing, Sealings, provider, history
  <2> QED BY <1>q, <2>1
<1>17. ASSUME NEW s \in Store, Age(s) PROVE OffInv'
  <2> DEFINE y == [row[s] EXCEPT !.old = TRUE]
  <2>1. y.refresh = row[s].refresh /\ y.active = row[s].active
    BY <1>r DEF Row
  <2>2. row' = [row EXCEPT ![s] = y] /\ UNCHANGED <<task, wants, crossed, renewal, sealing>>
    BY <1>17 DEF Age, provider, jobs, history
  <2> HIDE DEF y
  <2> QED BY <1>t, <1>q, <2>1, <2>2
<1>18. CASE CrashRenewal
  <2>1. /\ renewal'.store = None /\ renewal'.batch = {}
        /\ UNCHANGED <<row, task, sealing, wants, crossed>>
    BY <1>18 DEF CrashRenewal, provider
  <2> QED BY <1>q, <2>1
<1>19. CASE UNCHANGED vars
  BY <1>19, <1>q DEF vars, provider, jobs, history
<1> QED BY <1>1, <1>2, <1>3, <1>4, <1>5, <1>6, <1>7, <1>8, <1>9, <1>10, <1>12, <1>13,
           <1>14, <1>15, <1>16, <1>17, <1>18, <1>19 DEF Next, Request, RenewalStep, Sealer

(* A store that asked to disconnect is on again only by a completion that was
   under way then, and holds a token to renew only by that or by a job that
   was, however completions, jobs and notices interleave with disconnections. *)
THEOREM DisconnectionsHold == Spec => []DisconnectHolds
<1>1. Init => TypeInv /\ OffInv
  BY TypeInit, OffInit
<1>2. TypeInv /\ OffInv /\ [Next]_vars => (TypeInv /\ OffInv)'
  BY TypeStep, OffStep
<1>3. OffInv => DisconnectHolds
  BY DEF OffInv, DisconnectHolds, NeedsReconnect
<1> QED BY <1>1, <1>2, <1>3, PTL DEF Spec
=============================================================================
