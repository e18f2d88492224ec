----------------------------- MODULE Connections -----------------------------
(***************************************************************************)
(* The stores' Mercado Pago connections                                    *)
(* (src/payments/mercadopago/mercadopago-connect.service.ts and            *)
(* payment-secrets.ts): connecting with OAuth, disconnecting, the          *)
(* provider's notice that a store unlinked EKORU, the daily job that       *)
(* renews tokens, and the sealing of old plain-text rows at boot.          *)
(*                                                                         *)
(* A token pair is a number; pairs are numbered as Mercado Pago issues     *)
(* them.  Renewing spends the refresh token of the pair it names.  The job *)
(* and the sealing read many rows, then write each of them whatever        *)
(* became of it.                                                           *)
(***************************************************************************)
EXTENDS Integers, Sequences, FiniteSets

CONSTANTS
  Store, Account, Actor,
  Handler,    \* requests handled at the same time
  None,
  RenewalTake, \* how many rows one renewal run reads
  MaxTokens,  \* bound on token pairs issued
  MaxFaults   \* bound on calls that fail and on crashes

ASSUME NoneIsNothing == None \notin Account \cup Store \cup Actor
ASSUME RenewalTakeType == RenewalTake \in Nat \ {0}
ASSUME BoundsType == MaxTokens \in Nat \ {0} /\ MaxFaults \in Nat

VARIABLES
  row,       \* ChileanPaymentConfig for MERCADOPAGO, by store
  links,     \* authorizations granted and not exchanged yet
  issued,    \* Mercado Pago: the account of each token pair, and for which store
             \* it was authorized
  spent,     \* Mercado Pago: pairs whose refresh token was used
  revoked,   \* Mercado Pago: pairs of an account that unlinked EKORU
  notices,   \* mp-connect webhooks on their way
  task,      \* where each connection request stands
  renewal,   \* where the renewal job stands
  sealing,   \* where the sealing stands
  wants,     \* history: what each store asked last, "on" or "off"
  crossed,   \* history: what was under way when each store disconnected
  lost,      \* history: stores that lost the answer to a renewal
  overtaken, \* history: stores whose tokens two writers changed at once
  faults

provider == <<issued, spent, revoked, notices>>

jobs == <<renewal, sealing>>

history == <<wants, crossed, lost, overtaken>>

vars == <<row, links, provider, task, jobs, history, faults>>

Pair == 1..MaxTokens

Row == [account : Account \cup {None},
        access : Pair \cup {0},      \* secretKey, 0 for null
        refresh : Pair \cup {0},     \* refreshToken
        active : BOOLEAN,            \* isActive
        sealed : BOOLEAN,
        old : BOOLEAN]               \* expires within refreshWithinDays, or has

(* A signed state that is still fresh, and the code that came back with it. *)
Link == [store : Store, actor : Actor, account : Account]

Snapshot == [store : Store, access : Pair \cup {0}, refresh : Pair \cup {0}]

NoRow == [account |-> None, access |-> 0, refresh |-> 0, active |-> FALSE,
          sealed |-> TRUE, old |-> FALSE]

Idle == [pc |-> "idle", store |-> None, account |-> None, pair |-> 0]

TypeOK ==
  /\ row \in [Store -> Row]
  /\ links \subseteq Link
  /\ issued \in Seq([account : Account, store : Store])
  /\ Len(issued) <= MaxTokens
  /\ spent \subseteq DOMAIN issued
  /\ revoked \subseteq DOMAIN issued
  /\ notices \subseteq Account
  /\ task \in [Handler -> [pc : {"idle", "upsert"}, store : Store \cup {None},
                           account : Account \cup {None}, pair : Pair \cup {0}]]
  /\ renewal \in [pc : {"idle", "next", "write", "pause"}, store : Store \cup {None},
                  pair : Pair \cup {0}, batch : SUBSET Snapshot]
  /\ (renewal.store = None) = (renewal.pc \in {"idle", "next"})
  /\ sealing \in [pc : {"boot", "next", "done"}, batch : SUBSET Snapshot]
  /\ wants \in [Store -> {"on", "off"}]
  /\ crossed \in [Store -> SUBSET {"completion", "job"}]
  /\ lost \subseteq Store /\ overtaken \subseteq Store
  /\ faults \in Nat

Fault == faults < MaxFaults /\ faults' = faults + 1

Issue(grant) == Len(issued) < MaxTokens /\ issued' = Append(issued, grant)

(* status of a store whose token has not expired: was it connected once, and
   lost it? *)
Connected(s) == row[s].active /\ row[s].access # 0

NeedsReconnect(s) == ~Connected(s) /\ row[s].refresh # 0

SnapshotOf(s) ==
  [store |-> s, access |-> row[s].access, refresh |-> row[s].refresh]

(* A job has read a store's tokens and has not written them yet. *)
Renewing(s) == s = renewal.store \/ \E r \in renewal.batch : r.store = s

Sealing(s) == \E r \in sealing.batch : r.store = s

(* A code was exchanged and its tokens are not written yet. *)
Completing(s) == \E h \in Handler : task[h].pc = "upsert" /\ task[h].store = s

Writes(s, others) == overtaken' = IF others THEN overtaken \cup {s} ELSE overtaken

-----------------------------------------------------------------------------
(* authorizationUrl, and what happens on Mercado Pago's page. *)

Authorize(s, u, a) ==
  LET l == [store |-> s, actor |-> u, account |-> a] IN
  /\ l \notin links
  /\ Len(issued) + Cardinality(links) < MaxTokens
  /\ links' = links \cup {l}
  /\ UNCHANGED <<row, provider, task, jobs, history, faults>>

LinkExpires(l) ==
  /\ links' = links \ {l}
  /\ UNCHANGED <<row, provider, task, jobs, history, faults>>

(* Mutant: any state this service signed will do. *)
ReadConnectState_Any(l, s, u) == TRUE

(* The state names this store and this person. *)
ReadConnectState(l, s, u) == l.store = s /\ l.actor = u

(* complete: the code is exchanged for a pair of tokens. *)
ExchangeCode(h, s, u, l) ==
  /\ task[h].pc = "idle"
  /\ l \in links
  /\ ReadConnectState(l, s, u)
  /\ Issue([account |-> l.account, store |-> l.store])
  /\ links' = links \ {l}
  /\ \/ /\ task' = [task EXCEPT ![h] = [pc |-> "upsert", store |-> s,
                       account |-> l.account, pair |-> Len(issued) + 1]]
        /\ UNCHANGED faults
     \/ Fault /\ UNCHANGED task
  /\ wants' = [wants EXCEPT ![s] = "on"]
  /\ UNCHANGED <<row, spent, revoked, notices, jobs, crossed, lost, overtaken>>

Upsert(h) ==
  LET s == task[h].store IN
  /\ task[h].pc = "upsert"
  /\ row' = [row EXCEPT ![s] = [account |-> task[h].account, access |-> task[h].pair,
               refresh |-> task[h].pair, active |-> TRUE, sealed |-> TRUE,
               old |-> FALSE]]
  /\ task' = [task EXCEPT ![h] = Idle]
  /\ Writes(s, Renewing(s) \/ Sealing(s))
  /\ UNCHANGED <<links, provider, jobs, wants, crossed, lost, faults>>

(* Mutant: the refresh token stays. *)
Disconnected_Renews(r) == [r EXCEPT !.active = FALSE]

(* The access token stays: the refunds of past sales need it. *)
Disconnected(r) == [r EXCEPT !.active = FALSE, !.refresh = 0]

Disconnect(s) ==
  /\ row' = [row EXCEPT ![s] = Disconnected(@)]
  /\ wants' = [wants EXCEPT ![s] = "off"]
  /\ crossed' = [crossed EXCEPT ![s] =
       {x \in {"completion", "job"} :
          IF x = "job" THEN Renewing(s) \/ Sealing(s) ELSE Completing(s)}]
  /\ Writes(s, Renewing(s) \/ Sealing(s))
  /\ UNCHANGED <<links, provider, task, jobs, lost, faults>>

-----------------------------------------------------------------------------
(* A store unlinks EKORU in its Mercado Pago account; the webhook may come
   late, twice, or never. *)

Unlink(a) ==
  LET live == {p \in DOMAIN issued : issued[p].account = a} \ revoked IN
  /\ live # {}
  /\ revoked' = revoked \cup live
  /\ notices' = notices \cup {a}
  /\ UNCHANGED <<row, links, issued, spent, task, jobs, history, faults>>

Deauthorize(a) ==
  /\ a \in notices
  /\ row' = [s \in Store |-> IF row[s].account = a
                             THEN [row[s] EXCEPT !.active = FALSE] ELSE row[s]]
  /\ notices' \in {notices, notices \ {a}}
  /\ UNCHANGED <<links, issued, spent, revoked, task, jobs, history, faults>>

-----------------------------------------------------------------------------
(* refreshExpiring. *)

Expiring(s) == row[s].active /\ row[s].refresh # 0 /\ row[s].old

(* The rows come in no order: past RenewalTake of them, any may wait. *)
StartRenewal ==
  /\ renewal.pc = "idle"
  /\ \E read \in SUBSET {s \in Store : Expiring(s)} :
       /\ read # {}
       /\ Cardinality(read) = RenewalTake \/ \A s \in Store : Expiring(s) => s \in read
       /\ Cardinality(read) <= RenewalTake
       /\ renewal' = [renewal EXCEPT !.pc = "next",
            !.batch = {SnapshotOf(s) : s \in read}]
  /\ UNCHANGED <<row, links, provider, task, sealing, history, faults>>

(* Mutant: a row that was left for the next run is still held. *)
Take_Holds(r, pc, pair) ==
  renewal' = [pc |-> pc, store |-> r.store, pair |-> pair,
              batch |-> renewal.batch \ {r}]

Take(r, pc, pair) ==
  renewal' = [pc |-> pc, store |-> IF pc = "next" THEN None ELSE r.store,
              pair |-> pair, batch |-> renewal.batch \ {r}]

Usable(p) == p \notin spent \cup revoked

Renew(r) ==
  /\ renewal.pc = "next"
  /\ r \in renewal.batch
  /\ Usable(r.refresh)
  /\ Issue(issued[r.refresh])
  /\ spent' = spent \cup {r.refresh}
  /\ \/ Take(r, "write", Len(issued) + 1) /\ UNCHANGED <<lost, faults>>
     \/ Fault /\ Take(r, "next", 0) /\ lost' = lost \cup {r.store}
  /\ UNCHANGED <<row, links, revoked, notices, task, sealing, wants, crossed, overtaken>>

(* Mutant: a refused grant is tried again on the next run. *)
Refused_Retried(r) == Take(r, "next", 0)

Refused(r) == Take(r, "pause", 0)

(* invalid_grant; any other error leaves the row for the next run (so does the
   bound on pairs). *)
RenewFails(r) ==
  /\ renewal.pc = "next"
  /\ r \in renewal.batch
  /\ \/ ~Usable(r.refresh) /\ Refused(r) /\ UNCHANGED faults
     \/ Fault /\ Take(r, "next", 0)
     \/ /\ Usable(r.refresh) /\ Len(issued) = MaxTokens
        /\ Take(r, "next", 0) /\ UNCHANGED faults
  /\ UNCHANGED <<row, links, provider, task, sealing, history>>

(* Mutant: only the access token is replaced. *)
Renewed_Access(r, p) == [r EXCEPT !.access = p, !.old = FALSE]

(* Mutant: renewing a token connects the store. *)
Renewed_Connects(r, p) ==
  [r EXCEPT !.access = p, !.refresh = p, !.sealed = TRUE, !.old = FALSE,
            !.active = TRUE]

Renewed(r, p) ==
  [r EXCEPT !.access = p, !.refresh = p, !.sealed = TRUE, !.old = FALSE]

WriteRenewed ==
  LET s == renewal.store IN
  /\ renewal.pc = "write"
  /\ row' = [row EXCEPT ![s] = Renewed(@, renewal.pair)]
  /\ renewal' = [renewal EXCEPT !.pc = "next", !.store = None, !.pair = 0]
  /\ Writes(s, Sealing(s))
  /\ UNCHANGED <<links, provider, task, sealing, wants, crossed, lost, faults>>

Pause ==
  /\ renewal.pc = "pause"
  /\ row' = [row EXCEPT ![renewal.store].active = FALSE]
  /\ renewal' = [renewal EXCEPT !.pc = "next", !.store = None]
  /\ UNCHANGED <<links, provider, task, sealing, history, faults>>

EndRenewal ==
  /\ renewal.pc = "next" /\ renewal.batch = {}
  /\ renewal' = [renewal EXCEPT !.pc = "idle"]
  /\ UNCHANGED <<row, links, provider, task, sealing, history, faults>>

-----------------------------------------------------------------------------
(* sealExistingRows. *)

StartSealing ==
  /\ sealing.pc = "boot"
  /\ sealing' = [pc |-> "next",
       batch |-> {SnapshotOf(s) : s \in {x \in Store : ~row[x].sealed}}]
  /\ UNCHANGED <<row, links, provider, task, renewal, history, faults>>

SealRow(r) ==
  /\ r \in sealing.batch
  /\ row' = [row EXCEPT ![r.store].access = r.access, ![r.store].refresh = r.refresh,
                        ![r.store].sealed = TRUE]
  /\ sealing' = [sealing EXCEPT !.batch = @ \ {r}]
  /\ Writes(r.store, Renewing(r.store))
  /\ UNCHANGED <<links, provider, task, renewal, wants, crossed, lost, faults>>

EndSealing ==
  /\ sealing.pc = "next" /\ sealing.batch = {}
  /\ sealing' = [sealing EXCEPT !.pc = "done"]
  /\ UNCHANGED <<row, links, provider, task, renewal, history, faults>>

-----------------------------------------------------------------------------
(* Time, and crashes. *)

Age(s) ==
  /\ row[s].access # 0
  /\ ~row[s].old
  /\ row' = [row EXCEPT ![s].old = TRUE]
  /\ UNCHANGED <<links, provider, task, jobs, history, faults>>

(* A renewed pair that was not written is lost with the process. *)
CrashRenewal ==
  /\ renewal.pc # "idle"
  /\ Fault
  /\ lost' = IF renewal.pc = "write" THEN lost \cup {renewal.store} ELSE lost
  /\ renewal' = [pc |-> "idle", store |-> None, pair |-> 0, batch |-> {}]
  /\ UNCHANGED <<row, links, provider, task, sealing, wants, crossed, overtaken>>

(* A store may have connected before tokens were sealed. *)
Init ==
  \E first \in Store \cup {None}, a \in Account :
    /\ row = [s \in Store |-> IF s = first
                THEN [account |-> a, access |-> 1, refresh |-> 1, active |-> TRUE,
                      sealed |-> FALSE, old |-> FALSE]
                ELSE NoRow]
    /\ issued = IF first = None THEN <<>> ELSE <<[account |-> a, store |-> first]>>
    /\ wants = [s \in Store |-> IF s = first THEN "on" ELSE "off"]
    /\ crossed = [s \in Store |-> {}]
    /\ links = {} /\ spent = {} /\ revoked = {} /\ notices = {}
    /\ task = [h \in Handler |-> Idle]
    /\ renewal = [pc |-> "idle", store |-> None, pair |-> 0, batch |-> {}]
    /\ sealing = [pc |-> "boot", batch |-> {}]
    /\ lost = {} /\ overtaken = {} /\ faults = 0

RenewalStep ==
  \/ StartRenewal \/ WriteRenewed \/ Pause \/ EndRenewal
  \/ \E r \in renewal.batch : Renew(r) \/ RenewFails(r)

Sealer ==
  StartSealing \/ EndSealing \/ \E r \in sealing.batch : SealRow(r)

(* The mutations of the resolver, by the store or one of its admins. *)
Request ==
  \E s \in Store :
    \/ \E u \in Actor, a \in Account : Authorize(s, u, a)
    \/ \E h \in Handler, u \in Actor, l \in links : ExchangeCode(h, s, u, l)
    \/ Disconnect(s)

Next ==
  \/ Request
  \/ \E h \in Handler : Upsert(h)
  \/ \E l \in links : LinkExpires(l)
  \/ \E a \in Account : Unlink(a) \/ Deauthorize(a)
  \/ RenewalStep \/ CrashRenewal
  \/ Sealer
  \/ \E s \in Store : Age(s)

Spec == Init /\ [][Next]_vars

(* Time passes, and the job runs every day. *)
FairSpec ==
  /\ Spec
  /\ WF_vars(RenewalStep)
  /\ \A s \in Store : WF_vars(Age(s))
-----------------------------------------------------------------------------
(* The access token of a store was authorized for that store, by whoever
   finished it, and belongs to the account its row shows: the buyers pay into
   that account.  The account alone may differ, when two writers changed the
   row at once: a renewal that read the tokens of one account writes over
   those of the account the store has just connected. *)
TokenIsItsStores ==
  \A s \in Store : row[s].access # 0 =>
    /\ issued[row[s].access].store = s
    /\ s \notin overtaken => issued[row[s].access].account = row[s].account

(* The refresh token kept was never used: a renewal that used it has written,
   or is about to write, the one that replaced it. *)
NeverSpent ==
  \A s \in Store \ (overtaken \cup lost) :
    row[s].refresh \in spent => s = renewal.store

(* The tokens of a row are the store's, and the latest. *)
TokenIsOwn == TokenIsItsStores /\ NeverSpent

(* A store whose last request was to disconnect takes charges again only if a
   completion of its own was under way when it disconnected, and gets a token to
   renew again, and with it the advice to reconnect, only if that or a job was:
   whatever a renewal or a sealing writes late, it never turns a store on. *)
DisconnectHolds ==
  \A s \in Store : wants[s] = "off" =>
    /\ row[s].active => "completion" \in crossed[s]
    /\ NeedsReconnect(s) => crossed[s] # {}

(* A connection whose grant is gone does not stay open for ever: even when the
   notice is lost, the renewal job finds out and pauses it, or the store
   reconnects. *)
RevokedIsPaused ==
  \A s \in Store :
    (row[s].active /\ row[s].refresh # 0 /\ ~Usable(row[s].refresh))
      ~> (~row[s].active \/ row[s].refresh = 0 \/ Usable(row[s].refresh))
=============================================================================
