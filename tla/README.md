# ekoru-transactions in TLA+

A verification project for the transactions subgraph of EKORU: orders, their
payments at Webpay and Mercado Pago, refunds and stock, payments of quotations
and memberships, shipping and points, second-hand deals between people, the chat
of buyers and sellers, and the stores' Mercado Pago connections. Sources are
named by their file; `PROJECT.json` has their full paths.

## 1. Inventory

The service is one NestJS process (it may run in several replicas) over
PostgreSQL through Prisma, with one BullMQ queue per domain in Redis. HTTP and
GraphQL handlers run concurrently and are interleaved at every `await`; each
queue has a worker that runs one job at a time. Rows and jobs survive a crash,
everything between two `await`s does not.

| Component | State | Operations | Talks to |
|---|---|---|---|
| Order payments (`payments.service.ts`) | `Payment.status`, tokens, `PaymentTransaction`, `PaymentWebhook` | `createPayment`, `handleProviderReturn`, `handleProviderWebhook`, `reconcileStale` | adapters, settlement, orders |
| Settlement (`settlement.service.ts`) | `PaymentRefund`, `STOCK` rows, jobs | `onCompleted`, `requestRefund`, `executeRefund`, `recordExternalRefund`, `takeStock`, `restock`, `settleQuotation`, `expireStale` | orders, queue, stores, services |
| Payments worker (`payment.processor.ts`) | the queue | refund, stock, quotation, expiry and token jobs; retries | settlement, payments |
| Adapters (`providers/`) | none; the provider's books | `initiate`, `confirm`, `lookup`, `resolve`, `inspect`, `refund` | Transbank, Mercado Pago, Khipu |
| Orders (`orders.service.ts`) | `Order.status`, `ShippingStatus`, points rows | `createOrder`, `markPaid`, `markCanceled`, `markRefunded`, `updateShipping` | marketplace, stores, users |
| Quotations, memberships | the payment's stamp in services / users | `createQuotationPayment`, `settleQuotation`, `createMembershipPayment`, `_activateMembership` | services, users |
| Deals (`marketplace-deals.service.ts`) | `P2PDeal`, `P2PReputation` | propose, accept, decline, confirm, dispute, cancel, resolve, sweep | marketplace, users |
| Chat (`chat.service.ts`, `chat-admin.service.ts`) | `Conversation`, messages, reports | start, send, read, report, block | users |
| Connections (`mercadopago-connect.service.ts`, `payment-secrets.ts`) | `ChileanPaymentConfig` | connect, disconnect, deauthorize, refresh, seal | Mercado Pago |
| Commission (`commission.service.ts`) | `TransactionFee` | `quote`, `splitCommission` | payments |
| Admin configuration, access, read side, infrastructure | rows, none | editors, checks, queries | |

What is hard here:

- **Interleaving.** A buyer's return, Mercado Pago's webhook and the worker's
  sweep settle the same payment; several tabs pay the same order; a refund job
  and a webhook about the store's own refund touch the same payment. Most code
  reads a status, awaits, and then writes unconditionally. Only order statuses
  (`updateMany` with the expected status) and the two refund transactions
  (`SELECT ... FOR UPDATE`) are guarded.
- **Crashes and partial failure.** A handler is a sequence of separate
  statements and queue calls. A job runs again from its start, guarded by what
  it finds in the rows; an HTTP handler is not run again.
- **Messages.** Webhooks are repeated, late and out of order; a provider's
  answer may be lost after the money moved.
- **Time.** A checkout has a window; the sweep asks, expires and cancels in
  that order while buyers still act.

What would make each component correct:

- *Refunds*: never more than was charged; recorded only if the provider
  agreed to it; every request ends, once; what is refunded in full shows on the payment and the order.
- *Order payments*: no status without a charge; one sale per order; no charge
  without a sale or its money back; orders do not wait for ever.
- *Stock*: each unit sold is taken once, each unit given back returned once,
  missing units are refunded.
- *Quotations, memberships*: stamped once per payment, or refunded.
- *Shipping*: only the steps of `shipping-rules.ts`; points once per order.
- *Deals*: one open deal per product, a deal ends once, products are released
  or sold accordingly, each failure is one strike (the code keeps the first and
  the last only when requests do not meet: section 6).
- *Chat*: a blocked conversation takes no message; a reader who is behind was
  notified; a moderator's block is not undone by a participant.
- *Connections*: a disconnected store gets no new charges; a token is not
  overwritten by an older one.

## 2. Plan

Every module of the plan is written; the order is that of importance.

| Module | Models | Abstract specification | Proofs |
|---|---|---|---|
| `Statuses` | status enumerations and groups | | |
| `Refunds` | settlement's refunds, worker, provider, webhooks | `RefundLedger` | `RefundsProofs` |
| `PaymentFlow` | checkout, return, webhook, completion, sweep | `OrderLife` | `PaymentFlowProofs` |
| `Stock` | SALE and RESTOCK jobs, the stores' references, refunds of missing units | | `StockProofs` |
| `Quotes` | quotation and membership payments | | `QuotesProofs` |
| `Orders` (uses `Commission`) | checkout, commission, shipping, notices, points | | `OrdersProofs` |
| `Deals` | deals, sweep, strikes, availability, points | | `DealsProofs` |
| `Chat` | thread, messages, notices, blocks, reports | | `ChatProofs` |
| `Connections` | OAuth, renewal, sealing, disconnection | | `ConnectionsProofs` |

Each `MC` module gives its component's instance. What could still be added is in section 6: a Khipu
payment of an order, a second worker, and the composition of `Stock` with
`Refunds` in one state space (today each has the other in outline).

## 3. What is modelled

### Refunds

`Refunds.tla` is `settlement.service.ts` from `requestRefund` on, with
`PaymentProcessor.refund` and the paid-charge branch of the Mercado Pago
webhook. Every payment starts charged and its order `PAID`.

- `payment`, `order`, `refund` are the rows; `opening` the committed requests
  whose job is not queued yet; `job`, `made` the queue's job of each refund and
  its failed attempts; `restock` the waiting RESTOCK jobs by order; `task` where
  the worker and each webhook stand between two awaits. `accepted`, `given` and
  `granted` are the provider's books: what it agreed to give back of a payment,
  how much of that shows in its refunded total, and how often it took each
  refund. `untold` are the payments with a notice still to be answered,
  `stalled` the jobs a dead process left once.
- `RequestRefund` is the locked transaction, `QueueRefund` the `queue.add`.
  `StartRefund`, `RefundApproved`, `RefundRefused`, `RefundCallThrows`,
  `CompleteRefund` are `executeRefund`; `SkipRefund` its early return.
  `AttemptFails` is the processor's `catch`, `FailRefund` the last attempt's;
  `LastAttemptLost` is the outage in which `failRefund` throws as well, and a job
  that stalls twice (`Crash`) fails without the `catch`: both leave a row open
  with no job. The second needs two faults, so only the proof reaches it.
  `SumReturned`, `MarkPayment`, `MarkRefunded`, `QueueRestock` are
  `afterRefundCompleted`, run by the worker or by a webhook.
- `InspectCharge` and `RecordExternalRefund` / `NothingToRecord` are
  `_followPaidCharge` and `recordExternalRefund`; `StoreRefunds` is the store
  acting at Mercado Pago. `Answers` ends a notice once a handler that saw the
  present total is through, `IgnoreNotice` one about a payment refunded whole.
- `RefundApproved` is `result.ok`: the provider took the refund (`ProviderTakes`).
  Mercado Pago says so of an `in_process` one too, and the row is `COMPLETED`
  before the money shows, so `MoneyMoves` is a step of its own, at any time
  later or never. Mercado Pago takes a refund id once; Webpay's call carries no
  id, so it takes each call. Neither takes more than was charged.
- Amounts are in half pesos, the unit of `EPSILON`.

`RefundLedger.tla` is what this promises with no rows or jobs: claims within
the charge, some of them returned, nothing returned ever taken back. `Refunds`
implements it (`KeepsLedger`), with `claimed` and `returned` mapped to the two
sums the service itself computes.

### Order payments

`PaymentFlow.tla` is `payments.service.ts` for order payments, with
`onCompleted` and `expireStale` of settlement and the guarded order statuses.

- `payment`, `order` are the rows; `age` and `oldOrder` place them against the
  window; `checkout` and `books` are the buyer's and the provider's side;
  `task` is what each request, and the worker, is in the middle of, with the
  status it read; `sweep`, `todo`, `closing` the running sweep; `sale` the
  waiting SALE job by order, `taken` the payments whose job ran; `refunding`
  the automatic refund.
- `StartCheckout`, `InsertPayment`, `Initiate` are `createPayment`.
  `Return` and `Webhook` read the payment (`isSettled`), `AskMercadoPago` and
  `Commit` ask the provider, `Apply` writes what it said, then `MarkPaid` with
  `QueueSale` or `AutoRefund`, or `MarkCanceled`. `StartSweep` and `AskNext` are
  `reconcileStale`; `ExpirePayments`, `ListOrders`, `CloseOrder` are
  `expireStale`.
- The attempts of a Mercado Pago checkout end `rejected`, `cancelled` or
  `approved`, several of them in any order until one is approved. A payment
  reported cancelled is `CANCELLED` and never reopened.
- A refund is one successful step here and always of the whole payment; how it
  fails and retries is the business of `Refunds`.

`OrderLife.tla` is what this promises of an order, with no requests or jobs: a
waiting order is paid or canceled, a paid one may be refunded, and one that was
paid is sold by one of its payments. `PaymentFlow` implements it (`KeepsLife`):
`order` is the same variable, `sold` the payments whose SALE job waits or ran.

Abstracted in both: sellers and their configuration, amounts other than refund
amounts, notifications, audit rows, signatures (an unverified webhook changes
nothing), the mapping of webhooks to payments.

### Stock

`Stock.tla` is `takeStock` and `restock` of `settlement.service.ts`, with the
stores subgraph they call. `Refunds` and `PaymentFlow` queue these jobs; here
they move units, and a refund is in outline (asked, then returned or refused).

- `shelf`, `sold`, `back` are the stores: units, and the movements of the
  references `order:<id>:sale` and `order:<id>:restock`, each applied once.
  `record` is the `STOCK` row of a payment; `sale`, `restock` the two jobs of an
  order, by their ids; `requested`, `owed`, `returned` the refunds of a payment.
- `Sell`, `RecordStock`, `RefundShort` are `takeStock` between its awaits;
  `SellThrows` an attempt whose answer is lost, `SkipSale` the next one finding
  the row, `RefundShortRefused` a request that does not fit. `PutBack`,
  `PutBackThrows`, `NothingToPutBack` are `restock`. `QueueRestock` keeps a job
  whose id is already there, as BullMQ does, so a duplicate's job can take the
  place of the order's.

### Quotations and memberships

`Quotes.tla` is the payments without an order: `createQuotationPayment`,
`createMembershipPayment`, their returns and webhooks, `settleQuotation` and its
notices, `_activateMembership`, and the sweep for these payments.

- `status` are the rows, `opened` and `charge` the provider, `accepted` and
  `paid` the services subgraph, `active` the users subgraph, `job` the
  `quotation-paid` job of a payment, `noted` and `notices` what the parties were
  told, `refund` the refund in outline.
- `Ask`, `Apply` and `QueueQuotation` / `ActivateMembership` are one settlement
  cut at its awaits. `CommitLost` is a Webpay commit whose answer is lost, which
  the adapter reports as `FAILED`; `AskFails` a call that throws.
  `MarkQuotationPaid`, `MarkThrows` (the stamp may have been
  made), `QuotationRefused`, `RequestRefund`, `NoteQuotationPaid`,
  `NotifyQuotationPaid` are the job. `AskNext` and `ExpireStale` are the sweep.

### Orders, shipping and points

`Orders.tla` is `orders.service.ts` outside of payment, with
`shipping-rules.ts`, `access.service.ts` and `commission.service.ts`.

- `LoadPrices` reads prices and availability, `PersistOrder` / `RefuseOrder`
  write the order or refuse a seller who cannot be paid (TRX-4).
  `CreatePayment` keeps the commission in force; `MarkPaid`, `MarkCanceled`,
  `MarkRefunded` move the status and tell the parties.
- `LoadShipping` is the check of `assertShippingMove` and of permissions,
  `UpdateShipping` the later write, with the notice `NoticeOf` gives a stage
  (`SHIPPING_STAGE_TO_TYPE`): a shipping called off tells `ORDER_CANCELLED` of an
  order that stays `PAID`. `withdrawn` remembers those. `MarkRefunded` is of a
  part or of the whole, and tells the parties either way. `ReadOrder`, `Credit`, `CreditThrows`,
  `WriteLedger` are `_awardOrderPoints`, in the background.
- `Commission.tla` is `splitCommission`: rates in whole percents, amounts in
  whole pesos, so the rounding is exact.

### Deals

`Deals.tla` is `marketplace-deals.service.ts`: a request loads the deal and
checks it, then updates it whatever became of it, then calls other services.

- `status`, `confirmed`, `settled`, `overdue` are the deal's row; `reserved`,
  `sold` the marketplace's products; `strikes`, `failed`, `completed`, `blocked`
  the reputation; `credited` the users subgraph's points and `ledger` the local
  rows. `ruled` remembers an operator's ruling.
- `Load...` and the action after it are the two halves of accept, decline,
  confirm, dispute and cancel; `Rule` is `resolveDeal`. `Complete` to
  `BumpReputation` are `_completeDeal`. `ReadStrikes` and `Strike` are `_strike`.
  `StartSweep`, `Expire`, `Release` are the sweep. `Abort` is a statement that
  throws or a crash half way.
- `AwardPoints` pays the parties one by one, in either order; `fresh` is who was
  paid just now and gets a ledger row.
- Products are taken to be active and their owners not to change. Proposals and
  acceptances interleave with everything else, so two open deals of one
  product are reachable, and every property holds in spite of them.

### Chat

`Chat.tla` is one thread of `chat.service.ts` and `chat-admin.service.ts`. Time
is the number of messages stored, so `readAt` says how many there were when a
side last read.

- `LoadThread`, `CheckRate`, `MaskText`, `StoreMessage`, `Notify` are
  `sendMessage`; `StartConversation`, `CheckTradeOnItem`, `OpenThread` come
  before them in `startConversation`. `SetRead` is shared by `markRead` and by
  the sender's own `readAt`. `Block`, `LoadUnblock`, `Unblock`, `AdminUnblock`
  are `setBlocked` of a participant and of an operator.
- A text either shows a contact detail or is masked. `met`, `peak` and `unsure`
  are history: a trade was ever agreed, the furthest each side read, and the
  sides whose notice was lost or raced.

### Connections

`Connections.tla` is `mercadopago-connect.service.ts` and `payment-secrets.ts`.
Token pairs are numbered in the order Mercado Pago issues them; renewing spends
the refresh token it names.

- `Authorize` and `ExchangeCode` / `Upsert` are the OAuth round trip (the state
  names a store and a person), `Disconnect` the store's own, `Unlink` and
  `Deauthorize` the account's and its late, repeated or lost webhook.
- `StartRenewal`, `Renew`, `RenewFails`, `WriteRenewed`, `Pause` are
  `refreshExpiring`: a snapshot of rows, then row by row, the write after the
  call. `StartSealing`, `SealRow` are `sealExistingRows`.
- `wants`, `crossed`, `overtaken` and `lost` are history: what a store last asked
  for (a connection when its code is exchanged, not when the row is written),
  what was under way for it when it disconnected, stores whose row two writers
  changed at once, and stores that lost the answer to a renewal.

## 4. What the runs show

Runs that pass:

| Run | Instance | Shows |
|---|---|---|
| `RefundsMP` | one Mercado Pago charge of 2 pesos, three rows, amounts of 1 and 1.5 pesos (which fit together only by the slack), two webhooks, two attempts, one fault | refunds stay within the charge (`RefundCap`), only what the provider agreed to return is recorded (`ReturnedIsBacked`), statuses are earned (`StatusIsEarned`), ends are final (`RefundEnds`), the rows implement the ledger (`KeepsLedger`) |
| `RefundsFair` | the same charge and a store that also refunds from its account, one webhook, two attempts, amounts of 1 and 1.5 pesos, fair and notified, no faults | every request ends (`RefundsEnd`), a full refund closes its order (`FullRefundClosesOrder`), the store's refunds are recorded, unless one of EKORU's that failed hid them (`StoreRefundsAreRecorded`) |
| `FlowMP` | two tabs of one order, one at each provider, one request at a time beside the worker, one fault | no status without a charge (`ChargesAreReal`), one sale (`SoldOnce`), no second charge kept (`NoDoubleCharge`), the order's plain life (`KeepsLife`) |
| `FlowSettles` | one Mercado Pago payment, one request at a time beside the sweep, rejected, cancelled and approved attempts, fair and notified, no faults | a charge ends as a sale or goes back, unless it was reported cancelled or is written over after its notice (`ChargesSettle`), an order does not wait for ever (`OrdersClose`) |
| `StockJobs` | two orders of one product with a unit too few for both, a second payment of one order, shipping in the price, two attempts, one crash | units are neither lost nor made (`UnitsConserved`), go back only for a refund of the payment that took them (`BackOnlyIfRefunded`), missing ones are refunded (`ShortIsRefunded`), a sale that is refunded in full is put back (`SoldUnitsReturn`) |
| `Quotes` | a quotation paid at Mercado Pago and at Webpay, a membership at Webpay, two requests at a time beside the worker, three requests, one fault | a quotation is paid once, by a charge that is kept (`QuotePaidOnce`), and every completed payment is honoured or given back (`CompletedIsHonoured`) |
| `Orders` | two orders, of a store's product and of a used one, two requests at a time, four requests, one change of catalogue, connection or rate, a sane rate and one typed a hundred times too high, one fault | shipping, points, notices and fees rest on what came before them (`OrdersAreEarned`) |
| `Deals` | a bicycle that one buys and another exchanges for a cheaper coat, the exchange already proposed, two requests at a time beside the sweep, four requests, a block at two strikes, one fault | points are for finished deals, once (`PointsAreEarned`), blocks are earned (`BlockIsEarned`), late deals end (`LateDealsEnd`) |
| `Chat` | one thread, two requests at a time, three in all, any number of reads, one notice lost or crash, one message a minute | contact details follow a trade (`ContactsAfterTrade`), blocks hold (`BlockHolds`), one notice per burst (`OneNoticePerBurst`), nobody is left untold but by the named races (`UnreadIsNoticed`) |
| `Connections` | two stores, two accounts, one of the stores perhaps connected before sealing existed, two pairs of tokens, one fault | a token is the store's own and unspent (`TokenIsOwn`), only a completion under way turns a disconnected store on again (`DisconnectHolds`), a dead grant is paused (`RevokedIsPaused`) |

Runs that TLC refutes, each a disagreement of the code with what it or its docs
say (the quotes are in `PROJECT.json`):

| Run | Property | What happens |
|---|---|---|
| `FlowTwice` | `AutoRefundHasReason` | return and webhook at once: the order's only payment is refunded |
| `FlowDuplicate` | `DuplicateChangesNothing` | the refund of a duplicate closes the paid order as `REFUNDED` |

Many passing properties name the races they exclude (`unsure`, `overtaken`,
`crossed`, `WrittenOver`, `faults = 0`). They are excluded because the code does lose there;
section 6 lists what happens then. `NoDoubleCharge` is about an idle system
with no fault so far and one request at a time. `FullRefundClosesOrder`,
`ChargesSettle` and `RefundsEnd` hold without faults only, because the code has
no second look at a step it lost. `OrdersClose` and `ChargesSettle` are shown
for one payment: with two requests at a time, a buyer who returns to a rejected
attempt again and again, each time between the webhook of the approved one and
its effects, can keep rewriting the payment, and no fairness excludes that
buyer.

### Bounds

Three refund rows are enough for a refused, an open and a completed refund of
one payment at once; amounts are chosen so that two fit a charge, three do not,
and the larger and the smaller together fit only thanks to the slack. Two attempts show a retry and the last
attempt. Two tabs show every race for an order; one request beside the worker
already gives two concurrent settlements (the sweep is the second), and the runs
about two requests have two. In the passing runs `TakePayments` is at least the
number of payments: what the limit of 100 leaves out is expired unasked, in the
same way as a payment that crosses its window between the two halves of the
sweep. `MaxFaults` bounds errors and crashes
together to one, which suffices to lose any single step. Deadlock is not checked
where the bounded supply of refund rows lets the system stop; the other bounds
do not stop it.

For the other modules: the smallest shop with a conflict is two orders and one
unit too few, and a payment that pays shipping too tells the price of missing
units from the whole charge. Two proposals share a product, and one of them, an exchange with cash owed, stands
at the start: its acceptance and three confirmations (one attests the cash) are
four requests, so it completes, and every shorter course leaves requests for a
race. The sale would need a proposal as well, a fifth request, and does not
complete in the run; the proofs do not bound requests. The renewal job reads 200
rows in no order; `RenewalTake` is two, as there are two stores, so the run does
not leave any out (the proofs allow it).
Two token pairs are a connection and
its renewal, or the connections of two stores. In `Chat`, three requests are a
first message, a second one and a block. `MaxRequests` counts what people start,
never what follows from it.

### Fairness

`FairSpec` gives weak fairness to each request in progress and to the worker
(a live process goes on), and to the sweep, which BullMQ repeats every
`expireSweepEveryMin`. Jobs get strong fairness because the worker, though
free again and again, is not free for ever. Time passes. `NotifiedSpec` adds what Mercado Pago
documents and the code relies on, that a notice is repeated until it is answered,
and nothing after that: in `Refunds` a notice of new money is pending in `untold`
and ends with the first handler that runs to its end; in `PaymentFlow` nothing is
assumed of a payment once it is approved and settled, as its notice may have been
answered then. Nothing is assumed of
when a buyer acts, or whether.

`Stock` gives each job strong fairness, for the same reason, and weak fairness
to a job in progress. `Quotes` gives weak fairness to what has begun and strong
fairness to the worker taking quotation jobs. `Deals` gives weak fairness to the
sweep, a repeated job of its own queue; `Connections` to the renewal job, also
repeated, and to the ageing of tokens, which is time passing. `Chat` and
`Orders` check no liveness and assume no fairness.

## 5. What is proved

`RefundsProofs.tla` proves, for any payments, orders, amounts, slack, number of
attempts, webhooks and faults, and any finite set of refund rows:

- `TypeCorrect`, `RefundsAreCapped`, `EndsAreFinal`,
  `OnlyAcceptedMoneyIsRecorded`, `StatusesAreEarned`: the invariants and the action
  property of `RefundsMP`;
- `ImplementsLedger`: every step of `Refunds` is a step of `RefundLedger` or
  leaves its two sums alone;
- `OpenRefundsAreAttended`: an open refund has its requester, a waiting job or
  the worker behind it, through every failed attempt and crash of the worker. Only
  a fault leaves one: a requester that dies between row and queue, a `failRefund`
  that throws too, or a job that stalls twice (`JobsInv`);
- `FullRefundsArePursued`: without faults, a payment given back whole has closed
  its order, or a task that has not added the refunds up yet, or saw that they
  cover the charge, still has it to do. Every row is completed by a task that
  then adds them up (`CompleterPursues`), and what was returned only grows, so it
  sees them all.

The last two are the safety halves of `RefundsEnd` and `FullRefundClosesOrder`:
what is left to fairness is that the waiting jobs and tasks go on.

The inductive invariant `Inv1` adds to the types that a row in use names a
payment and a positive amount (`RowsOK`), what each webhook holds (`HooksOK`),
and that the worker's refund is the row it is executing, still `PROCESSING`
while the provider is asked and `COMPLETED` after (`WorkerOK`). Without the last
a stale worker could complete a row that had failed. `RowStep` then
says that a step opens, executes, fails, completes or records at most one row;
everything about sums follows from it and from what sums do (below).
`OnlyAcceptedMoneyIsRecorded` needs more: the rows completed and the open rows the
provider has taken together stay within what it accepted (`Covered`). A webhook
records only what the total shows beyond every open or completed row, and the
total never shows more than was accepted.

`RefundsProofs`, `StockProofs` and `OrdersProofs` begin with what they need of
`SumFunction`, the total of a function over a finite set in the community
modules: it changes by the difference when one entry does, is monotone, is a
natural over naturals, and is zero on zeros. `SumFunction` is a recursion over
subsets, taken with `CHOOSE`: `SumTableExists` shows that its table exists, by
filling one in as far as it goes, and the rest reads that table. Each induction is
a smallest subset that would go wrong (`SubsetMinimum`).

`PaymentFlowProofs.tla` proves, for any payments, orders, number of requests and
faults, and for payments of the two providers in any mix:

- `TypeCorrect`, `StatusesAreCharged` and `SalesAreSingle`: the invariants
  `TypeOK`, `ChargesAreReal` and `SoldOnce` of `FlowMP`;
- `ChargesAreSingle`: the invariant `NoDoubleCharge` of `FlowMP`;
- `CompletedIsHeld` (`HeldInv`): while nothing failed, a completed payment has
  sold its order, is being given back, or is in the hands of a request between
  `complete` and its sale or refund (`Ends`);
- `ImplementsOrderLife`: every step implements a step of `OrderLife` or leaves
  the order and its sale alone.

`TypeInv` adds to the types that whoever is in the middle of something is so for
a payment. `RealInv` adds to `ChargesAreReal` the tasks in flight: whoever is
about to write COMPLETED, or has written it and is taking the order, holds a
payment that was charged (`Settles`); a charge is never forgotten
(`ChargesStay`). `SellInv` adds to `SoldOnce` the request between `markPaid` and
the queue: its order is paid, nothing has sold it and no other request is there
for it. That is where the guarded `updateMany` of `markPaid` matters: only one
task per order can leave `MarkPaid` as a seller. `QuietOrSells` shows that every
other step sells nothing, so both the invariant and the refinement follow from
three cases. `SellInv` and `RealInv` do not ask that payments differ in provider or that
requests wait for each other: the violation of `FlowTwice` is compatible with
them, as a payment settled twice is sold once.

`NoDoubleCharge` speaks of an idle system, so it is not inductive. `HeldInv` is:
a payment enters COMPLETED in the hands of the request that completes it, and
whoever is at one of the `Ends` stays there for the same payment until the sale
is queued or the refund asked for (`EndsStay`). When nobody is at work, a
completed payment without a refund has therefore sold its order, and `SoldOnce`
leaves room for one. `HeldInv` is also the safety half of what `FlowSettles`
checks under fairness: nothing drops a payment, so only waiting is left.

`QuotesProofs.tla` is about the payments without an order, for any payments and
quotations and any number of requests, attempts and faults:

- `TypeCorrect`: `TypeOK`. `TypeInv` adds that whoever is in the middle of
  something is so for a payment, that an answer being applied was given, and that
  a waiting job is of a quotation.
- `QuotesArePaidOnce`: `QuotePaidOnce`. `PaysInv` follows the charge from the
  answer to the stamp: what is COMPLETED, stamped or active was charged, and so
  is what is about to be. `MailInv` says that a payment being given back can no
  longer stamp its quotation, the worker about to ask for the refund included,
  and that notices go out once, right after the row that stands for them.
  `StampMoves` is the reason: a stamp stays, and who could not stamp never can.
- `CompletedQuotesAreHeld` (`HeldInv`): while nothing failed, a completed payment
  bought its quotation or membership, is being given back, has a job that waits
  or is out of attempts, or is in the hands of whoever completed it. It is the
  safety half of `CompletedIsHonoured`.

`StockProofs.tla` proves `TypeCorrect`, `UnitsAreConserved`, `BackIsRefunded`
and `ShortIsAsked`, all safety of `StockJobs`. What a job does at the stores is
one of three things (`StoresStep`), so conservation is one use of `SumUpdate`.
`BackInv` says that a `STOCK` row is of the payment that got its order paid and
agrees with the stores' own movement, that the worker's answer does too, and
that a waiting RESTOCK job names a payment of its order that was given back;
without the first, the units put back could be another payment's. `ShortInv`
says that whoever has a row was asked for or is about to be, by the very worker
that wrote it: the retry that finds the row then asks for nothing, rightly.

`OrdersProofs.tla` proves `TypeCorrect` and `EverythingIsEarned`. `FeeBounds` is
about `splitCommission` for every amount and rate. `LifeInv` adds to the property
the requests in flight (whoever is about to write a stage does so for a sold
order), `PointsInv` that what an award has counted as fresh is credited and not
yet in the ledger, by one award only.

`DealsProofs.tla` proves `TypeCorrect`, `BlocksAreEarned` and
`PointsAreForDeals`. `BlockInv` relates the strikes read by whoever is striking
to the failures counted. `PaidInv` says that whoever is completing
a deal does so for one that both confirmed or that was ruled complete, `RowsInv`
that whoever an award found fresh is credited and has no row yet, and that no other
request holds an award of that deal to the same person.

`ChatProofs.tla` proves `TypeCorrect`, `ContactsAreCovered` (a text being sent is
masked already, or a trade was met) and `BlocksHold`, which counts the sends that
had passed their check: in a blocked thread none joins them and each becomes one
message at most. `BurstsAreSingle` is the action property `OneNoticePerBurst`:
what a send saw read really has been read (`BurstInv`), so the count that decides
on a notice cannot skip a message its side was told of and has not read.
`UnreadAreNoticed` is `UnreadIsNoticed`. Its invariant `NoticeInv` holds for each
side that `unsure` does not name: one send to it at a time (`Alone`), which
saw what the side has read by now (`SawRead`) and whose message came later
(`CountsLater`); each unread message is then the one this send is about to count, or
comes with an unread notice (`IsTold`).

`ConnectionsProofs.tla` proves `TypeCorrect`, `TokensAreOwn` and
`DisconnectionsHold`. Its invariant follows a pair from the grant to the row:
what a request, the renewal or the sealing holds of a store was issued for that
store (`TypeInv`); a snapshot still agrees with the row unless the row was
written since (`SnapshotsInv`); a pair just issued is unspent and nobody else's
(`FreshInv`); what could still turn on, or give a token to, a store that asked to
be off was under way when it asked (`OffInv`).

The assumptions are the named ones of the modules: rows, orders and products that
are finite where totals are taken, amounts and quantities that are naturals,
names that do not collide, terms of a proposal that the resolver accepts. TLC
evaluates them on every run.

Only model-checked: liveness (`RefundsFair`, `FlowSettles`, and the temporal
properties of `Quotes`, `StockJobs`, `Deals` and `Connections`), since fairness
is beyond the prover, and the two runs that expect a violation. Every safety
property of a passing run is proved.

## 6. What is not modelled, and what is lost

### Not modelled

- Khipu payments of orders. In `Quotes` Khipu is a value of `Provider`, which its
  instance does not use: a return never tells the outcome and a webhook never
  verifies (below).
- The formats of requests, signatures and ciphers; notices' wording; addresses;
  the impact figures of deals; ratings and reviews of other subgraphs.
- Administration (row editors, find-then-create upserts), permission checks other
  than those named, queries and GraphQL resolvers, metrics, health and
  configuration: no state that the properties above depend on.
- Several replicas: requests are concurrent anyway, but each queue's worker is
  one, as in a single replica.
- `Deals` takes products to be active and their owners not to change.

### What the models show is lost

The passing properties step around these; each can be seen by dropping the
condition named.

Payments and refunds:

- a retried Webpay refund moves its money twice, as its call carries no id
  (`executeRefund` called again after a lost answer);
- two refunds that complete together may write the older sum last, and leave a
  fully refunded payment `PARTIALLY_REFUNDED`;
- an error after the refund row is `COMPLETED` is never repaired: payment, order
  and stock do not learn of the refund (`FullRefundClosesOrder` with faults);
- a reloaded Webpay return writes `FAILED` over `COMPLETED`, as the second commit
  is refused;
- an older answer (of a rejected attempt, read before the approval) may be written
  over a settled payment. If Mercado Pago's notice was answered before that,
  nobody looks at the charge again, and `requestRefund` throws for whoever was
  about to give it back (`WrittenOver`);
- a payment Mercado Pago reports `cancelled` is never reopened, so an attempt
  approved after that on the same preference is charged and ignored. The adapter
  asks for `binary_mode` (`mercadopago.adapter.ts:102-104`), which makes pending
  attempts, and so cancelled ones, rare. Quotations are alike;
- a lost Webpay commit reads `FAILED`; the order is canceled and the charge stays;
- the store's own refund is lost when its notice is answered while an open refund
  of EKORU's stands for the same money, and that refund then fails;
- an accepted (`in_process`) refund that Mercado Pago drops later stays
  `COMPLETED`: nothing asks again;
- a refund row is left open with no job, and its claim blocks the amount, when its
  requester dies before the queue, when `failRefund` throws too after the last
  attempt, or when its job stalls twice;
- a crash between `markPaid` and the queue leaves a paid order whose stock is
  never taken;
- a payment that crosses its window between `reconcileStale` and `expireStale`,
  or is beyond the first 100, is expired unasked; without a notification its
  charge stays unknown;
- a Khipu webhook is checked with the key of the order's seller, and payments
  of quotations and memberships have no order: they stay `PROCESSING` until they
  expire;
- when the users subgraph fails, a paid membership stays inactive: the error is
  logged and nothing tries again.

Stock:

- a restock that runs before the sale is recorded finds nothing, and the sale
  that follows is never put back;
- a crash between the `STOCK` row and the refund of missing units leaves the
  buyer charged for them; so does a request that does not fit (nothing was there
  and part of the payment had already been given back): the next attempt finds
  the row and stops;
- a duplicate's RESTOCK job, which has nothing to put back, keeps the id of the
  order's own from being queued while it waits or has failed.

Orders: two shipping updates at once may leave a stage that neither rule allows
from the other (`RETURNED` and then `SHIPPED`). A shipping called off tells both
parties `ORDER_CANCELLED` while the order stays `PAID`, and a returned one
`PAYMENT_REFUNDED` though no money moved. A fee can be the whole of a small
sale: a peso at 60 % rounds to a peso, though the comment above
`splitCommission` says it never reaches the whole amount.

Deals: a status is written whatever became of the deal, so an expired one can be
completed and a completed one canceled by a request that loaded it before; two
confirmations at once bump `completedCount` twice; two strikes at once count as
one; a strike that does not block writes back the `blockedUntil` it read, and can
erase a block; a crash in the sweep after a deal's status loses its release and
strikes; two proposals, or
two acceptances, at once open two deals for a product; a disputed deal whose
reservation lapsed can be ruled complete after its product was sold in another.

Chat: two first messages at once notify nobody; a participant's block overwrites
an operator's in `blockedById`, and the participant can then lift it, as can an
unblock loaded before the operator's block.

Connections: a renewal that read the tokens of one account overwrites those of
the account connected meanwhile, and one that was under way when a store
disconnected leaves a refresh token, so that the store is told to reconnect; a
completion in flight turns a store on that has disconnected since; a
renewed pair that is lost with the process cannot be renewed again.
