# A verification of the ticket sale behind vozkot-back

This directory models the back end: where money and inventory meet, the durable
job queue everything asynchronous in it rests on, and around them the door,
refunds, the ledger, accounts and sessions, events and their pictures, the
drawing of a room and the map sold from it, payment and message providers, the
message broker, reports, start-up, and the gate every request passes. TLC
model-checks the models on small instances; TLAPS proves, for every size, the
safety properties of the queue, the sale, the idempotency key, refund requests,
accounts, sessions, recurring jobs, the door, events, pictures, the night cut
from a drawing, the map sold from it, tiers, the order endpoints, payment and
message providers, the broker, keys, the start of a release and the gate, and
that the sale implements its abstract specification. Paths below are relative to
the repository's `src/`.

```
tlc -workers 2 -config JobQueue.cfg JobQueue               # one run
tlapm JobQueueProofs.tla                                   # one module of proofs
```

## 1. The system

A REST server over PostgreSQL sells tickets for events. An order takes
inventory when it is placed and holds it for ten minutes as a cart (extended
when the buyer confirms). A payment provider (Mercado Pago or Asaas, PIX or
card) is asked for a charge by a background job; the provider's webhooks only
say "something happened", and the server reads the charge back before it
believes anything. What must happen later is a row in a `jobs` table, written
in the transaction that makes it necessary; RabbitMQ only makes it happen
sooner. Several replicas of the process run the same HTTP handlers, workers
and sweeps.

### Inventory of components

| component | state | operations | module |
|---|---|---|---|
| **Job queue** `infra/repositories/queue`, `usecases/queue` | `jobs` rows: status, dedupe key, attempts, rerun mark, run_at, lock; a worker's jobs in hand | Enqueue, Claim, ClaimByID, Complete, Retry, Kill, ReclaimStale, DeleteCompletedBefore; Dispatch; Worker.Run, ProcessBatch, ProcessMessage | `JobQueue` |
| **Recurring jobs and leases** `usecases/queue/scheduler.go`, `worker.go` | tickers, dedupe buckets, locks with a time | a tick, a claim, a deadline, a recording, the stale sweep, the delay curve | `Cadence` |
| **Broker connection and shutdown** `infra/rabbitmq`, `infra/container` | connections, publications in flight, unacknowledged deliveries, how far the process has stopped | connect, watch, Publish, Consume, Close; Shutdown | `Broker` |
| **Checkout and orders** `usecases/checkout`, `domain/order`, `infra/repositories/order` | `orders` rows: status, hold deadline, confirmed, attached charge | Start, Confirm, Cancel, ExpireHold, ExpireHolds | `BoxOffice`; statement by statement with its locks `Baskets` |
| **Order endpoints** `delivery/http/checkout` | requests under way | create, confirm, list, get, cancel, refund, with what dresses an answer | `OrderPage` |
| **Tier stock** `infra/repositories/ticket`, `usecases/ticket` | `tickets` rows: quantity, reserved, sold, status; cached copies and lists | Reserve, Release, Commit, ReleaseSold; Update, ChangeStatus; cached reads | `BoxOffice`; the desk and the cache `TierDesk` |
| **Seat inventory** `infra/repositories/seating` | `event_seats` rows: status, order, version | Claim, ReleaseForOrder, CommitForOrder, ReleaseSoldForOrder, Block, Unblock; Materialise, BindAreas; the versioned map | `BoxOffice`, `SeatPlan`, `SeatFeed` |
| **Payments** `usecases/payment` | the order's payment fields | CreateCharge, SyncOrder, SyncPayment, settle, RequestRefund, CancelCharge, Refund, AuditSettled, Reconcile | `BoxOffice` |
| **Providers and webhooks** `infra/asaas`, `infra/mercadopago`, `delivery/http/webhooks` | the charges, and whether an answer came back | find, create, get, cancel, refund; notifications | `Providers` |
| **Refund requests** `usecases/refund`, `domain/refund` | `refund_requests` rows | ask, assess, decide, operator refund | `RefundDesk` |
| **Ledger and payouts** `domain/ledger`, `domain/pricing`, `usecases/payout` | ledger entries | fee, accrue, reserve, release, reverse, balance | `Ledger` |
| **Order cache** `infra/repositories/order/cached_order_repository.go` | one entry per order, for a second | GetByID fills it | inside `BoxOffice`, `Door`, `OrderPage`, `Providers` |
| **Admissions** `domain/admission`, `usecases/admission` | admission rows: issued, admitted, void, and who admitted | issue, void, scan; draw and read a code; back-fill old orders | `Door`, `AdmissionCode`, `DoorDesk` |
| **Idempotency** `domain/idempotency`, `delivery/http/httpx/idempotency.go` | claim, lease and stored response per key | begin, take over, recover, complete, release, sweep | `CheckoutReplay` |
| **Accounts** `usecases/auth`, `domain/auth`, `domain/user` | users, challenges | request a code, verify, register, prove a phone, save a profile | `Accounts`, `Identity` |
| **Sessions** `usecases/auth`, `infra/repositories/auth` | the session row, its cache, the browser's cookies | refresh with rotation and grace, look up, log out | `Sessions` |
| **Encryption at rest** `infra/crypto`, `infra/crypto/piigorm` | the keyring each replica loaded | seal, open, blind index, rotation | `Keyring` |
| **Events** `usecases/event`, `infra/repositories/event` | events, slugs, pins | create, update, publish, cancel, place a pin, delete | `EventDesk` |
| **Catalogue listing** `infra/repositories/event`, `delivery/http/event` | nothing of its own | list, count, options | `Catalogue` |
| **Pictures** `usecases/media`, `infra/repositories/media` | rows and stored objects | add, remove, delete with the event | `Gallery` |
| **Seating design** `domain/seating`, `usecases/seating` | layouts, sections, chairs | generate, number, check overlap and access, suggest, best seats; save, publish, cut a night | `SeatRoom`, `SeatPlan` |
| **Notifications** `usecases/notification`, `infra/notifications` | queued messages, a provider's keys and token | enqueue, render, send, sign in | `Notices` |
| **Reports** `usecases/report`, `infra/repositories/report` | nothing of its own | dashboard, portfolio, list, export | `Reports` |
| **Start-up** `infra/database`, `cmd/server` | schema, indexes, advisory lock | migrate, back-fill, build indexes, serve, drain | `Startup` |
| **Request gate** `infra/http/middleware`, `infra/redis` | slots, gauges, counters with a window | bulkhead, session check, budgets | `Gate` |

### Behaviours that are hard, and what makes each component correct

* **Queue.** The poller, broker deliveries, redeliveries, the stale sweep,
  crashes and half-failed bookkeeping race for one row, while new events for
  the same key arrive. Correct: one run per dedupe key at a time; no event
  forgotten; a job in hand is never taken by another process; what is finished
  stays finished; everything is handled or parked in the end, without the broker.
* **Stock and seats.** Checkouts, late payments, expiries, refunds and
  organiser edits move the same counters and chairs. Correct: nothing is sold
  beyond the offer or the area; the counters are exactly a projection of the
  orders, and the chairs of the orders that name them.
* **Payments.** Four kinds of job read the order without a lock, talk to a
  provider for seconds, and settle with an answer that may be old; the jobs run
  concurrently, are retried after doing half their work, and may be parked.
  Correct: entry and the organiser's claim stand exactly while the order is
  paid; no entry without money; money that has nothing left to buy is given
  back; every hold ends; every paid charge is answered.
* **Door.** Scanners read the admission, the order (through the cache) and the
  admission again in separate statements, while payments, refunds and other
  scanners come between. Correct: a ticket opens a door once, never after its
  money went back, and what a screen says of who came in is so. The printed code
  is copied by hand: one wrong or exchanged character must never be another
  person's ticket.
* **Idempotency.** A request dies between claiming its key, buying and recording
  the answer; its retries race to take the key over. Correct: one request at a
  time does the key's work, a key answers only for the body it was first used
  with, and a retry is shown the order.
* **Locks.** Baskets take the rows of several tiers and chairs, a sweep those of
  many orders, while two checkouts of one buyer both read how many she holds.
  Correct: what is committed adds up and keeps the limits, and baskets never
  wait for each other in a circle over counters.
* **Refunds and the ledger.** Requests, decisions, an operator and settlement
  meet on one order; a show moves between a sale and its pay day. Correct: one
  refund, on record; a decision stands; the claim follows the money to the cent.
* **Accounts and keys.** Two first sign-ins of one address, two refreshes of one
  session, a document sealed under keys that change while replicas are replaced,
  two requests that read and write one profile without a lock. Correct: one
  account, one document's owner, a dead token let in for a cache's lifetime at
  most, and no document lost to a missing key.
* **Rooms.** Geometry and numbering of chairs, then two organisers cutting one
  night out of a drawing that a third is saving, then a map polled while chairs
  are claimed. Correct: chairs are told apart; one organiser cuts the night; an
  old map costs a refused claim and no more.
* **Providers.** A call is refused, never arrives, or is obeyed and its answer
  lost; it is tried again. Correct: one charge, one refund, one message.
* **Reading while the sale goes on.** Listings are read page by page, reports
  query by query, exports batch by batch. Correct: what stood still is shown
  once, and a breakdown accounts for its total; an export repeats no line.
* **Deploys.** Replicas of two releases and two keyrings run at once, migrate,
  build indexes, are stopped or die. Correct: no sale is lost or rewritten, no
  rule is taken down, and a process that had the time finishes its batches.

`PROJECT.json` lists each hazard at its line, with the properties that watch it.

## 2. Modules

| module | what it is |
|---|---|
| `JobQueue`, `JobQueue.cfg` | the queue: table, workers, broker, crashes |
| `JobQueueProofs` | inductive invariant and five theorems |
| `TicketSale` | the abstract specification: what a sale promises |
| `BoxOffice` | orders, their cache, tiers, chairs, provider charges, payment jobs; refines `TicketSale` |
| `MCBoxOffice`, `BoxOffice_*.cfg` | its TLC instances |
| `TicketSaleProofs` | the ideal sale's two promises |
| `BoxOfficeProofs` | types, counters and limits, for every hall and every set of orders |
| `BoxOfficeSettlementProofs` | chairs, admissions, ledger flags, money and debts against the orders; `BoxOffice` implements `TicketSale` |
| `CheckoutReplay` | one idempotency key and the requests that carry it |
| `AdmissionCode` | the printed code, copied by hand |
| `RefundDesk`, `Ledger`, `Accounts`, `Sessions`, `Baskets`, `Cadence` | refund requests, what is owed, signing in, sessions, row locks, recurring jobs |
| `Office` | the eight parts above, side by side |
| `MCOffice`, `Office.cfg` | its TLC instance |
| `BasketsProofs` | an inductive invariant for transactions as statements behind row locks |
| `OfficeProofs` | an inductive invariant for each part, and twelve theorems |
| `Door` | admissions issued, withdrawn and spent |
| `EventDesk`, `Gallery`, `SeatRoom`, `SeatPlan`, `SeatFeed`, `TierDesk`, `OrderPage` | events, pictures, rooms, nights, the map, tiers, order endpoints |
| `House` | the door and these seven, side by side |
| `MCHouse`, `House.cfg` | its TLC instance |
| `HouseProofs` | an inductive invariant for each part but the drawing, and nine theorems |
| `Providers`, `Broker`, `Keyring`, `Identity`, `Catalogue`, `Notices`, `Reports`, `Startup`, `DoorDesk`, `Gate` | payment providers, the broker, keys, documents, the listing, messages, reports, start-up, back-fill, the gate |
| `Backstage` | these ten, side by side |
| `MCBackstage`, `Backstage.cfg` | its TLC instance |
| `BackstageProofs` | an inductive invariant for six of the ten, and three theorems |
| `MCPanel`, `Panel.cfg` | `TierDesk` with two events, for a disagreement |

Three compositions are *side by side*: a variable `part` is chosen at the start
and never changes, the part it names moves, the others stand still (in `Backstage`
all their variables at `idle`). The parts
share no state there, so one run of the composition is a run of each; a
property of the composition is a conjunction of implications `part = ... =>`, so
a theorem about the composition is one about each part. `INSTANCE ... WITH`
names the parts; all three take every bound as a constant, and only their MC
modules give values. Where parts do
share state they are one module: the queue's jobs, the orders, stock, seats and
charges of `BoxOffice`; orders, the cache and admissions of `Door`; tiers, their
cache and the checkout of `TierDesk`; the layout, the night and the stock of
`SeatPlan`.

`Door` and `CheckoutReplay` are not composed with `BoxOffice`: the first needs
of it only when an order becomes paid and refunded, which `BoxOffice` shows to
be single steps that move the admissions too (`EntryAndClaimMatchPayment`); the
second treats a checkout as the one transaction `BoxOffice!Start` is. That a
transaction may be taken as one step is what `Baskets` shows of its statements
(`SeenWhole`).

### JobQueue and the code

| model | code |
|---|---|
| `row[j]` | a `jobs` row; `due` is `run_at <= now`; `attempts` saturates one above the budget, which is all that is ever asked of it |
| `holder`, `seen`, `polled` | what a worker has in memory between the claim and its bookkeeping |
| `dispatching`, `messages` | publications in flight; references queued in the broker |
| `events`, `served`, `parked` | history variables: how many reasons a key was enqueued for, and how many a finished or parked run had seen |
| `EnqueueNew`, `EnqueueDuplicate` | `Enqueue`: the insert, or `ON CONFLICT` on the partial unique index: the rerun mark when the open row is processing, nothing when it is pending |
| `ClaimBatch`, `Deliver` | `Claim` with `SKIP LOCKED` plus `ProcessBatch`; `ClaimByID` plus `ProcessMessage` |
| `Observe` | the moment the handler reads the state it acts on |
| `Succeed`, `FailForNow`, `FailForGood` | `Worker.run` to `Complete`, `Retry`, `Kill` |
| `BookkeepingFails`, `Crash`, `Shutdown`, `Exit`, `Restart` | the statement after the handler fails; the process dies; drains |
| `ReclaimStale`, `DeleteCompleted` | the stale sweep and the retention sweep |

What a handler does is abstracted to when it reads. Two processes can act on
one row only after `ReclaimStale`; the model lets it take rows nobody has in
hand, the lease assumption (`staleAfter` exceeds what a handler may take). The
code validates only that `staleAfter` exceeds the handler's own timeout, and ten
seconds of bookkeeping come on top; `Cadence` has the clock for that, and shows
that one job has one handler whenever the sweep's patience covers both.
`Exit` waits for every job in hand. For jobs a broker delivered the code does
not wait (see `Broker`); in `JobQueue` that is a `Crash`.

### BoxOffice and the code

A database transaction is one action. This is sound for these handlers because
each takes the order row `FOR UPDATE` or moves it by a conditional `UPDATE`
before writing anything else, and a refused counter movement is an error that
rolls everything back. Two read-then-enqueue handlers (`Reconcile`,
`RequestRefund`) are also one action: what they write is one job whose handler
reads the order again.

A job that talks to the provider is never one action:

| stage of `call[o][job]` | code |
|---|---|
| `Begin` | claim, unlocked read of the order, early returns (`FirstStage`) |
| `ask` → `CreateCharge`, `CancelCharge`, `RefundCharge` | the provider call; the order id is the idempotency key |
| `fetch` → `FetchCharge` | `SyncOrder` for an order that already has a charge |
| a charge status → `Settle` | `settle` with that answer, however old |
| `AttemptFails`, `JobParks` | the attempt ends half-way and is retried; attempts run out |

`Settle` splits into `SettleNoMove`, `SettlePaid` (in time, or late by taking
the stock again), `SettleRefundRequired`, `SettleClosed` and `SettleRefunded`,
the branches of `payment.Service.settle`. `SyncPayment` has no read of the order
before its fetch, so `Begin` takes the provider's answer at once. `Refund`'s
read-back is merged with the refund: it finds the charge refunded, or only taken
up (`refund_requested`), which settlement does not act on.

`charge[o]` is the provider's word and `MapStatus` what the gateways make of it:
an open dispute and a refund that was taken up both read as `in_analysis`. The
provider may win a dispute for the buyer or not, and makes the refunds it took up
or never does; it drops none.

A basket line of quantity *n* is *n* units of a tier, so counters are
cardinalities of sets of (order, unit) pairs, `Qty(S, t)`. A counted unit has
no identity beyond its order; a unit in `Seats` is a chair.

`copy[o]` is the order cache's entry. `Row`, `Poll` and `Seen` are
`CachedOrderRepository.GetByID`: an unlocked read takes the entry if there is
one. `Poll` stands for any reader that fills it; that read and the cache's
`Set` are one step, although a slow `Set` could store an even older row.
`CopyExpires` is its second. No transaction drops an entry, because the unit of
work builds its repositories without the cache. The payment jobs' first reads
and `RequestRefund` go through `Seen`; `settle` and the sweeps read the row.
`Cached = FALSE` makes every read current, for the runs that ask about
something else.

`over` says that the event's date has passed. `DateMoves` moves it either way, as
time and organisers do; `AuditSettled` looks at paid orders of events to come only
(`EventNotBefore`).

Left out of `BoxOffice`: prices, fees and amounts (one flag per order; `Ledger`
has the money), hold limits (`Baskets`), HTTP idempotency (`CheckoutReplay`),
refund requests (`RefundDesk`), the identity of tickets inside an order (`Door`,
`DoorDesk`), and `hold.expire` jobs as state (each pending order has one, so
`ExpireHolds({o})` is always possible once the hold lapsed). `EditTier` lets an
organiser save any edition the CHECK constraint lets through: `ticket.Update`
writes from a copy read without a lock, so the copy may be any earlier one.

### TicketSale, and the refinement

`TicketSale` has no counters, no chair rows, no charges and no jobs: an order
is out, holding, entitled or returned; a basket is taken whole, while there is
room. `BoxOffice!KeepsTheSale` is `TicketSale!Spec` under the mapping
`phase <- Standings` (the status), `offer <- Offering` (the quantities),
`withheld <- Withheld` (blocked chairs), checked by TLC as a property of the run
`sale_chair` and proved in `BoxOfficeSettlementProofs`. It is what the counters, the chair
rows and the job machinery are for.

### Door and the code

`order[o]` is open, paid or refunded: what settlement makes of an order as far
as its admissions go. `Settle` and `Refund` are the branches of
`payment.Service.settle` that issue and void; each is one transaction. `Scan`
is not: `Present` is its first read and what that settles (`FirstAnswer`:
unknown, another event, void, already admitted), `CheckOrder` the read of the
order through the cache, `ClaimWins` and `ClaimLoses` the conditional `UPDATE`
of `Admit`, `Reread` the loser's second read. `ClaimUnanswered`, `ScanFails` and
`RereadFails` are the same statements failing, before or after they took
effect. `entries` counts the times a screen said "admitted", which is when
somebody walks in; an unanswered claim shows a fault and lets nobody in. The
instance gives each order one ticket; the module does not ask for it.

### AdmissionCode and the code

A character is its index in the alphabet of 31; look-alike letters and
separators are further values. `NewCode` appends the check character, `ParseCode`
drops separators, reads look-alikes and checks length, alphabet and check
character in the order of `domain/admission/code.go`. The actions are a person
typing: separators anywhere, look-alikes for digits, and at most one slip, a
wrong character or an exchange of two.

### CheckoutReplay and the code

One key is the whole system: nothing in the code relates two. `row` is its row
in `idempotency_keys`; `lapsed` and `expired` say that its lease and its day
are over (a request's own `now` is a few milliseconds old, which is ignored).
Each statement of `IdempotencyRepository.Begin` is an action, `Insert`, `Read`,
`Revive`, `TakeOver`, since requests come between them; `Recover` is the lookup
of an order an earlier owner left, `Work` the checkout's transaction under the
unique key of the orders table, `Complete` and `Release` the last statements,
neither of which asks who owns the row. The history variable `mishaps` records
what has gone wrong: a lease that ended while its request was working
(`overrun`), a day that passed (`expiry`), a lookup, a commit or a last statement
that failed (`fault`). A crash is not a mishap: no property is excused by it.

### Around the sale: Office

An action named like a function of the code is that function's statement or
transaction; the others are named for the step between two of them. `desk`,
`call`, `tab`, `tx`, `hands` are what a request or a worker holds in memory
between its statements.

| part | state and actions | code |
|---|---|---|
| `RefundDesk` | `requests` are rows of `refund_requests`; `purchase` and `money` the order and its refund job. `Ask` reads the order (a second old, perhaps), the open request and the show, `Judge` applies the policy, `File` inserts under the partial unique index and, when approved, writes the job; `Decide` holds the row lock; `OpenOperatorRefund`, `RequestRefund`, `GiveBack` are payment's side | `usecases/refund/service.go`, `domain/refund` |
| `Ledger` | `ledger` is the append-only table in centavos, `clock` hours. `SettlePaid` accrues the face, less a reserve, due on a banking day of Brasília time; `SettleRefunded` reverses; `SettleOtherwise` writes nothing; `Reschedule` moves the show. The service fee is rounded half up per ticket, the reserve down | `domain/pricing`, `domain/ledger`, `usecases/payout` |
| `Accounts` | `challenges`, `users`, `sessions`; `StartEmailSignIn`, `Send`, `Present`, `Count`, `Spend`, `FindByEmail`, `Create`; `VerifyPhone`, `Save` and `SaveProfile` read and write the profile apart | `usecases/auth/verification.go`, `service.go`, `profile.go` |
| `Sessions` | `row` with its current and previous hash, `cache`, `pointer`, and the browser's `jar` shared by its tabs. `RefreshFinds`, `Rotate` (conditional on the hash read), `Forget`; `Lookup`, `Store`, `Point`; `Logout`. Tokens are numbered in order of issue | `usecases/auth/service.go`, `infra/repositories/auth` |
| `Baskets` | `tx` is the set of statements a transaction has left, each with its turn (tiers by id, chairs in the order of a scan), `row` the newest version of each row, `committed` the one others see, `locks` who has written or locked it. `Look` reads the order once its lock is had; `Step` executes the statement whose turn it is when its row is free and matches; `Misses` is a statement that finds nothing; `Deadlock` aborts one of a circle | `usecases/checkout/service.go`, the `order`, `ticket`, `seating` repositories |
| `Cadence` | `jobs[t]` is the row of turn *t* (a dedupe bucket is a turn). `ScheduleTick` asks for the next turn, `Claim`, `Return`, `Record` are an attempt with its deadline, `ReclaimStale` compares `locked_at` with the clock. `Pass` does not let an attempt outlive its deadline, nor a ticker be read more than `Late` after it fired | `usecases/queue/scheduler.go`, `worker.go`, `domain/queue` |

### Around the event: House

| part | state and actions | code |
|---|---|---|
| `EventDesk` | an event's row as far as its status, address and pin; `Read`, then `Update`, `ChangeStatus`, `PlacePin`, `Drop`, each a statement of its own | `usecases/event`, `infra/repositories/event` |
| `Gallery` | `gallery` rows, `objects` stored; `Inspect`, `Process` (behind the slots), `Store`, `NextPosition`, `Create`; `RemoveRow`, then `Discard`; `DeleteEvent`, `DeleteByEventID`, `Drop`; `Dies` anywhere | `usecases/media`, `infra/repositories/media` |
| `SeatRoom` | operators for rows, curves, numbering, labels, overlap, the accessible quota, its suggestion, and the best seats of a party; `Draw`, `SuggestAccessibleSeats`, `GenerateLayout`, `Sell` walk through them. A chair on an arc is kept by its bearing | `domain/seating` |
| `SeatPlan` | `layout` and `stored` sections, `chairs` and `manifest` of the night, `stock`. `Save`, `DeleteSeats`, `DeleteSections`, `ReplaceSections`; `ReadSections`, `ReadChairs`, `Materialise`, `BindAreas`; the checkout's area cap | `usecases/seating`, `infra/repositories/seating` |
| `SeatFeed` | `sequence` is taken by a claim before it `Commits`; `Map` and `Reload` are a client's poll with its cursor | `seat_repository.go`, `domain/seating/event_seat.go`, `delivery/http/seating` |
| `TierDesk` | `one` and `list` are the cached tier and lists; `GetByID`, `OnSaleTiers`, `StoreList`, `Update`, `Invalidate` beside `Start`, `Reserve`, `Release` | `usecases/ticket`, `cached_ticket_repository.go` |
| `OrderPage` | `request[q]` is how far a request has come through its handler, with the error it met and the status it answers | `delivery/http/checkout/handler.go` |

### Behind the house: Backstage

| part | state and actions | code |
|---|---|---|
| `Providers` | `charges` at Asaas or Mercado Pago; `job` per kind; `copy`, the cached order. `Attempt` begins a job with the row or the copy (`Seen`), `Remember` is a look that fills it, `Call` is one request to the provider, `Unanswered` one obeyed without an answer, `CallFails` one refused; `Settle` records; `ChargeMoves`, `ChargeLapses`, `ChargeDeleted` are the provider's doing | `infra/asaas`, `infra/mercadopago`, `delivery/http/webhooks` |
| `Broker` | `open` connections, `broker` the one in use, `watch`, `consume`, `hand`. `Publish`, `Confirmed`; `Delivers`, `Take`, `Run`, `Ack`; `Shutdown`, `Leave`, `Return`, `Close`, `CloseDatabase`, `Exit` | `infra/rabbitmq`, `container.go` |
| `Keyring` | `environ` is the environment operators set, `ring` what a replica loaded at `Boot`; `row` holds version, seal and blind index; `edit` is what each request read. `Save` and `VerifyPhone` read the whole profile, `SaveProfile` writes all of it, whatever was written since (`fresh`) | `infra/crypto`, `piigorm` |
| `Identity` | operators for check digits, ages and phones over characters as numbers; `Types`, `Retypes`, `Save`, `VerifyPhone` | `domain/user` |
| `Catalogue` | `reader` is one listing under way: `List`, `Count`, `NextPage` are separate queries; `CategoryCounts`, `CitiesListed` the options, `Picks` the listing one leads to | `event_repository.go`, `delivery/http/event` |
| `Notices` | `row` jobs, `accepted` the provider's keys; `Enqueue`, `Deliver`, `Login`, `Send` with its lost, unanswered and refused forms | `usecases/notification`, `infra/notifications` |
| `Reports` | a line is a row of the order, one for every chair; `request` is the one under way; `SalesReport` and `Attendees` a query each, `StreamAttendees` a batch, `Asks` and `authorise` before them | `usecases/report`, `report_repository.go` |
| `Startup` | `schema`, `index`, `lock`; `RunMigrations` one transaction, `BuildBegins`, `BuildEnds`, `BuildFails` a concurrent index, `OldSells` the release before | `infra/database`, `cmd/server` |
| `DoorDesk` | `run` walks the paid orders: `ListPage`, `Examine`, `Mint` | `cmd/backfill-admissions`, `payment.Service` |
| `Gate` | `slots`, `gauge` of a replica, `counter` in Redis with its time to live; `Enters`, `Authenticates`, `Count`, `Works`, `Ends`, `Returns` | `infra/http/middleware`, `infra/redis` |

`TypeOK` of each part keeps its own module's shape; the composition's
`OfficeTypes`, `HouseTypes`, `BackstageTypes` ask it of whichever part moves, the
last of the six parts that are proved about; of the other four `TellingSound` does.

## 3. Runs

Bounds are the ones in the `.cfg`, and in the `INSTANCE ... WITH` of the MC
module for a part. On two cores the first six take seconds to two minutes, the
three compositions two to three minutes each.

| run | instance and bounds | shows |
|---|---|---|
| `jobs` | 2 rows, 1 key, 2 workers, batch 2, prefetch 1, 3 events, 2 faults | `TypeOK`, `SerialPerKey`, `NoLostEvent`, `ExclusiveClaim`, `FinishedStaysFinished`, and `EventuallyServed` with nothing assumed of the broker |
| `sale_floor` | 2 baskets of 2 units, 3 places by quantity in one edition and by area in the other | `NoOversell`, `StockMatchesOrders` |
| `sale_chair` | 2 orders after 1 chair of a tier of 2 | `SeatsMatchOrders`, and the refinement `KeepsTheSale` |
| `sale_lone` | 1 order behind its cache, 3 provider conversations at once, every charge outcome, failed and parked attempts, a refund made or only taken up, an organiser who stops the sale | `TypeOK`, `EntryAndClaimMatchPayment`, `NoEntryWithoutMoney`, `RefundNeverForgotten` |
| `sale_progress` | 1 order, one failure, notifications arrive, a refund may only be taken up | `HoldsEnd`, `PaidMoneySettles`, `RefundsComplete` |
| `sale_audit` | 1 order, notifications may all be lost, disputes, a date that passes or is moved | `ClawbackNoticed` |
| `office` | see below | `OfficeTypes` and the properties of eight parts |
| `house` | see below | `HouseTypes` and the properties of eight parts |
| `backstage` | see below | `BackstageTypes` and the properties of ten parts |
| `sale_void`, `sale_reconcile`, `panel` | 1 order; 2 tiers of 2 events | violations: section 6 |

What the parts of a composition promise, and on what instance:

| part | bounds | promise |
|---|---|---|
| `CheckoutReplay` | 3 tries of one checkout, a stray request with another body, every mishap | `SingleWorker`, `AnswerMatchesBody`, `RetryIsShownTheOrder` |
| `AdmissionCode` | codes of 13 characters, every wrong character at every place, every exchange | `CodesHold`: a code is read as its ticket's and never as another's |
| `RefundDesk` | 1 order, 2 callers of 3 kinds, 2 requests, the window open or shut | `TurnsTaken`: one open request, an approval has its refund, no refund without an approval. `DecisionsStand`: answered once, and what was asked is not rewritten |
| `Ledger` | 2 sales of 3 tickets, faces 0, 9 and 3335, 5 moments, a holiday, 3 show times | `AccountsSound`: the claim is the face value exactly while the order is paid; what is due falls on banking days after the show |
| `Accounts` | 2 requests, 1 new address and 1 member, 1 guess | `AccountsSound`: one account an address and a document; a session and a proven phone belong to who proved them |
| `Sessions` | 2 tabs, 3 tokens, moments around the grace and the cache's life | `AccountsSound`: a dead token is let in for a cache's lifetime at most |
| `Baskets` | 2 connections, 3 orders of 2 buyers, 3 tiers, 1 chair | `TillSound`: hold limits; what is committed is a projection of the orders; no circle of waiting over counters alone, unless a sweep is in it |
| `Cadence` | 2 schedulers, 1 worker, a clock to 6, 1 fault | `TurnsTaken`: one job a turn, no two turns running missed, one handler a job and an attempt recording itself while the stale sweep outwaits both, a provider's wait is waited |
| `Door` | 2 tickets of 2 orders, 3 scanners at 2 stages | `OneEntryPerTicket`, `AnswersTrue`, `NoEntryOnceRefunded`, `AttendanceKept` |
| `EventDesk`, `Gallery`, `SeatPlan`, `TierDesk` | 2 events of one name; 2 uploads, 1 slot, 2 pictures; 2 drawings, 2 price lists, 2 tickets; 1 tier, a cache of three seconds; 2 requests each | `CatalogueSound`: addresses lead to one event, no row without its bytes, one caller cuts a night and its floors are counted, no tier owes more than it has or lingers on a panel |
| `SeatRoom` | 8 drawings of a section, 2 sections, parties of 1 to 3 | `SeatingSound`: chairs apart, a saved room stands, suggestions fit, a party sits together |
| `SeatFeed` | 2 chairs, 2 orders, 1 client, 5 versions | `OldMapSellsNothingTwice`: a chair is one order's whatever a map shows, and a map never goes back |
| `OrderPage` | 2 requests of 10 kinds, 2 orders, 1 fault | `OrderPageSound`: what was made is told, a hold is extended once, a page stands, a refusal has its reason |
| `Providers`, `Broker`, `Notices`, `Gate` | 1 order and its cached copy, 2 attempts, some of the moves of a charge (`MCTurns`); 1 message, 2 connections; 4 messages; 2 replicas, 2 requests; 1 fault each, 2 for messages | `EdgesSound`: one charge that outlives its hold, goes back once and, once voided, stays unpaid; within the prefetch and nothing confirmed is lost; a message once and with no void ticket; slots and budgets kept |
| `Catalogue`, `Reports`, `Identity`, `DoorDesk` | 3 events, 6 filters, pages of 2, 1 change; 2 organisers, 2 orders, one with two chairs of a tier, batches of 2 of at most 4; 2 documents, 1 slip; 4 orders, 2 runs, pages of 2 | `TellingSound`: pages whole and totals true; breakdowns account for totals, an export repeats nothing and nobody sees another's buyers; slips caught, age and document kept; a ticket for each place and nobody left out but by a move |
| `Startup`, `Keyring` | 2 replicas, 3 tiers, 3 sales, 3 indexes; 2 replicas, 2 accounts, 2 key versions | `ReleaseSound`: receipts, shows and rules survive a deploy; documents open, have one account each, and are kept up to an overtaken write |

Why the bounds are enough to mean something. Two rows of one key are the least
that can break seriality; three events are the least in which one arrives
before, one during and one after a run; two faults allow a crash during the
repair of a crash. A race for stock needs two orders, and each hall holds one
basket but not two. Stale answers need several conversations about *one* order,
which is why `sale_lone` has one order and three conversations while the races
between orders have one conversation. A race at the door needs two scanners at
one stage, and a third at another to be wrong about the event; a race for a
lapsed claim needs its first owner and two retries. Two requests, two replicas
or two connections are the least that interleave, and each part's moments lie on
both sides of every time the code compares with. `MaxOpen` bounds how many
jobs are open when outside news (webhooks, sweeps) is announced; the jobs of
the transactions themselves are never refused. In the liveness runs it is above
the number of jobs that can exist, so no fair action is disabled by a bound.
One document is enough for `Keyring`'s index to be fought over and for an old
reading, that of no document, to be put back; that a document is put back over
another is left to the proof, which has any number of them. An export of three
rows in batches of two has a boundary inside a tie. Orders are symmetric in `sale_floor` and `sale_chair`, and what two names of one
set stand for (retries, requests, callers, replicas) in the compositions; no
liveness is checked there. `CHECK_DEADLOCK FALSE` stands where a system may
really stop: every job finished, every order closed, every request answered.

Some properties are stated under a premise that something has not happened:
`ClawbackNoticed` while the event is to come, `RefundsComplete` up to a refund
the provider sits on, `DocumentsKept` up to a write that another overtook
(`torn`), `ExportTellsAll` up to chairs of a tier on which a batch ended, `BudgetKept` while Redis answered, `NobodyLeftOut` up to the
orders moved under the run, `AnswerMatchesBody` and `RetryIsShownTheOrder` while
no lease was overrun. Section 6 lists what happens otherwise.

## 4. Fairness

* `JobQueue!FairSpec`: the poller ticks (`SF` per row: `Claim` orders by
  `run_at`, so a due row is not passed over for ever), a handler ends (its own
  deadline), the stale sweep ticks, a process that went down is started again.
  Nothing is assumed of the broker or the dispatcher.
* `BoxOffice!JobsRun`: the queue runs every open job, which is what
  `EventuallyServed` shows of the queue. `SF` for `Begin`, because a
  conversation slot may be taken by another job; `WF` for the rest.
* `BoxOffice!SweepsRun`: deadlines pass; the hold sweep and reconciliation tick
  every minute and the audit every hour.
* `NoticesArrive` only in `sale_progress`. Buyers, organisers and the provider
  owe nothing.
* The parts of the three compositions state no liveness: a browser, a scanner, a
  client or an operator owes nobody a step, and a request that dies is one of the
  behaviours. What must come in time is a safety property with a clock instead:
  `NoTwoTurnsMissed`, `DeadTokensLapse`, `PatienceRewarded`, `TierSound`.

`PaidMoneySettles` excuses an order whose `payment.sync` job is parked: then a
person has been left the job, and the queue never retries it.

## 5. What is proved

`JobQueueProofs` shows for every number of rows, keys, workers, attempts, events
and faults, assuming only `ConstantsAssumption`:

* `Typing`, `Serial`, `NothingLost`: `TypeOK`, `SerialPerKey`, `NoLostEvent`
  are invariants;
* `Exclusive`, `Finished`: `ExclusiveClaim` and `FinishedStaysFinished` hold of
  every step.

The strengthening is `IInv`: a row that exists has a key (`KeyedRows`), what a
process has in hand is marked processing (`HeldRunning`), and no key has two
open rows (`OneOpenRow`, the partial unique index). `SerialPerKey` is the last
two together. `NoLostEvent` needs all of them in one place only: when a run
that read too little succeeds, some row still had to be going to read the rest;
the index says it is this very row, and since its handler has already read, the
only reason left is the rerun mark, which makes `Complete` open the row again.
Elsewhere it is enough that no row stops being one that will be read
(`StillNoLostEvent`).

The box office's proofs assume only `SalesAssumption`, and run in stages.

1. `BoxOfficeProofs!Shape` is `TypeOK` with the trace a charge leaves: wherever
   an answer is being settled, a sync is open, a notification is out or an order
   or a cached copy of it is attached, the charge exists (`TraceOfCharge`).
   Without it, `FirstStage` could start a conversation at "none", which is no
   stage. It is preserved action by action (`StepShape`), and gives `Typing`.
2. Of the twenty-four actions few touch the sale at all. `NextIsSaleStep` shows
   that every step holds, closes, buys in time, buys late, owes, gives back,
   repays, edits, rearranges chairs, or leaves statuses, stock and books alone
   (`SaleStep`). The later proofs split on these nine and not on the actions.
3. `Stock` is `NoOversell` with `StockMatchesOrders`. The guards look at the
   counters alone; that the counters are sums over orders (`QtyAdds`,
   `QtySubtracts` on cardinalities) is what makes a release of one order leave
   the others' stock in place, and a commit keep the total. It gives
   `NeverOversold` and `CountersMatch`.
4. `Seating` (`ChairsMatch`) and `Books` (`BooksMatch`) are inductive beside
   `Shape`: a chair that is claimed was available, hence nobody's; an order that
   becomes paid has neither an admission nor a claim yet.
5. `Honest` needs what conversations in flight carry: an answer "paid", however
   old, is of a charge that was paid and at most went back since (`PaidNews`),
   and the refund job only ever asks, or brings the answer to a refund the
   provider has taken up (`RefundStages`). A read-back "in_analysis" ends the job
   and leaves the order owing; the debt is then the provider's (`TakenUp`), which
   no move of a charge undoes. The cache adds one conjunct: a
   copy that says refunded is of a refunded order (`CopyTrue`), so a refund job
   that ends because there is nothing left to do tells the truth. It
   gives `NeverFree` and `DebtsPursued`.
6. `BoxOfficeSettlementProofs!KeepsItsPromise`: `Spec => KeepsTheSale`. `Stock` makes
   the two levels count the same claims (`ClaimedIs`) and, with `Seating`, what
   checkout asks of the rows is the ideal sale's `Room` (`RoomIs`); each of the
   nine kinds of step is then one step of `TicketSale`, and a debt is a stutter.

`TicketSaleProofs` shows `OneClaimant` and `WithinOffer` of the abstract sale
itself, for any constants that make a hall (`OffersAssumption`);
`BoxOfficeSettlementProofs!SameHall` derives that from the box office's own assumption,
so the refinement brings both down to it.

### The office

`OfficeProofs` works on the composition: a step of `OfficeNext` is a step of one
part and leaves the others alone (`OnePartMoves`), so an invariant is shown part
by part, one lemma a handler, and put together in `OfficeInv`. Every theorem
assumes what its part's module asks of the constants and no more:
`OfficeAssumption` is the conjunction of `DeskAssumption`, `AccountAssumption`,
`SessionAssumption`, `LedgerAssumption`, `CadenceAssumption` and `TillAssumption`;
`CheckoutReplay` and `AdmissionCode` have their own. The number of requests, orders, accounts,
tokens, schedulers, workers, turns and faults is arbitrary.

* **Keys** (`OneWorker`, `AnswersMatch`, `RetriesAreShown`). `ClaimInv` ties every
  working request to an unfinished, unlapsed row (`OwnersClaim`) and lets nobody
  take over a row that expired while it was read (`TakersInTime`). The other two
  properties come from `Calm`: until a mishap, the row keeps the hash of whoever
  made the order, and while a request is at work no order is stored yet.
  `KeysInTheOffice` carries all three to the composition.
* **Printed codes** (`SubstitutionRefused`, `TranspositionRefused`), of every code
  and not only the drawn ones: the weighted sums differ by a product of two
  factors that are neither zero nor a multiple of 31, which is prime.
  `CodesStay` takes this to what is typed, of any length: `ReadAs` says that
  twelve marks stand somewhere on the slip in rising order and which word they
  are read as, `Slipped` how far that word is from the code. A separator moves
  marks and changes none; a look-alike changes none either. What `ParseCode`
  reads is written with the place of the nth mark (`NthMark`) instead of a filter of
  a sequence, which is what makes `ReadingIs` a matter of counting.
* **Refund requests** (`TurnsAreTaken`, `DecisionsAreFinal`). `DeskInv` says that no
  order has two open rows (the partial unique index), that an approved row has its
  money queued or returned (`ApprovedIsPaid`), and that money was asked for on
  record (`MoneyIsAsked`). That the approval and its job are written in one
  transaction is where all three are restored together; a request judged on an
  order a second old is harmless because the index and not the judgement decides.
* **Accounts** (`AccountsStaySound`). What is proved is of the tables, but a request
  writes what it read statements ago, so `UsersInv` needs `HandHonest`: a request
  about to spend a code read one whose tries were not used up, one about to save
  a profile read the address the account still has (no action changes it), and
  a phone in its hands was proven by that user.
* **Sessions** (`AccountsStaySound`). A token dies while another request is between
  reading its row and caching it. `JustDied` says that such a request read it in
  this very second; hence a cache entry ends at most thirty seconds after its
  token died (`CacheBounded`), which is `DeadTokensLapse`. `Chain` orders the
  tokens: the previous one is older than the current, and dead.
* **Ledger** (`AccountsStaySound`), for any prices, show times and finite set of
  holidays. `BooksInv` spells out what the ledger has of an order (`Recorded`): its
  accrual as the sale was paid, with one entry back once the money went, or
  nothing. A balance is a fold over a set; `SumExists` and `TotalWithout` show, by
  a smallest counterexample (`SmallestFinite`), that it has a value whatever the
  order it is folded in, so that a row more is its amount more (`SumTakes`). The day money falls
  due exists because every week has a Monday and the holidays end
  (`DaysEnough`, `DayReached`); reserve and sale add up to the face exactly,
  whatever was rounded (`ClaimAdds`).
* **Recurring jobs** (`TurnsAreTaken`). `OncePerTurn` keeps the row of a turn open
  until its moment has come; a ticker asks for the next multiple of the period
  (`NextMultiple`), so one that asks for the same turn again finds the row there.
  `LatelyAsked` says that some ticker has asked for a turn later than its last
  firing, hence two turns in a row are never without a row. `Owned` is the lease: while the
  stale sweep's patience covers the handler and its bookkeeping
  (`Patient`), an attempt in hand is the one its row is locked for. `Waits` is
  what a provider asked for, kept below `run_at` through the retry.
* **Baskets** (`TillStaysSound`; `BasketsProofs!BasketsStaySound` for the module by
  itself), for any number of connections, orders, tiers and chairs and any
  limits. Between two statements nothing that others see has changed, but what the
  transaction itself sees adds up to nothing committed: some counters are written
  and others not. `TillInv` therefore reads its rows through what it has left to do.
  `HoldingFor(k, r)` are the orders that hold part of row *r* as *k* sees it: those
  it is taking and has no statement left to take *r* with, those it is giving back
  and still has a statement to give *r* back with, and for orders it is not moving
  what is committed. `OwningFor` is the same for paid orders. Each counter it has
  locked is the sum over these sets and each chair belongs to one of them
  (`ViewWhole`), what it has not locked is as committed (`Untouched`), and what is
  committed is whole (`CommittedWhole`). A statement moves one order in or out of
  one set and writes the row alike; with nothing left the
  view is what a commit shows; a rollback drops the view. Beside it stand what each kind of
  transaction may still have to do (`Working`), that it does nothing twice
  (`Once`), and that its tiers come in rising order (`InOrder`). `OthersStay` says that
  one connection's step leaves the others' part of this alone, because it touches only
  rows that are free or its own. The hold limits rest on the buyer's lock: from
  the count to the commit no other connection can open an order of hers
  (`Allows` in `Starts`). In a circle without a sweep or a chair, whoever waits for
  the greatest tier would wait for a smaller one than the next holds, which is
  `CountersInOneOrder`. What is left to do is a set of statements with turns and not
  a sequence, as a set can be reasoned about without induction.

### The house

`HouseProofs` is built the same way (`HouseInv`, `HouseAssumption`); the door's
four theorems are stated of `Door!Spec` alone, and `DoorInTheHouse` shows that
every behaviour of the composition is one of the door.

* **Door.** `DoorInv` adds what a row may look like (`RowOK`: nobody has spent a
  blank or an issued row, an admission is out only while its order is paid) and
  what a scanner in mid-scan knows (`ScanOK`: it remembers nobody, and once it has
  lost, the row is no longer issued). `AttendanceKept` then follows because no
  action that writes `by` applies to a row somebody has already spent, and
  `NoEntryOnceRefunded` because an issued row is of a paid order, whatever copy
  of it the scanner read.
* **Events.** `AddressesStand` is inductive beside the shape of the rows: an edit
  writes back what it read, but never the slug, which only creation writes under
  the unique index.
* **Pictures.** `NoBrokenTile` is about rows and bytes that different requests
  write. `HandOK` says what each stage of an upload or a removal has made sure of;
  `Apart` that an upload's picture is in no other request's hands, which is what
  a random name buys; `Placed` bounds the positions by the pictures named so far,
  although requests compute them apart.
* **A night cut from a drawing.** Reading the sections, reading the chairs and
  materialising are three moments. `OneAuthor` says that the chairs a caller is
  about to cut name no place twice and are its own; from how many drawings they
  come is not said, as two saves that cross leave both stored
  (`RoomStoredOnce`, section 6). `NightCut` says that chairs exist only under a
  manifest and a frozen layout and were cut by one caller; `FloorsCounted` that what is bound to an
  area is counted against it and has no chair.
* **The map.** A version is drawn from a sequence inside a transaction that commits
  later, so numbers become visible out of order. `NumberedOnce` keeps drawn and
  committed versions apart, `OneHolder` says that a chair written by an open
  transaction is nobody else's (its row lock), and `ScreensBehind` that a screen
  shows no version the table has not reached. `OldMapSellsNothing` follows, and
  does not depend on how old the screen is.
* **Tiers.** `BoxInv` dates every copy: a list cached, shown or in a request's hands
  names a tier that is on sale or left it no longer ago than the cache lives
  (`ListFresh`, `PanelFresh`, `InHandFresh`); `StockCovers` is the `CHECK` constraint
  under a conditional update.
* **Order endpoints.** `CounterInv` follows a request through its handler
  (`VisitSound`): what each stage may assume of the order it named, of the rows it
  read, the error it carries, and of what the answer will say when it is done
  (`DoneWell`). A refusal is judged by the row as it was when the transaction
  read it, so the invariant carries what that row said (`held`, `Nameless`).

### Backstage

`BackstageProofs` is built as the other two are (`BackstageInv`; a step moves one
part) for the six parts that are about rows, hands, charges and locks, and gives
`BackstageTyped`, `EdgesStaySound` and `ReleaseStaysSound`. `BackstageAssumption`
is the conjunction of what the six ask of their constants. One of those is about
operation and not in the code: `ProvidersAssumption` has every hold end within
`MaxPixExpiry`. The hold's length is configured without an upper bound; the
default is half an hour against Mercado Pago's thirty days, and a longer one than
that would outlive its charge. That `MaxAttempts` is at least one *is* in the code,
which replaces anything less (`job_repository.go:51`).

* **Payment providers** (`MoneyInv`). `Single`: of the charges an order ever drew,
  all but the newest are deleted at Asaas, and Mercado Pago, which is asked under
  one idempotency key, drew one at most. It is kept because a run that is about to
  draw knows there is no live one (`Ready`), although it learned that requests
  ago: nothing but the one create job draws, and the row or the copy it began with
  may be old. What a run carries is of a charge that exists (`ReadOK`). A void that
  was granted names a charge no payment reaches any more (`Gone`), whatever the
  order has become since. `Turns`, what the world does to a charge, is any subset
  of `PossibleMoves`.
* **Broker** (`WireInv`). Everything in hand came over the connection consumed from
  (`HandsTogether`), a connection just dialled has carried nothing
  (`NewLineUnused`), and what was confirmed is queued, dead-lettered, handled, or
  in a hand from which the broker takes it back when the connection goes (`Kept`).
  A job marked as processing has its delivery, its poller, or no time left.
* **Messages** (`PostInv`). A letter is with its reader exactly when the provider
  used its key for it (`ReadFits`). An attempt carries no ticket that was void when
  it read them; a job is done only once the key was accepted. Unanswered sends
  and lost tokens preserve both, the key being the job's and not the attempt's.
* **Gate** (`GateInv`). `SlotsHeld` equates counters with the cardinality of the
  requests that hold a slot, so a slot given back twice would show; `CountOK` ties
  what was let through to the counter and its time to live; `AskOK` says that who
  was told to wait waits for what is left of the window, or longer.
* **Release** (`ReleaseInv`). Whoever builds an index has the lock and a true list of
  what is missing, though it read that list before (`BootOK`); valid indexes are never
  dropped while a rule serves. The data are all of the old schema or all read as
  they were sold (`OldData`, `NewData`, `AsSold`).
* **Keys** (`KeysInv`), for any number of requests to one account. A row is sealed
  under a key that is still set, found under the document in it, and no torn write
  aside it is what its owner last sent (`SealOK`). An edit that nothing overtook
  carries the document that is there, if it sent none; one that was overtaken is
  marked, and the mark is what `torn` records of it (`EditOK`). A replica seals under a
  key that is set although it loaded its ring at start (`RingOK`). Two accounts
  never have one document because the index is taken in the write itself, so also
  when an old document is put back. The active version defaults to the greatest,
  which `Extremes` shows to exist in any finite set.

### Only model-checked

* Every liveness property, as TLAPS has no rule for `ENABLED` and fairness here.
* `SeatingSound`: bearings, rows, labels and best seats are recursive functions and
  folds along a row.
* `TellingSound`: pages, orderings and totals are folds and sorted sequences, check
  digits sums along a sequence.

What the recursive functions compute for every input stays with TLC in any case.
An induction over finite *sets* can be had without an operator parameter, by a
smallest counterexample under strict inclusion (`SmallestFinite`, in
`BackstageProofs`, `OfficeProofs` and `BasketsProofs`).

## 6. Disagreements between the code and its comments

Three have a run that TLC must find violated:

1. `sale_void`: `EnqueueCancelCharge`'s comment promises that a code cannot stay
   payable for inventory given back. When the hold expires while the charge is
   being created, no void is written. If the code is then paid, settlement still
   takes the late-payment path, so the money is answered.
2. `sale_reconcile`: `Reconcile`'s comment promises correctness with every
   webhook lost. A charge paid after its order was closed is listed by no sweep.
3. `panel`: `cached_ticket_repository.go:163-164` says that two different filters
   are two different answers. The key of the cached list leaves the event out,
   so for three seconds an event's panel may show another event's tiers.

The following are defined in their modules and belong to no run. A definition
named with a part of a composition is seen by giving it a name in the MC
module (`Seen == part = "..." => Part!Definition`) and that name to the
configuration; the others by adding them to the configuration named.

| definition | what a comment or a test says | what happens |
|---|---|---|
| `JobQueue!AttemptsWithinBudget` (`JobQueue.cfg`) | "a job that reliably kills its worker gets parked instead of looping" | nothing on the reclaim or claim path looks at the budget |
| `BoxOffice!NoChargeJobForBasket` (`BoxOffice_lone.cfg`) | `Confirmed` "is what stops the charge job being created for a basket the buyer is still filling in" | `Reconcile` schedules it for any pending order three minutes old |
| `BoxOffice!VoidAsksTheProvider` (`BoxOffice_lone.cfg`, as a property) | the status is "checked at the moment of cancelling rather than trusted from the job" | it is read through the cache, which no expiry drops; a void run within the second finds the order pending and is done |
| `Door!NotPaidHasStopped` (`House.cfg`) | not_paid is for an order that "has stopped being paid" | a ticket shown within a second of its payment gets it from an older copy |
| `Door!AlreadyAdmittedNamesWho` (`House.cfg`) | already_admitted "carries when and by whom" | when the loser's second read fails it names nobody, and the ticket may have been voided instead |
| `CheckoutReplay!AnswerMatchesBody` without its premise (`Office.cfg`) | "a key seen before with a different body is refused" | after its day, or once an overrunning request released a later claim, it is answered with the old order |
| `CheckoutReplay!RetryIsShownTheOrder` without its premise (`Office.cfg`) | "the buyer's retry has to be able to find that order and be shown it" | a failed lookup or an unanswered commit releases the claim and the mark that an attempt may exist |
| `RefundDesk!WindowNotAdvisory` | `domain/refund/refund.go:55-58` keeps the window from being advisory | "event_cancelled" is not compared with the event, and opens the window for a show that is on |
| `RefundDesk!StrangersAreForbidden` | the shared sentinel is mapped to 403 (`usecases/refund/service.go:42-46`) | an event refusing a stranger returns another sentinel; the answer is 500 |
| `Ledger!NoPayBeforeTheShow` | nobody is paid for a show that has not happened | the date is fixed at payment; a show moved later is paid before it |
| `Accounts!ProvenPhoneStays` | saving again must not un-verify a phone (`profile.go:84-87`) | a save that read before the proof writes what it read |
| `Sessions!HonestRetryStaysSignedIn` | the grace is for honest retries (`usecases/auth/service.go:59-61`) | of two that cross, the second is refused and its cookies are dropped |
| `EventDesk!EditKeepsVisibility` | visibility does not change by accident | an edit that read a draft undoes a publication |
| `TierDesk!TierEditKeepsStatus` | an edit that names no status keeps it | it keeps the one it read |
| `TierDesk!CancelledSellsNothing` | nothing new may be sold for a cancelled event (`domain/event/event.go:79-81`) | checkout asks the tier and not the event |
| `Gallery!GalleryWithinLimit` | a gallery holds twelve | the count is read before the upload; two can both find room |
| `SeatRoom!SuggestionMakesTheRoomPass` | apply the suggestion and the room passes (`accessibility_test.go:29`) | it is keyed by row and seat; two floors lettered alike overwrite each other |
| `SeatRoom!BestSitsCentral` | a seat at the centre beats the aisle (`buyer.go:278-283`) | within a row the leftmost run wins |
| `SeatPlan!RoomStoredOnce`, `FrozenRoomStands` | two saves leave one room; a frozen room is not edited (`usecases/seating/service.go:222-224`, `materialise.go:163-166`) | each save looks at its own drawing, and the frozen check is outside the transaction |
| `SeatFeed!DeltaMissesNothing` | a poll gets what changed since its cursor (`event_seat.go:38-39`) | a number taken before the cursor and committed after it is never sent |
| `BoxOffice!DebtIsActedOn` (`BoxOffice_lone.cfg`) | "there is no window in which the system has recorded the debt without acting on it" (`usecases/refund/service.go:538-539`) | a refund only taken up reads as `in_analysis` (`asaas/status.go:41-48`): the job is done, the order still owes, and no sweep lists it; a notification is all there is |
| `OrderPage!HoldExpiredIsConflict` | an ended hold is a conflict (`handler.go:152`, `363`) | the error has a code and no status of its own, and is answered 500 |
| `Providers!ChargeDiesWithHold` | "the charge dies with the hold" (`usecases/payment/service.go:203`) | the buyer's cancel schedules no void, and a void that looks up a second-old copy finds the order pending and is done |
| `Providers!NextSyncPicksUpTheCode` | the next sync picks up a lost QR code (`asaas/gateway.go:173-176`) | the sync reads the charge, not its code |
| `Broker!DrainWaits` | jobs in hand run to their end and are waited for (`container.go:851-855`) | only the poller's are; a job a broker delivered is cut off |
| `Keyring!LeftAsItIs` | a blank identity field means "leave it as it is" (`profile.go:64-65`) | it writes what it read, over a correction made meanwhile; so does a proven phone |
| `Keyring!EveryReplicaReads` | add a version, point ACTIVE at it, deploy (`loader.go:20-25`) | while the deploy rolls, an old replica cannot open what a new one sealed |
| `Catalogue!EmptyPageTotal` | an empty page reports the real total (`event_repository.go:265-268`) | the count behind it leaves out four of the filters |
| `Reports!ExportMissesNothing` | the export's key is unique, "because one order has one line per tier" (`attendees.go:73-75`) | a seated order has one row per chair; those of the tier a batch ends on that are not in it are skipped |
| `Reports!OnlySalesCounted` | what was never a sale never appears (`report_repository.go:38-44`) | an order paid too late is counted once its money went back |
| `Startup!NoRuleNoService` | a failed index aborts the boot (`indexes.go:6-9`) | a replica that found the lock taken serves without the rule |
| `DoorDesk!WalkSkipsNobody` | an OFFSET walk cannot skip a row (`payment/service.go:596-599`) | the list is ordered by the last update; an audit or refund of an order already passed shifts it |
| `DoorDesk!RefundedHoldsNothing` | money that went back leaves no live ticket | a refund between the run's list and its insert does; the door then refuses it as not paid |

Noticed while reading, each visible in a model but stated nowhere as a promise:

* `withEvents` returns before `attachRefunds` when it fails, so a page loses more
  than "its event titles" (`handler.go:428`). A failed profile read is answered
  422, as if the buyer's name were wrong.
* A refused Asaas charge is returned unclassified and retried to the end, where
  the gateway's test (`gateway_test.go:378-381`) speaks against eight tries; a
  refund whose first answer was lost is refused when tried again, and parked.
* A sign-in code's dedupe key has no recipient in it (`verification.go:76-83`).
* `PlacePin`'s "nothing later overwrites them" does not hold of an edit that read
  the pin before. Deleting an event empties its gallery before the foreign
  key can refuse it; variants of a picture are never deleted.
* A pending goodwill request blocks the claim of a cancelled event; settlement
  returns `ErrNoEvent` where that error's comment says skipped.
* `BindAreas` compares a ticket's quantity with its area once; later edits are
  held by the cap in `Reserve` alone.
* One sweep transaction releases many orders: its tiers are in one order per
  order, not over all. PostgreSQL breaks the circle and the sweep is tried again.
* A shutdown closes a connection while a redial may be making another, which
  then stays open until the process ends.
* A document whose check digit is 0 may survive a slip (a remainder of ten is
  written 0); a blank document with another type changes the type on file.
* A duplicate insert aborts the back-fill's transaction; its count is taken
  before the commit. The migration merges tiers of one owner and name into one
  event at the earliest date.

## 7. What is left

Not modelled, and why:

* **Configuration, seeding, load generation, generated API documents**
  (`infra/config`, `cmd/seed`, `cmd/loadtest`, `docs`): read once at start or run
  by hand; no state beyond what other modules take as constants.
* **Token signing, social providers, image decoding and encoding, HTTP clients'
  own retries, webhook registration**: libraries and formats. The models take
  their outcomes (a token is valid or not, a file decodes or not, a call is
  answered, refused or lost).
* **Wording, layout and search ranking**, the curves of a drawing beyond bearings and
  rows, decoration and styles: no property is about them.
* **Listings of refunds and of admissions**: queries with neither state nor a
  promise the report's and the catalogue's do not already make.
* **Unused code**: `Dematerialise`, `FindByDocument`, charge fields nobody reads.

Modelled in part: a deadline counted in seconds is an event that may come
(`Lapse`, `CopyExpires`) except where two times race, where there is a clock
(`Cadence`, `Sessions`, `Accounts`, `Ledger`, `TierDesk`, `Gate`, `Providers`).
The order cache's fill is one step with its read. Amounts are in `Ledger` alone,
and the sale's refinement is about places and not about money.

Next: a composition of `RefundDesk` with `BoxOffice`, whose settlement the
former has as `GiveBack`; then the folds under `SeatingSound` and `TellingSound`,
of which the sums could go the way those of `BasketsProofs` went.
