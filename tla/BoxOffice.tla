------------------------------ MODULE BoxOffice ------------------------------
(***************************************************************************)
(* Where money and inventory meet: orders, tier counters, chairs, the      *)
(* provider's charges, and the durable jobs that carry news between them.  *)
(*                                                                         *)
(* A database transaction is one action: the code takes the order row FOR  *)
(* UPDATE, or decides by a conditional UPDATE, before it writes.  A job    *)
(* that talks to the provider is several: it reads the order without a     *)
(* lock and perhaps from a cache, asks, and settles with an answer that    *)
(* may be old by then.                                                     *)
(*                                                                         *)
(* A line of quantity n on a tier is n units of that tier.  Counted units  *)
(* are only counted; the units in Seats are chairs with an identity.       *)
(***************************************************************************)
EXTENDS Naturals, FiniteSets

CONSTANTS
    Orders,        \* orders that may be placed
    NoOrder,       \* the holder of a free chair
    Tiers,         \* ticket tiers of the event
    Units,         \* what baskets are made of
    Seats,         \* the units that are numbered chairs
    TierOf,        \* the tier a unit is sold under
    Basket,        \* the units each order asks for
    AreaCapacity,  \* places in the area a tier is bound to
    Editions,      \* <<quantity, on sale>> an organiser may save a tier with
    Outcomes,      \* what may become of a charge
    Cached,        \* whether unlocked reads of an order go through the cache
    NoticesMayBeLost,  \* whether provider notifications may be lost
    DateMayMove,   \* whether the event's date may pass, or be moved
    MaxOpen,       \* bound: open jobs beyond which nothing new is announced
    MaxCalls,      \* bound: provider conversations in flight at once
    MaxFailures    \* bound: attempts that fail half-way

ASSUME SalesAssumption ==
    /\ IsFiniteSet(Orders) /\ NoOrder \notin Orders
    /\ IsFiniteSet(Units) /\ Seats \subseteq Units
    /\ TierOf \in [Units -> Tiers]
    /\ Basket \in [Orders -> SUBSET Units]
    /\ AreaCapacity \in [Tiers -> Nat]
    /\ Editions \subseteq Nat \X BOOLEAN
    /\ Outcomes \subseteq {"paid", "rejected", "cancelled", "disputed", "refund_requested", "refunded", "charged_back"}
    /\ NoticesMayBeLost \in BOOLEAN /\ Cached \in BOOLEAN /\ DateMayMove \in BOOLEAN
    /\ MaxOpen \in Nat /\ MaxCalls \in Nat /\ MaxFailures \in Nat

(* Nobody buys an unnumbered place of a seated tier, or nothing at all.    *)
ASSUME BasketAssumption ==
    /\ \A o \in Orders : Basket[o] # {}
    /\ \A s \in Seats, u \in Units \ Seats : TierOf[s] # TierOf[u]

VARIABLES
    order,      \* the orders table
    tier,       \* the tickets table: quantity, reserved, sold, on sale
    seat,       \* the event_seats table
    admission,  \* an order's admissions: none, issued, void
    ledger,     \* an order's ledger entries: none, accrued, reversed
    owed,       \* open jobs that wait to be run
    parked,     \* dead jobs, kept for a human
    call,       \* how far the running job of each kind has got with an order
    charge,     \* EXTERNAL: the charge at the provider
    notice,     \* EXTERNAL: a notification the provider has not delivered
    failures,   \* failed attempts so far
    copy,       \* the cache entry of an order, if there is one
    over        \* the event's date has passed

inventory == <<tier, seat>>
books == <<admission, ledger>>
work == <<owed, parked, call, failures>>
provider == <<charge, notice>>
vars == <<order, tier, seat, admission, ledger, owed, parked, call, charge, notice, failures, copy, over>>

-----------------------------------------------------------------------------
Statuses == {"none", "pending_payment", "paid", "expired", "cancelled", "failed",
             "refunded", "refund_required"}

(* What this system takes a charge to be.                                  *)
ChargeStatuses == {"pending", "paid", "rejected", "cancelled", "in_analysis", "refunded", "charged_back"}

(* What it is at the provider.  A dispute that was opened and a refund     *)
(* that was only taken up both read as under review; a review before the   *)
(* charge is paid moves nothing either, and counts as pending here.        *)
UnderReview == {"disputed", "refund_requested"}
ChargeWords == (ChargeStatuses \ {"in_analysis"}) \cup UnderReview \cup {"none"}
MapStatus(word) == IF word \in UnderReview THEN "in_analysis" ELSE word

Jobs == {"charge.create", "payment.sync", "charge.cancel", "charge.refund"}

(* idle; about to ask the provider; about to read an existing charge; or   *)
(* about to settle with this answer.                                       *)
Stages == {"idle", "ask", "fetch"} \cup ChargeStatuses

NoCopy == [status |-> "none", attached |-> FALSE]

(* domain/order: the transitions table.                                    *)
(* Mutants of CanTransition: an approval applied again, and a table where  *)
(* every closed order is terminal.                                         *)
CanTransitionAgain(from, to) ==
    \/ from = "pending_payment" /\ to \in {"paid", "expired", "cancelled", "failed", "refund_required"}
    \/ from \in {"expired", "cancelled", "failed", "paid"} /\ to \in {"paid", "refund_required"}
    \/ from \in {"paid", "refund_required"} /\ to = "refunded"

CanTransitionClosed(from, to) ==
    \/ from = "pending_payment" /\ to \in {"paid", "expired", "cancelled", "failed", "refund_required"}
    \/ from \in {"paid", "refund_required"} /\ to = "refunded"

CanTransition(from, to) ==
    \/ from = "pending_payment" /\ to \in {"paid", "expired", "cancelled", "failed", "refund_required"}
    \/ from \in {"expired", "cancelled", "failed"} /\ to \in {"paid", "refund_required"}
    \/ from \in {"paid", "refund_required"} /\ to = "refunded"

HoldsStock(o) == order[o].status = "pending_payment"
Final(o) == order[o].status \notin {"none", "pending_payment"}

(* Mutant of HoldLapsed: only carts lapse.                                 *)
CartLapsed(o) == HoldsStock(o) /\ order[o].lapsed /\ ~order[o].confirmed
HoldLapsed(o) == HoldsStock(o) /\ order[o].lapsed

Pending == {o \in Orders : HoldsStock(o)}
Paid == {o \in Orders : order[o].status = "paid"}

(* Where news of a charge takes its order; "none" moves nothing.            *)
(* Mutant of StatusFor: an authorised charge taken for a paid one.         *)
StatusForAuthorised(news) ==
    CASE news \in {"pending", "paid"} -> "paid"
      [] news = "rejected" -> "failed"
      [] news = "cancelled" -> "expired"
      [] news \in {"refunded", "charged_back"} -> "refunded"
      [] OTHER -> "none"

StatusFor(news) ==
    CASE news = "paid" -> "paid"
      [] news = "rejected" -> "failed"
      [] news = "cancelled" -> "expired"
      [] news \in {"refunded", "charged_back"} -> "refunded"
      [] OTHER -> "none"

Moves(news) == StatusFor(news) # "none"

NewOrder(confirm) == [status |-> "pending_payment", confirmed |-> confirm,
                      lapsed |-> FALSE, attached |-> FALSE]

Init ==
    /\ order = [o \in Orders |-> [status |-> "none", confirmed |-> FALSE,
                                  lapsed |-> FALSE, attached |-> FALSE]]
    /\ tier \in [Tiers -> {[quantity |-> e[1], reserved |-> 0, sold |-> 0, onSale |-> e[2]] : e \in Editions}]
    /\ seat = [s \in Seats |-> [status |-> "available", holder |-> NoOrder]]
    /\ admission = [o \in Orders |-> "none"]
    /\ ledger = [o \in Orders |-> "none"]
    /\ owed = {}
    /\ parked = {}
    /\ call = [o \in Orders |-> [j \in Jobs |-> "idle"]]
    /\ charge = [o \in Orders |-> "none"]
    /\ notice = [o \in Orders |-> FALSE]
    /\ failures = 0
    /\ copy = [o \in Orders |-> NoCopy]
    /\ over = FALSE

-----------------------------------------------------------------------------
(* The tier counters: each movement is one conditional UPDATE.             *)

Lines(S, t) == {line \in S \X Units : line[2] \in Basket[line[1]] /\ TierOf[line[2]] = t}
Qty(S, t) == Cardinality(Lines(S, t))

(* Mutant of CanReserve: the area's own limit dropped.                     *)
CanReserveByQuantity(o) ==
    \A t \in Tiers :
        Qty({o}, t) > 0 =>
            /\ tier[t].onSale
            /\ tier[t].sold + tier[t].reserved + Qty({o}, t) <= tier[t].quantity

CanReserve(o) ==
    \A t \in Tiers :
        Qty({o}, t) > 0 =>
            /\ tier[t].onSale
            /\ tier[t].sold + tier[t].reserved + Qty({o}, t) <= tier[t].quantity
            /\ tier[t].sold + tier[t].reserved + Qty({o}, t) <= AreaCapacity[t]

Reserve(o) == tier' = [t \in Tiers |-> [tier[t] EXCEPT !.reserved = @ + Qty({o}, t)]]

(* The three ways back refuse to take a counter below zero; the refusal    *)
(* is an error that rolls the transaction back.                            *)
Release(S) ==
    /\ \A t \in Tiers : tier[t].reserved >= Qty(S, t)
    /\ tier' = [t \in Tiers |-> [tier[t] EXCEPT !.reserved = @ - Qty(S, t)]]

Commit(o) ==
    /\ \A t \in Tiers : tier[t].reserved >= Qty({o}, t)
    /\ tier' = [t \in Tiers |-> [tier[t] EXCEPT !.reserved = @ - Qty({o}, t),
                                                !.sold = @ + Qty({o}, t)]]

(* Mutant of ReserveAndCommit: a late payment committed without the hold   *)
(* it no longer has, past the guard.                                       *)
CommitUnreserved(o) == tier' = [t \in Tiers |-> [tier[t] EXCEPT !.reserved = @ - Qty({o}, t),
                                                               !.sold = @ + Qty({o}, t)]]

(* Reserve again and Commit, in one transaction.                           *)
ReserveAndCommit(o) == tier' = [t \in Tiers |-> [tier[t] EXCEPT !.sold = @ + Qty({o}, t)]]

ReleaseSold(o) ==
    /\ \A t \in Tiers : tier[t].sold >= Qty({o}, t)
    /\ tier' = [t \in Tiers |-> [tier[t] EXCEPT !.sold = @ - Qty({o}, t)]]

-----------------------------------------------------------------------------
(* The chairs.                                                             *)

Chairs(o) == Basket[o] \cap Seats

(* Mutant of CanClaim: a held chair taken for free.                        *)
CanClaimUnsold(o) == \A s \in Chairs(o) : seat[s].status \in {"available", "held"}
CanClaim(o) == \A s \in Chairs(o) : seat[s].status = "available"

(* The chairs of S that are in status "from" go to "to".                   *)
MoveSeats(S, from, to) ==
    seat' = [s \in Seats |->
               IF seat[s].status = from /\ seat[s].holder \in S
               THEN [status |-> to, holder |-> IF to = "available" THEN NoOrder ELSE seat[s].holder]
               ELSE seat[s]]

ClaimSeats(o, to) ==
    seat' = [s \in Seats |-> IF s \in Chairs(o) THEN [status |-> to, holder |-> o] ELSE seat[s]]

ReleaseForOrder(S) == MoveSeats(S, "held", "available")
CommitForOrder(o) == MoveSeats({o}, "held", "sold")
ReleaseSoldForOrder(o) == MoveSeats({o}, "sold", "available")

-----------------------------------------------------------------------------
(* Checkout.                                                               *)

SetStatus(S, status) ==
    order' = [o \in Orders |-> IF o \in S THEN [order[o] EXCEPT !.status = status] ELSE order[o]]

(* Start: chairs and counters, or nothing.                                 *)
Start(o, confirm) ==
    /\ order[o].status = "none"
    /\ CanClaim(o)
    /\ CanReserve(o)
    /\ ClaimSeats(o, "held")
    /\ Reserve(o)
    /\ order' = [order EXCEPT ![o] = NewOrder(confirm)]
    /\ owed' = IF confirm THEN owed \cup {<<"charge.create", o>>} ELSE owed
    /\ UNCHANGED <<books, parked, call, failures, provider, copy, over>>

(* The details step.  Only the first call extends the hold and charges.    *)
Confirm(o) ==
    /\ HoldsStock(o)
    /\ ~HoldLapsed(o)
    /\ ~order[o].confirmed
    /\ order' = [order EXCEPT ![o].confirmed = TRUE]
    /\ owed' = owed \cup {<<"charge.create", o>>}
    /\ UNCHANGED <<inventory, books, parked, call, failures, provider, copy, over>>

(* The clock passes HoldExpiresAt.                                         *)
Lapse(o) ==
    /\ HoldsStock(o)
    /\ ~order[o].lapsed
    /\ order' = [order EXCEPT ![o].lapsed = TRUE]
    /\ UNCHANGED <<inventory, books, work, provider, copy, over>>

(* The buyer gives up.  The charge, if there is one, is left alone.        *)
Cancel(o) ==
    /\ HoldsStock(o)
    /\ SetStatus({o}, "cancelled")
    /\ Release({o})
    /\ ReleaseForOrder({o})
    /\ UNCHANGED <<books, work, provider, copy, over>>

(* EnqueueCancelCharge: nothing to void when no charge is attached.        *)
VoidsFor(S) == {<<"charge.cancel", o>> : o \in {p \in S : order[p].attached}}

(* The sweep takes every lapsed hold it claims in one transaction; the     *)
(* hold.expire job written with each deadline is the same transaction for  *)
(* one order, and finds nothing to do when the hold was extended or is     *)
(* gone.  Every pending order has one, so the job itself is not state.     *)
ExpireHolds(S) ==
    /\ S # {}
    /\ \A o \in S : HoldLapsed(o)
    /\ SetStatus(S, "expired")
    /\ Release(S)
    /\ ReleaseForOrder(S)
    /\ owed' = owed \cup VoidsFor(S)
    /\ UNCHANGED <<books, parked, call, failures, provider, copy, over>>

-----------------------------------------------------------------------------
(* The organiser.                                                          *)

(* A tier update writes quantity and status from a copy read earlier; what *)
(* holds it is the CHECK constraint.                                       *)
EditTier(t, edition) ==
    /\ tier[t].sold + tier[t].reserved <= edition[1]
    /\ tier' = [tier EXCEPT ![t].quantity = edition[1], ![t].onSale = edition[2]]
    /\ UNCHANGED <<order, seat, books, work, provider, copy, over>>

(* Mutant of Block: not scoped to available chairs.                        *)
BlockAny(s) ==
    /\ seat' = [seat EXCEPT ![s].status = "blocked"]
    /\ UNCHANGED <<order, tier, books, work, provider, copy, over>>

Block(s) ==
    /\ seat[s].status = "available"
    /\ seat' = [seat EXCEPT ![s].status = "blocked"]
    /\ UNCHANGED <<order, tier, books, work, provider, copy, over>>

Unblock(s) ==
    /\ seat[s].status = "blocked"
    /\ seat' = [seat EXCEPT ![s].status = "available"]
    /\ UNCHANGED <<order, tier, books, work, provider, copy, over>>

-----------------------------------------------------------------------------
InFlight == {c \in Orders \X Jobs : call[c[1]][c[2]] # "idle"}

(* Enqueue from outside: a duplicate of an open job adds nothing.          *)
Schedule(job, o) ==
    /\ owed' = owed \cup {<<job, o>>}
    /\ Cardinality(owed') + Cardinality(InFlight) <= MaxOpen

(* EXTERNAL: the provider, the buyer's bank, and the webhooks.             *)

ChargeBecomes(o, status) ==
    /\ charge' = [charge EXCEPT ![o] = status]
    /\ notice' = [notice EXCEPT ![o] = TRUE]

ProviderMoves(o) ==
    /\ \/ charge[o] = "pending" /\ \E status \in Outcomes \cap {"paid", "rejected", "cancelled"} : ChargeBecomes(o, status)
       \/ charge[o] = "paid" /\ \E status \in Outcomes \cap (UnderReview \cup {"refunded", "charged_back"}) : ChargeBecomes(o, status)
       \/ charge[o] = "disputed" /\ \E status \in Outcomes \cap {"paid", "charged_back"} : ChargeBecomes(o, status)
       \/ charge[o] = "refund_requested" /\ ChargeBecomes(o, "refunded")
    /\ UNCHANGED <<order, inventory, books, work, copy, over>>

(* The event's date goes by, or its organiser moves it.                    *)
DateMoves ==
    /\ DateMayMove
    /\ over' = ~over
    /\ UNCHANGED <<order, inventory, books, work, provider, copy>>

(* The webhook handler enqueues a sync; the provider may deliver again.    *)
Webhook(o) ==
    /\ notice[o]
    /\ Schedule("payment.sync", o)
    /\ notice' \in {notice, [notice EXCEPT ![o] = FALSE]}
    /\ UNCHANGED <<order, inventory, books, parked, call, failures, charge, copy, over>>

WebhookLost(o) ==
    /\ NoticesMayBeLost
    /\ notice[o]
    /\ notice' = [notice EXCEPT ![o] = FALSE]
    /\ UNCHANGED <<order, inventory, books, work, charge, copy, over>>

-----------------------------------------------------------------------------
(* The sweeps and the operator.                                            *)

(* Reconcile + scheduleReconciliation: orders still waiting for money.     *)
Reconcile(o) ==
    /\ HoldsStock(o)
    /\ Schedule(IF order[o].attached THEN "payment.sync" ELSE "charge.create", o)
    /\ UNCHANGED <<order, inventory, books, parked, call, failures, provider, copy, over>>

(* Mutant of AuditSettled: orders still waiting, as Reconcile lists them.  *)
AuditWaiting(o) ==
    /\ HoldsStock(o) /\ ~over
    /\ Schedule("payment.sync", o)
    /\ UNCHANGED <<order, inventory, books, parked, call, failures, provider, copy, over>>

(* Paid orders of an event that has not happened yet.                      *)
AuditSettled(o) ==
    /\ order[o].status = "paid" /\ ~over
    /\ Schedule("payment.sync", o)
    /\ UNCHANGED <<order, inventory, books, parked, call, failures, provider, copy, over>>

(* What an unlocked read of an order shows: its cache entry, or the row.   *)
Row(o) == [status |-> order[o].status, attached |-> order[o].attached]
Seen(o) == IF copy[o] = NoCopy THEN Row(o) ELSE copy[o]

(* GetByID leaves an entry; settlement and the sweeps, which write through *)
(* the unit of work, drop none, so it goes when its second is over.  Most  *)
(* readers are buyers who poll.                                            *)
Poll(o) ==
    /\ Cached
    /\ order[o].status # "none" /\ copy[o] = NoCopy
    /\ copy' = [copy EXCEPT ![o] = Row(o)]
    /\ UNCHANGED <<order, inventory, books, work, provider, over>>

CopyExpires(o) ==
    /\ copy[o] # NoCopy
    /\ copy' = [copy EXCEPT ![o] = NoCopy]
    /\ UNCHANGED <<order, inventory, books, work, provider, over>>

RequestRefund(o) ==
    /\ Seen(o).status \in {"paid", "refund_required"}
    /\ Seen(o).attached
    /\ Schedule("charge.refund", o)
    /\ UNCHANGED <<order, inventory, books, parked, call, failures, provider, copy, over>>

-----------------------------------------------------------------------------
(* The provider jobs: read without a lock, ask, settle.                    *)

(* Mutant of FirstStage: only a paid order is refunded.                    *)
FirstStagePaidOnly(o, job) ==
    CASE job = "charge.create" -> IF Seen(o).status # "pending_payment" THEN "idle"
                                  ELSE IF Seen(o).attached THEN "fetch" ELSE "ask"
      [] job = "payment.sync" -> MapStatus(charge[o])
      [] job = "charge.cancel" -> IF Seen(o).attached /\ Seen(o).status \in {"expired", "cancelled"}
                                  THEN "ask" ELSE "idle"
      [] job = "charge.refund" -> IF Seen(o).status = "paid" THEN "ask" ELSE "idle"

(* What the unlocked read of the order makes the handler do.               *)
FirstStage(o, job) ==
    CASE job = "charge.create" -> IF Seen(o).status # "pending_payment" THEN "idle"
                                  ELSE IF Seen(o).attached THEN "fetch" ELSE "ask"
      [] job = "payment.sync" -> MapStatus(charge[o])
      [] job = "charge.cancel" -> IF Seen(o).attached /\ Seen(o).status \in {"expired", "cancelled"}
                                  THEN "ask" ELSE "idle"
      [] job = "charge.refund" -> IF Seen(o).attached /\ Seen(o).status # "refunded"
                                  THEN "ask" ELSE "idle"

(* Mutant of NothingToRefund: such a job ends as if it were done.          *)
NeverHopeless(o, job) == FALSE

(* A refund of an order that was never charged cannot succeed.             *)
NothingToRefund(o, job) ==
    job = "charge.refund" /\ ~Seen(o).attached /\ Seen(o).status # "refunded"

Reach(o, job, stage) == call' = [call EXCEPT ![o][job] = stage]

Begin(o, job) ==
    /\ <<job, o>> \in owed
    /\ call[o][job] = "idle"
    /\ Cardinality(InFlight) < MaxCalls
    /\ owed' = owed \ {<<job, o>>}
    /\ parked' = IF NothingToRefund(o, job) THEN parked \cup {<<job, o>>} ELSE parked
    /\ Reach(o, job, FirstStage(o, job))
    /\ UNCHANGED <<order, inventory, books, failures, provider, copy, over>>

(* The order id is the idempotency key: an existing charge is returned as  *)
(* it stands.  A new one may be final at birth.                            *)
CreateCharge(o) ==
    /\ call[o]["charge.create"] = "ask"
    /\ IF charge[o] = "none"
       THEN \E status \in {"pending"} \cup (Outcomes \cap {"paid", "rejected"}) :
              /\ ChargeBecomes(o, status)
              /\ Reach(o, "charge.create", status)
       ELSE /\ Reach(o, "charge.create", MapStatus(charge[o]))
            /\ UNCHANGED provider
    /\ UNCHANGED <<order, inventory, books, owed, parked, failures, copy, over>>

(* Voiding a charge that is no longer payable is refused, and parked.      *)
CancelCharge(o) ==
    /\ call[o]["charge.cancel"] = "ask"
    /\ Reach(o, "charge.cancel", "idle")
    /\ \/ charge[o] = "pending" /\ ChargeBecomes(o, "cancelled") /\ UNCHANGED parked
       \/ charge[o] = "cancelled" /\ UNCHANGED <<provider, parked>>
       \/ charge[o] \notin {"pending", "cancelled"} /\ parked' = parked \cup {<<"charge.cancel", o>>}
          /\ UNCHANGED provider
    /\ UNCHANGED <<order, inventory, books, owed, failures, copy, over>>

(* A refund is believed only when the charge is read back, and a provider  *)
(* may have no more than taken it up by then.  Asked again for what it     *)
(* took up or made, it agrees or refuses.                                  *)
RefundCharge(o) ==
    /\ call[o]["charge.refund"] = "ask"
    /\ \/ /\ charge[o] = "paid"
          /\ \E status \in {"refunded"} \cup (Outcomes \cap {"refund_requested"}) :
               /\ ChargeBecomes(o, status)
               /\ Reach(o, "charge.refund", MapStatus(status))
          /\ UNCHANGED parked
       \/ /\ charge[o] \in {"refund_requested", "refunded"}
          /\ Reach(o, "charge.refund", MapStatus(charge[o]))
          /\ UNCHANGED <<provider, parked>>
       \/ /\ charge[o] # "paid"
          /\ Reach(o, "charge.refund", "idle")
          /\ parked' = parked \cup {<<"charge.refund", o>>}
          /\ UNCHANGED provider
    /\ UNCHANGED <<order, inventory, books, owed, failures, copy, over>>

(* The charge job of an order that already has one reads it instead.       *)
FetchCharge(o) ==
    /\ call[o]["charge.create"] = "fetch"
    /\ Reach(o, "charge.create", MapStatus(charge[o]))
    /\ UNCHANGED <<order, inventory, books, owed, parked, failures, provider, copy, over>>

-----------------------------------------------------------------------------
(* Settlement: the only place that moves an order on the provider's word.  *)

(* Taken out of the order's own stock, or out of what is on sale now.      *)
CanRetake(o) == CanClaim(o) /\ CanReserve(o)

NextStatus(o, news) ==
    IF StatusFor(news) = "paid" /\ ~HoldsStock(o) /\ ~CanRetake(o)
    THEN "refund_required" ELSE StatusFor(news)

Attach(o) == order' = [order EXCEPT ![o].attached = TRUE]
AttachAndSet(o, status) == order' = [order EXCEPT ![o].attached = TRUE, ![o].status = status]

(* No verdict yet, or a status the order has or cannot take: the payment   *)
(* fields are recorded, and news older than a finished order is not.       *)
SettleNoMove(o, news) ==
    /\ Moves(news) => ~CanTransition(order[o].status, NextStatus(o, news))
    /\ IF ~Moves(news) /\ Final(o) /\ order[o].attached THEN UNCHANGED order ELSE Attach(o)
    /\ UNCHANGED <<inventory, books, owed>>

Crosses(o, news, status) ==
    /\ Moves(news)
    /\ NextStatus(o, news) = status
    /\ CanTransition(order[o].status, status)
    /\ AttachAndSet(o, status)

SettlePaid(o, news) ==
    /\ Crosses(o, news, "paid")
    /\ \/ HoldsStock(o) /\ Commit(o) /\ CommitForOrder(o)
       \/ ~HoldsStock(o) /\ ReserveAndCommit(o) /\ ClaimSeats(o, "sold")
    /\ admission' = [admission EXCEPT ![o] = IF @ = "none" THEN "issued" ELSE @]
    /\ ledger' = [ledger EXCEPT ![o] = IF @ = "none" THEN "accrued" ELSE @]
    /\ UNCHANGED owed

(* Money in, nothing left to sell: the refund is scheduled right here.     *)
SettleRefundRequired(o, news) ==
    /\ Crosses(o, news, "refund_required")
    /\ owed' = owed \cup {<<"charge.refund", o>>}
    /\ UNCHANGED <<inventory, books>>

SettleClosed(o, news) ==
    /\ \E status \in {"expired", "failed"} : Crosses(o, news, status)
    /\ Release({o})
    /\ ReleaseForOrder({o})
    /\ UNCHANGED <<books, owed>>

(* Mutants of SettleRefunded: stock given back for an order that never had *)
(* any, and a refund that leaves the tickets good for entry.               *)
SettleRefundedAlwaysReleases(o, news) ==
    /\ Crosses(o, news, "refunded")
    /\ ReleaseSold(o) /\ ReleaseSoldForOrder(o)
    /\ admission' = [admission EXCEPT ![o] = IF @ = "issued" THEN "void" ELSE @]
    /\ ledger' = [ledger EXCEPT ![o] = IF @ = "accrued" THEN "reversed" ELSE @]
    /\ UNCHANGED owed

SettleRefundedKeepsEntry(o, news) ==
    /\ Crosses(o, news, "refunded")
    /\ \/ order[o].status = "paid" /\ ReleaseSold(o) /\ ReleaseSoldForOrder(o)
       \/ order[o].status # "paid" /\ UNCHANGED inventory
    /\ ledger' = [ledger EXCEPT ![o] = IF @ = "accrued" THEN "reversed" ELSE @]
    /\ UNCHANGED <<admission, owed>>

SettleRefunded(o, news) ==
    /\ Crosses(o, news, "refunded")
    /\ \/ order[o].status = "paid" /\ ReleaseSold(o) /\ ReleaseSoldForOrder(o)
       \/ order[o].status # "paid" /\ UNCHANGED inventory
    /\ admission' = [admission EXCEPT ![o] = IF @ = "issued" THEN "void" ELSE @]
    /\ ledger' = [ledger EXCEPT ![o] = IF @ = "accrued" THEN "reversed" ELSE @]
    /\ UNCHANGED owed

Settle(o, job) ==
    /\ call[o][job] \in ChargeStatuses
    /\ LET news == call[o][job] IN
         \/ SettleNoMove(o, news)
         \/ SettlePaid(o, news)
         \/ SettleRefundRequired(o, news)
         \/ SettleClosed(o, news)
         \/ SettleRefunded(o, news)
    /\ Reach(o, job, "idle")
    /\ UNCHANGED <<parked, failures, provider, copy, over>>

(* A timeout, a crash or a failed statement: the attempt leaves whatever   *)
(* it already did at the provider, and its job is run again.               *)
AttemptFails(o, job) ==
    /\ call[o][job] # "idle"
    /\ failures < MaxFailures
    /\ failures' = failures + 1
    /\ Reach(o, job, "idle")
    /\ owed' = owed \cup {<<job, o>>}
    /\ UNCHANGED <<order, inventory, books, parked, provider, copy, over>>

(* The attempts ran out.                                                   *)
JobParks(o, job) ==
    /\ <<job, o>> \in owed
    /\ failures < MaxFailures
    /\ failures' = failures + 1
    /\ owed' = owed \ {<<job, o>>}
    /\ parked' = parked \cup {<<job, o>>}
    /\ UNCHANGED <<order, inventory, books, call, provider, copy, over>>

-----------------------------------------------------------------------------
Next ==
    \/ \E o \in Orders : \E confirm \in BOOLEAN : Start(o, confirm)
    \/ \E o \in Orders : Confirm(o)
    \/ \E o \in Orders : Lapse(o)
    \/ \E o \in Orders : Cancel(o)
    \/ \E S \in SUBSET Orders : ExpireHolds(S)
    \/ \E t \in Tiers : \E edition \in Editions : EditTier(t, edition)
    \/ \E s \in Seats : Block(s)
    \/ \E s \in Seats : Unblock(s)
    \/ \E o \in Orders : ProviderMoves(o)
    \/ DateMoves
    \/ \E o \in Orders : Webhook(o)
    \/ \E o \in Orders : WebhookLost(o)
    \/ \E o \in Orders : Reconcile(o)
    \/ \E o \in Orders : AuditSettled(o)
    \/ \E o \in Orders : Poll(o)
    \/ \E o \in Orders : CopyExpires(o)
    \/ \E o \in Orders : RequestRefund(o)
    \/ \E o \in Orders : \E job \in Jobs : Begin(o, job)
    \/ \E o \in Orders : CreateCharge(o)
    \/ \E o \in Orders : CancelCharge(o)
    \/ \E o \in Orders : RefundCharge(o)
    \/ \E o \in Orders : FetchCharge(o)
    \/ \E o \in Orders : \E job \in Jobs : Settle(o, job)
    \/ \E o \in Orders : \E job \in Jobs : AttemptFails(o, job)
    \/ \E o \in Orders : \E job \in Jobs : JobParks(o, job)

Spec == Init /\ [][Next]_vars

(* The queue runs every open job (JobQueue), a sweep ticks every minute    *)
(* and the audit every hour, and a deadline comes.  Buyers, organisers and *)
(* the provider owe nothing.                                               *)
JobsRun ==
    \A o \in Orders :
      /\ \A job \in Jobs :
           /\ SF_vars(Begin(o, job))
           /\ WF_vars(Settle(o, job))
      /\ WF_vars(CreateCharge(o))
      /\ WF_vars(FetchCharge(o))
      /\ WF_vars(CancelCharge(o))
      /\ WF_vars(RefundCharge(o))

SweepsRun ==
    \A o \in Orders :
      /\ WF_vars(Lapse(o))
      /\ WF_vars(\E S \in SUBSET Orders : o \in S /\ ExpireHolds(S))
      /\ WF_vars(Reconcile(o))
      /\ WF_vars(AuditSettled(o))

NoticesArrive == \A o \in Orders : WF_vars(Webhook(o))

FairSpec == Spec /\ JobsRun /\ SweepsRun /\ NoticesArrive
LossySpec == Spec /\ JobsRun /\ SweepsRun

-----------------------------------------------------------------------------
TierRows == [quantity : Nat, reserved : Nat, sold : Nat, onSale : BOOLEAN]

(* The shape of the tables, the open jobs and the conversations; the       *)
(* counters never go negative.                                             *)
TypeOK ==
    /\ order \in [Orders -> [status : Statuses, confirmed : BOOLEAN,
                             lapsed : BOOLEAN, attached : BOOLEAN]]
    /\ tier \in [Tiers -> TierRows]
    /\ seat \in [Seats -> [status : {"available", "held", "sold", "blocked"},
                           holder : Orders \cup {NoOrder}]]
    /\ admission \in [Orders -> {"none", "issued", "void"}]
    /\ ledger \in [Orders -> {"none", "accrued", "reversed"}]
    /\ owed \subseteq Jobs \X Orders
    /\ parked \subseteq Jobs \X Orders
    /\ call \in [Orders -> [Jobs -> Stages]]
    /\ charge \in [Orders -> ChargeWords]
    /\ notice \in [Orders -> BOOLEAN]
    /\ failures \in 0 .. MaxFailures
    /\ copy \in [Orders -> [status : Statuses, attached : BOOLEAN]]
    /\ over \in BOOLEAN

(* No tier ever promises more than the organiser put on sale, nor more     *)
(* than its area holds, whatever checkout, late payments, expiries,        *)
(* refunds and organiser edits race each other.                            *)
NoOversell ==
    \A t \in Tiers :
        /\ tier[t].sold + tier[t].reserved <= tier[t].quantity
        /\ tier[t].sold + tier[t].reserved <= AreaCapacity[t]

(* The counters are a projection of the orders, never adrift of them:      *)
(* every pending order is counted once as reserved and every paid one once *)
(* as sold.  A stock movement done twice, or skipped, shows here.          *)
StockMatchesOrders ==
    \A t \in Tiers :
        /\ tier[t].reserved = Qty(Pending, t)
        /\ tier[t].sold = Qty(Paid, t)

(* A chair is held by the one pending order that names it, sold to the one *)
(* paid order that names it, and otherwise nobody's: the chairs never      *)
(* disagree with the orders, so no chair is sold twice.                    *)
SeatsMatchOrders ==
    /\ \A s \in Seats :
         /\ seat[s].status = "held" => seat[s].holder \in Pending /\ s \in Basket[seat[s].holder]
         /\ seat[s].status = "sold" => seat[s].holder \in Paid /\ s \in Basket[seat[s].holder]
         /\ seat[s].status \in {"available", "blocked"} => seat[s].holder = NoOrder
    /\ \A o \in Orders : \A s \in Chairs(o) :
         /\ HoldsStock(o) => seat[s] = [status |-> "held", holder |-> o]
         /\ order[o].status = "paid" => seat[s] = [status |-> "sold", holder |-> o]

(* Entry and the organiser's claim follow the money exactly: standing      *)
(* while the order is paid, withdrawn once it is refunded, and never       *)
(* created for an order whose money only had to be given back.             *)
EntryAndClaimMatchPayment ==
    \A o \in Orders :
        /\ admission[o] = "issued" <=> order[o].status = "paid"
        /\ ledger[o] = "accrued" <=> order[o].status = "paid"
        /\ admission[o] = "void" <=> ledger[o] = "reversed"
        /\ admission[o] = "void" => order[o].status = "refunded"

(* Nobody gets in, and no organiser is credited, on a charge that was      *)
(* never paid: answers arrive late and out of order, from four jobs, and   *)
(* none of them may turn an unpaid charge into a paid order.               *)
NoEntryWithoutMoney ==
    \A o \in Orders :
        order[o].status \in {"paid", "refund_required", "refunded"}
            => charge[o] \in UnderReview \cup {"paid", "refunded", "charged_back"}

(* A buyer who paid for what was already gone is never forgotten: the      *)
(* refund is scheduled, running or parked for a human here, or the         *)
(* provider has taken it up or made it.                                    *)
RefundNeverForgotten ==
    \A o \in Orders :
        order[o].status = "refund_required" =>
            \/ <<"charge.refund", o>> \in owed \cup parked
            \/ call[o]["charge.refund"] # "idle"
            \/ charge[o] \in {"refund_requested", "refunded", "charged_back"}

(* Refuted: "there is no window in which the system has recorded the debt  *)
(* without acting on it" (OpenOperatorRefund), read of the debt's whole    *)
(* life.  Once the provider has taken the refund up the job is done: only  *)
(* a notification ends the debt, and no sweep lists such an order.         *)
DebtIsActedOn ==
    \A o \in Orders :
        order[o].status = "refund_required" =>
            \E job \in {"charge.refund", "payment.sync"} :
                <<job, o>> \in owed \cup parked \/ call[o][job] # "idle"

(* What the sale comes down to: where each order stands, what is offered,  *)
(* and which chairs are kept back.                                         *)
StandsAs(o) ==
    CASE HoldsStock(o) -> "held"
      [] order[o].status = "paid" -> "entitled"
      [] order[o].status = "refunded" -> "returned"
      [] OTHER -> "out"

Standings == [o \in Orders |-> StandsAs(o)]
Offering == [t \in Tiers |-> tier[t].quantity]
Withheld == {s \in Seats : seat[s].status = "blocked"}

Sale == INSTANCE TicketSale WITH
    phase <- Standings, offer <- Offering, withheld <- Withheld,
    Offers <- {edition[1] : edition \in Editions}

(* The counters, chair rows, statuses and jobs together keep what an ideal *)
(* sale promises: whole baskets, taken only while there is room, entitled  *)
(* once, and returned for good.                                            *)
KeepsTheSale == Sale!Spec

(* Every hold ends: paid, closed or expired, its stock does not stay off   *)
(* sale for ever, by its own job or by the sweep.                          *)
HoldsEnd ==
    \A o \in Orders : HoldsStock(o) ~> ~HoldsStock(o)

(* Money taken is answered with a ticket or a refund, unless the job that  *)
(* would have settled it ran out of attempts and waits for a human.        *)
Settled(o) ==
    \/ order[o].status \in {"paid", "refunded", "refund_required"}
    \/ charge[o] # "paid"
    \/ <<"payment.sync", o>> \in parked

PaidMoneySettles ==
    \A o \in Orders : charge[o] = "paid" ~> Settled(o)

(* A refund the box office owes is made, or parked where a human sees it,  *)
(* for as long as the provider does not sit on it.  Once the provider has  *)
(* made what it took up, its notification has to be worked off too.        *)
RefundsComplete ==
    \A o \in Orders :
        order[o].status = "refund_required" ~>
            \/ order[o].status = "refunded"
            \/ charge[o] = "refund_requested"
            \/ \E job \in {"charge.refund", "payment.sync"} : <<job, o>> \in parked

(* Money that went back behind our back is noticed by the audit even when  *)
(* its notification is lost: the tickets do not stay sold for ever, unless *)
(* the event's date has passed, after which nobody audits.                 *)
ClawbackNoticed ==
    \A o \in Orders :
        order[o].status = "paid" /\ charge[o] \in {"refunded", "charged_back"}
            ~> order[o].status = "refunded" \/ over

(* "so a code cannot stay payable for inventory that was given back"       *)
(* (comment of EnqueueCancelCharge): once the hold expired, a charge that  *)
(* can still be paid has a void scheduled, running or parked, or is being  *)
(* created at this very moment.                                            *)
CodeDiesWithHold ==
    \A o \in Orders :
        order[o].status = "expired" /\ charge[o] = "pending" =>
            \/ <<"charge.cancel", o>> \in owed \cup parked
            \/ call[o]["charge.cancel"] # "idle"
            \/ call[o]["charge.create"] # "idle"
            \/ <<"charge.create", o>> \in owed

(* The void is decided "at the moment of cancelling rather than trusted    *)
(* from the job" (comment in CancelCharge): a void that is taken up for a  *)
(* closed order with a payable charge asks the provider, or is parked.     *)
VoidAsksTheProvider ==
    [][\A o \in Orders :
         /\ order[o].status \in {"expired", "cancelled"} /\ order[o].attached
         /\ charge[o] = "pending"
         /\ <<"charge.cancel", o>> \in owed \ owed'
         => call'[o]["charge.cancel"] = "ask" \/ <<"charge.cancel", o>> \in parked']_vars

(* Confirmed "is what stops the charge job being created for a basket the  *)
(* buyer is still filling in" (comment of schema.Order): no charge job is  *)
(* open for a basket nobody confirmed.                                     *)
NoChargeJobForBasket ==
    \A o \in Orders : <<"charge.create", o>> \in owed => order[o].confirmed
=============================================================================
