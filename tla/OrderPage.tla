----------------------------- MODULE OrderPage -----------------------------
(* A buyer's order endpoints: a basket started, confirmed with the details *)
(* of the profile, listed, opened, cancelled, and refunded by an operator, *)
(* step by step, with the one-second copy reads go through and the lookups *)
(* that dress an answer.                                                   *)
EXTENDS Integers, FiniteSets

CONSTANTS
    Orders, First,      \* ids, and the one that stands at the start
    Owner,              \* whose it is
    Requests,
    Asks,               \* [kind, who, id, sent: a name, confirm, want: statuses]
    Legal,              \* the names on the buyers' profiles, buyer -> name
    BasketRefusals,     \* what a basket may be refused with
    CartHoldFor, HoldFor, MaxNow, MaxFaults,
    Root,               \* the operator
    Nothing

PageAssumption ==
    /\ IsFiniteSet(Orders) /\ First \in Orders /\ CartHoldFor \in Nat \ {0} /\ HoldFor \in Nat \ {0}
    /\ Owner \in DOMAIN Legal /\ \A buyer \in DOMAIN Legal : Legal[buyer] # ""
    /\ BasketRefusals \cap {"", "fault"} = {} /\ \A ask \in Asks : ask.kind # "list" => ask.id \in Orders

VARIABLES order, copy, now, request, faults
orderPageVars == <<order, copy, now, request, faults>>

Later(a, b) == IF a > b THEN a ELSE b
Holding == {"pending_payment"}
NoOrder == [status |-> "none"]
NewOrder(who, hold) ==
    [status |-> "pending_payment", owner |-> who, name |-> "", city |-> FALSE, confirmed |-> FALSE, since |-> 0,
     cart |-> hold, hold |-> hold, charges |-> 0, payment |-> FALSE, refunds |-> 0, asked |-> FALSE]
Gone == [at |-> "none", ask |-> Nothing, name |-> "", city |-> FALSE, rows |-> <<>>, total |-> 0,
         badges |-> {}, err |-> "", status |-> 0, code |-> "", made |-> FALSE, unanswered |-> FALSE,
         lost |-> {}, always |-> {}, held |-> FALSE]
Cart == NewOrder(Owner, CartHoldFor)
Settled == [Cart EXCEPT !.status = "paid", !.name = Legal[Owner], !.confirmed = TRUE, !.hold = Later(@, HoldFor),
                        !.charges = 1, !.payment = TRUE]

Init ==
    /\ \E row \in {Cart, Settled} : order = [o \in Orders |-> IF o = First THEN row ELSE NoOrder]
    /\ copy = [o \in Orders |-> NoOrder] /\ now = 0
    /\ request = [q \in Requests |-> Gone] /\ faults = 0

Made == {o \in Orders : order[o] # NoOrder}
Becomes(q, next) == request' = [request EXCEPT ![q] = next]
Loses(q, what, next) ==
    /\ faults < MaxFaults /\ faults' = faults + 1
    /\ Becomes(q, [next EXCEPT !.lost = @ \cup {what}])

-----------------------------------------------------------------------------
(* What an error is to the buyer: hold_expired has a code and no status.   *)
StatusFor(err) ==
    CASE err = "" -> 200
      [] err = "ErrForbidden" -> 403
      [] err = "ErrNotFound" -> 404
      [] err \in {"ErrInsufficientStock", "ErrNotOnSale", "ErrTooManyOpenOrders", "ErrTooManyHeldTickets"} -> 409
      [] err \in {"ErrNotRefundable", "ErrInvalidQuantity", "ErrInvalidBuyerName", "ErrInvalidTransition"} -> 422
      [] OTHER -> 500
CodeFor(err) ==
    CASE err = "ErrTooManyOpenOrders" -> "too_many_open_orders"
      [] err = "ErrTooManyHeldTickets" -> "too_many_held_tickets"
      [] err = "ErrInsufficientStock" -> "insufficient_stock"
      [] err = "ErrNotOnSale" -> "not_on_sale"
      [] err = "ErrMultipleEvents" -> "multiple_events"
      [] err = "ErrHoldExpired" -> "hold_expired"
      [] err = "ErrInvalidQuantity" -> "quantity_not_allowed"
      [] OTHER -> ""
Refused(r, err) == [r EXCEPT !.at = "done", !.err = err, !.status = StatusFor(err), !.code = CodeFor(err)]
Answered(r, status) == [r EXCEPT !.at = "done", !.status = status]
Success(ask) == CASE ask.kind = "create" -> 201 [] ask.kind = "refund" -> 202 [] OTHER -> 200
MayReach(who, owner) == who = Root \/ who = owner

-----------------------------------------------------------------------------
OpenRequests == {o \in Made : order[o].asked}
Begin(ask) ==
    CASE ask.kind = "create" -> "audience"
      [] ask.kind = "confirm" -> IF ask.sent = "" THEN "profile" ELSE "turn"
      [] ask.kind = "list" -> "list"
      [] OTHER -> "load"
Arrives(q, ask) ==
    LET arrived == [Gone EXCEPT !.at = Begin(ask), !.ask = ask, !.name = ask.sent, !.always = OpenRequests] IN
    /\ request[q] = Gone
    /\ Becomes(q, IF ask.kind = "refund" /\ ask.who # Root THEN Refused(arrived, "ErrForbidden") ELSE arrived)
    /\ UNCHANGED <<order, copy, now, faults>>

(* The profile fills what was not sent, and its failure fails nothing.     *)
audienceFor(q) ==
    LET r == request[q] IN
    /\ r.at = "audience"
    /\ \/ Becomes(q, [r EXCEPT !.at = "turn", !.city = r.ask.who \in DOMAIN Legal]) /\ UNCHANGED faults
       \/ Loses(q, "audience", [r EXCEPT !.at = "turn"])
    /\ UNCHANGED <<order, copy, now>>
withProfileDetails(q) ==
    LET r == request[q] IN
    /\ r.at = "profile"
    /\ \/ Becomes(q, [r EXCEPT !.at = "turn", !.name = IF r.ask.who \in DOMAIN Legal THEN Legal[r.ask.who] ELSE @])
          /\ UNCHANGED faults
       \/ Loses(q, "profile", [r EXCEPT !.at = "turn"])
    /\ UNCHANGED <<order, copy, now>>

(* One order through its copy, which the database renews.                  *)
Owned(r, row) ==
    IF row = NoOrder THEN Refused(r, "ErrNotFound")
    ELSE IF ~MayReach(r.ask.who, row.owner) THEN Refused(r, "ErrForbidden")
    ELSE [r EXCEPT !.rows = [o \in {r.ask.id} |-> row], !.at = IF r.ask.kind = "get" THEN "events" ELSE "turn"]
GetByID(q) ==
    LET r == request[q]  row == order[r.ask.id] IN
    /\ r.at = "load" /\ UNCHANGED <<order, copy, now>>
    /\ \/ copy[r.ask.id] # NoOrder /\ Becomes(q, Owned(r, copy[r.ask.id])) /\ UNCHANGED faults
       \/ copy[r.ask.id] = NoOrder /\ row = NoOrder /\ Becomes(q, Owned(r, NoOrder)) /\ UNCHANGED faults
       \/ copy[r.ask.id] = NoOrder /\ row # NoOrder /\ UNCHANGED faults
          /\ Becomes(q, [r EXCEPT !.rows = [o \in {r.ask.id} |-> row], !.at = "keep"])
       \/ copy[r.ask.id] = NoOrder /\ Loses(q, "read", Refused(r, "fault"))
Keeps(q) ==
    LET r == request[q]  row == r.rows[r.ask.id] IN
    /\ r.at = "keep" /\ Becomes(q, Owned(r, row))
    /\ copy' = [copy EXCEPT ![r.ask.id] = row]
    /\ UNCHANGED <<order, now, faults>>

-----------------------------------------------------------------------------
(* The transactions.  One whose answer is lost may have been done.         *)
Commits(q, o, row, next) ==
    /\ request[q].at = "turn" /\ UNCHANGED <<copy, now>>
    /\ \/ order' = [order EXCEPT ![o] = row] /\ Becomes(q, next) /\ UNCHANGED faults
       \/ order' = [order EXCEPT ![o] = row]
          /\ Loses(q, "turn", [Refused(next, "fault") EXCEPT !.unanswered = TRUE])
       \/ UNCHANGED order /\ Loses(q, "turn", Refused(request[q], "fault"))
RefusedAt(q, err) ==
    /\ request[q].at = "turn" /\ UNCHANGED <<order, copy, now, faults>>
    /\ Becomes(q, [Refused(request[q], err) EXCEPT !.held = LET row == order[request[q].ask.id] IN
         row # NoOrder /\ row.status \in Holding /\ now < row.hold])

HoldLapsed(row) == row.status \in Holding /\ now >= row.hold
ConfirmAgain(row, name) ==
    [row EXCEPT !.name = name, !.confirmed = TRUE, !.since = now, !.charges = 1, !.hold = Later(@, now + HoldFor)]
ConfirmOrder(row, name) == IF row.confirmed THEN [row EXCEPT !.name = name] ELSE ConfirmAgain(row, name)
ConfirmError(r, row) ==
    IF row = NoOrder THEN "ErrNotFound"
    ELSE IF row.owner # r.ask.who THEN "ErrNotFound"
    ELSE IF HoldLapsed(row) \/ row.status \notin Holding THEN "ErrHoldExpired"
    ELSE IF r.name = "" THEN "ErrInvalidBuyerName" ELSE ""
Confirm(q) ==
    LET r == request[q]  o == r.ask.id  err == ConfirmError(r, order[o]) IN
    /\ r.at = "turn" /\ r.ask.kind = "confirm"
    /\ IF err # "" THEN RefusedAt(q, err) ELSE
       LET row == ConfirmOrder(order[o], r.name) IN
       Commits(q, o, row, [r EXCEPT !.at = "events", !.rows = [p \in {o} |-> row], !.made = TRUE])

(* A checkout: the basket's own refusals, or a new order.                  *)
Start(q) ==
    LET r == request[q]  o == r.ask.id
        basket == [NewOrder(r.ask.who, now + IF r.ask.confirm THEN HoldFor ELSE CartHoldFor) EXCEPT
                     !.city = r.city, !.name = r.name]
        row == IF r.ask.confirm THEN ConfirmOrder(basket, r.name) ELSE basket IN
    /\ r.at = "turn" /\ r.ask.kind = "create" /\ order[o] = NoOrder
    /\ \/ \E err \in BasketRefusals : RefusedAt(q, err)
       \/ /\ r.ask.confirm => r.name # ""
          /\ Commits(q, o, row, [r EXCEPT !.at = "events", !.rows = [p \in {o} |-> row], !.made = TRUE])

(* Cancelling twice changes nothing, and is no error.                      *)
Cancel(q) ==
    LET r == request[q]  o == r.ask.id  row == order[o] IN
    /\ r.at = "turn" /\ r.ask.kind = "cancel"
    /\ \/ row.status \in Holding
          /\ LET cut == [row EXCEPT !.status = "cancelled"] IN
             Commits(q, o, cut, Answered([r EXCEPT !.rows = [p \in {o} |-> cut], !.made = TRUE], 200))
       \/ row.status = "cancelled" /\ Commits(q, o, row, Answered([r EXCEPT !.rows = [p \in {o} |-> row]], 200))
       \/ row.status \notin Holding \cup {"cancelled"} /\ RefusedAt(q, "ErrInvalidTransition")

(* An operator's refund judges the copy it read, and is queued once.       *)
Refund(q) ==
    LET r == request[q]  o == r.ask.id  read == r.rows[o] IN
    /\ r.at = "turn" /\ r.ask.kind = "refund"
    /\ IF read.payment /\ read.status \in {"paid", "refund_required"}
       THEN Commits(q, o, [order[o] EXCEPT !.refunds = 1], Answered([r EXCEPT !.made = TRUE], 202))
       ELSE RefusedAt(q, "ErrNotRefundable")

-----------------------------------------------------------------------------
(* A page and its total are two statements over one filter.                *)
Matching(ask) ==
    {o \in Made : (ask.who = Root \/ order[o].owner = ask.who) /\ (ask.want = {} \/ order[o].status \in ask.want)}
List(q) ==
    LET r == request[q] IN
    /\ r.at = "list" /\ UNCHANGED <<order, copy, now>>
    /\ \/ Becomes(q, [r EXCEPT !.at = "count", !.rows = [o \in Matching(r.ask) |-> order[o]]]) /\ UNCHANGED faults
       \/ Loses(q, "read", Refused(r, "fault"))
Count(q) ==
    LET r == request[q] IN
    /\ r.at = "count" /\ UNCHANGED <<order, copy, now>>
    /\ \/ Becomes(q, [r EXCEPT !.at = "events", !.total = Cardinality(Matching(r.ask))]) /\ UNCHANGED faults
       \/ Loses(q, "read", Refused(r, "fault"))

(* What dresses the answer: without the events' names no badge is sought.  *)
EventsFail(r) == Answered(r, Success(r.ask))
withEvents(q) ==
    LET r == request[q]  named == IF DOMAIN r.rows = {} THEN EventsFail(r) ELSE [r EXCEPT !.at = "refunds"] IN
    /\ r.at = "events" /\ UNCHANGED <<order, copy, now>>
    /\ \/ Becomes(q, named) /\ UNCHANGED faults
       \/ DOMAIN r.rows # {} /\ Loses(q, "events", EventsFail(r))
OpenByOrders(q) ==
    LET r == request[q] IN
    /\ r.at = "refunds" /\ UNCHANGED <<order, copy, now>>
    /\ \/ Becomes(q, Answered([r EXCEPT !.badges = OpenRequests \cap DOMAIN r.rows], Success(r.ask))) /\ UNCHANGED faults
       \/ Loses(q, "refunds", Answered(r, Success(r.ask)))

-----------------------------------------------------------------------------
(* The rest of the system, and the second after which a copy is dropped.   *)
Elsewhere(o) ==
    LET row == order[o]
        Becoming(status) == order' = [order EXCEPT ![o].status = status, ![o].asked = FALSE] IN
    /\ row # NoOrder
    /\ \/ row.charges = 1 /\ row.status \in Holding /\ ~row.payment /\ order' = [order EXCEPT ![o].payment = TRUE]
       \/ row.payment /\ row.status \in Holding /\ Becoming("paid")
       \/ row.payment /\ row.status \in {"cancelled", "expired"} /\ Becoming("refund_required")
       \/ HoldLapsed(row) /\ Becoming("expired")
       \/ row.refunds = 1 /\ row.status \in {"paid", "refund_required"} /\ Becoming("refunded")
       \/ row.status = "paid" /\ order' = [order EXCEPT ![o].asked = ~@]
    /\ request' = [q \in Requests |-> [request[q] EXCEPT !.always = @ \cap {p \in Made : order'[p].asked}]]
    /\ UNCHANGED <<copy, now, faults>>
Tick ==
    /\ now < MaxNow /\ now' = now + 1 /\ copy' = [o \in Orders |-> NoOrder]
    /\ UNCHANGED <<order, request, faults>>

Next ==
    \/ \E q \in Requests :
         \/ \E ask \in Asks : Arrives(q, ask)
         \/ audienceFor(q) \/ withProfileDetails(q) \/ GetByID(q) \/ Keeps(q)
         \/ Confirm(q) \/ Start(q) \/ Cancel(q) \/ Refund(q)
         \/ List(q) \/ Count(q) \/ withEvents(q) \/ OpenByOrders(q)
    \/ (\E o \in Orders : Elsewhere(o)) \/ Tick

-----------------------------------------------------------------------------
TypeOK ==
    /\ \A o \in Made : order[o].refunds \in 0..1 /\ order[o].since <= now
    /\ \A q \in Requests : request[q].at \in
         {"none", "audience", "profile", "load", "keep", "turn", "list", "count", "events", "refunds", "done"}

Done(q) == request[q].at = "done"
Dressing == {"audience", "profile", "events", "refunds"}

(* A buyer whose order was made, confirmed or cancelled is told so,        *)
(* whatever lookup fails around it, unless the commit's answer is lost.    *)
MadeIsTold == \A q \in Requests : LET r == request[q] IN
    Done(q) =>
      /\ r.made => r.status < 300 \/ r.unanswered
      /\ r.lost \subseteq Dressing => r.err # "fault"

(* However often and late an order is confirmed, it is charged once, in a  *)
(* name, and its hold grows once, from a moment at which it still stood.   *)
ConfirmOnce == \A o \in Made : LET row == order[o] IN
    /\ row.charges = IF row.confirmed THEN 1 ELSE 0
    /\ row.hold = IF row.confirmed THEN Later(row.cart, row.since + HoldFor) ELSE row.cart
    /\ row.confirmed => row.name # "" /\ row.since < row.cart

(* A page shows a buyer her own orders, a total that covers them, and a    *)
(* badge on every one whose refund was under way all along.                *)
PageStands == \A q \in Requests : LET r == request[q] IN
    Done(q) /\ r.status \in {200, 201} /\ r.ask.kind \in {"list", "get", "confirm", "create"} =>
      /\ r.ask.who # Root => \A o \in DOMAIN r.rows : r.rows[o].owner = r.ask.who
      /\ r.ask.kind = "list" /\ r.ask.want = {} => r.total >= Cardinality(DOMAIN r.rows)
      /\ r.lost = {} => r.always \cap DOMAIN r.rows \subseteq r.badges

(* A refusal is true of the order it refuses when it is given: a stranger, *)
(* a hold that has ended, a name nobody knows or whose profile failed.     *)
RefusalsExplained == \A q \in Requests : LET r == request[q] IN
    Done(q) /\ r.ask.kind # "create" =>
      /\ r.err = "ErrForbidden" => r.ask.who # Root /\ (r.ask.kind = "refund" \/ order[r.ask.id].owner # r.ask.who)
      /\ r.err \in {"ErrHoldExpired", "ErrInvalidTransition"} => ~r.held
      /\ r.err = "ErrInvalidBuyerName" =>
           r.ask.sent = "" /\ (r.ask.who \notin DOMAIN Legal \/ "profile" \in r.lost)

OrderPageSound == MadeIsTold /\ ConfirmOnce /\ PageStands /\ RefusalsExplained

(* Refuted: a hold that has ended is a                                     *)
(* conflict to its buyer, and never an error of the server.                *)
HoldExpiredIsConflict == \A q \in Requests : request[q].err = "ErrHoldExpired" => request[q].status = 409
=============================================================================
