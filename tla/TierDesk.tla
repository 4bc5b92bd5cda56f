------------------------------- MODULE TierDesk -------------------------------
(***************************************************************************)
(* Ticket tiers between the people who edit them, the cache in front of    *)
(* them, the panel a buyer sees and the checkout that takes their stock.   *)
(***************************************************************************)
EXTENDS Integers

CONSTANTS
    Callers,        \* concurrent requests
    EventOf,        \* function from tiers to their events
    Statuses,       \* of draft, on_sale, sold_out, cancelled
    MaxQuantity,    \* bound on a tier's stock
    Moments,        \* seconds at which something happens; 0 is one of them
    None

TierAssumption ==
    Moments \subseteq Nat /\ MaxQuantity \in Nat \ {0} /\ {"draft", "on_sale"} \subseteq Statuses

Tiers == DOMAIN EventOf
Shows == {EventOf[t] : t \in Tiers}
TicketTTL == 3

VARIABLES clock, event, tier, one, list, desk, screen, left   \* screen: the panel shown last

tierVars == <<clock, event, tier, one, list, desk, screen, left>>

Free == [stage |-> "free"]
Hand(c, record) == desk' = [desk EXCEPT ![c] = record]

Init ==
    /\ clock = 0
    /\ event = [e \in Shows |-> "published"]
    /\ tier \in [Tiers -> [status : {"draft", "on_sale"}, quantity : {1}, taken : {0}]]
    /\ one = [t \in Tiers |-> None]
    /\ list = None
    /\ desk = [c \in Callers |-> Free]
    /\ screen = None
    /\ left = [t \in Tiers |-> 0]

-----------------------------------------------------------------------------
(* The cache.  A listing is kept under its filter: status, search, owner,  *)
(* order and page; the panel's filter differs by the event alone, which is *)
(* not in the key, so one entry stands for every event's panel.            *)
(* Mutant of Until: a listing is kept until somebody writes.               *)
UntilForever == clock + 1000
Until == clock + TicketTTL

Alive(entry) == entry # None /\ clock < entry.until

OnSale(e) == {t \in Tiers : EventOf[t] = e /\ tier[t].status = "on_sale"}

(* The panel: a hit is shown as it is; a miss reads, and stores a second   *)
(* step later what it read.                                                *)
OnSaleTiers(c, e) ==
    /\ desk[c].stage = "free" /\ event[e] # "draft"
    /\ IF Alive(list)
       THEN screen' = [event |-> e, tiers |-> list.tiers] /\ UNCHANGED desk
       ELSE Hand(c, [stage |-> "show", event |-> e, tiers |-> OnSale(e)]) /\ UNCHANGED screen
    /\ UNCHANGED <<clock, event, tier, one, list, left>>

StoreList(c) ==
    LET k == desk[c] IN
    /\ k.stage = "show"
    /\ screen' = [event |-> k.event, tiers |-> k.tiers]
    /\ \/ list' = [tiers |-> k.tiers, until |-> Until]
       \/ UNCHANGED list            \* the cache did not answer
    /\ Hand(c, Free)
    /\ UNCHANGED <<clock, event, tier, one, left>>

-----------------------------------------------------------------------------
(* Editing.  The tier is read, through the cache, changed in hand and      *)
(* written whole but for what the sale counts; then the cache forgets it.  *)
Copy(t) == IF Alive(one[t]) THEN one[t].tier ELSE tier[t]

GetByID(c, t) ==
    /\ desk[c].stage = "free"
    /\ Hand(c, [stage |-> "apply", tier |-> t, copy |-> Copy(t)])
    /\ one' = IF Alive(one[t]) THEN one ELSE [one EXCEPT ![t] = [tier |-> tier[t], until |-> Until]]
    /\ UNCHANGED <<clock, event, tier, list, screen, left>>

(* Apply refuses a stock below what its copy says is taken; putting on     *)
(* sale by itself, a copy with nothing left.                               *)
Apply(copy, quantity) == {d \in {[copy EXCEPT !.quantity = quantity]} : quantity >= copy.taken}
ChangeStatus(copy, status) ==
    {d \in {[copy EXCEPT !.status = status]} : status = "on_sale" => copy.quantity > copy.taken}

(* Mutant of StockHolds: the database keeps no count.                      *)
StockHoldsAnyway(taken, quantity) == taken >= 0
StockHolds(taken, quantity) == taken <= quantity

Update(c) ==
    LET k == desk[c]
        t == k.tier
    IN  /\ k.stage = "apply"
        /\ \E draft \in (UNION {Apply(k.copy, q) : q \in 1..MaxQuantity})
                        \cup (UNION {ChangeStatus(k.copy, s) : s \in Statuses}) :
              IF StockHolds(tier[t].taken, draft.quantity)
              THEN /\ tier' = [tier EXCEPT ![t] = [draft EXCEPT !.taken = tier[t].taken]]
                   /\ left' = IF tier[t].status = "on_sale" /\ draft.status # "on_sale"
                              THEN [left EXCEPT ![t] = clock] ELSE left
                   /\ Hand(c, [stage |-> "forget", tier |-> t])
              ELSE Hand(c, Free) /\ UNCHANGED <<tier, left>>
        /\ UNCHANGED <<clock, event, one, list, screen>>

(* Forgetting may fail; what is kept then lapses by itself.                *)
Invalidate(c) ==
    /\ desk[c].stage = "forget"
    /\ \/ one' = [one EXCEPT ![desk[c].tier] = None] /\ list' = None
       \/ UNCHANGED <<one, list>>
    /\ Hand(c, Free)
    /\ UNCHANGED <<clock, event, tier, screen, left>>

-----------------------------------------------------------------------------
(* Checkout reads the tier itself, and takes the stock by one conditional  *)
(* update.  It does not ask the event.                                     *)
Start(c, t) ==
    /\ desk[c].stage = "free" /\ tier[t].status = "on_sale" /\ tier[t].taken < tier[t].quantity
    /\ Hand(c, [stage |-> "take", tier |-> t])
    /\ UNCHANGED <<clock, event, tier, one, list, screen, left>>

Reserve(c) ==
    LET t == desk[c].tier IN
    /\ desk[c].stage = "take"
    /\ IF tier[t].status = "on_sale" /\ tier[t].taken + 1 <= tier[t].quantity
       THEN tier' = [tier EXCEPT ![t].taken = @ + 1] /\ Hand(c, [stage |-> "forget", tier |-> t])
       ELSE Hand(c, Free) /\ UNCHANGED tier
    /\ UNCHANGED <<clock, event, one, list, screen, left>>

Release(c, t) ==
    /\ desk[c].stage = "free" /\ tier[t].taken > 0
    /\ tier' = [tier EXCEPT ![t].taken = @ - 1]
    /\ Hand(c, [stage |-> "forget", tier |-> t])
    /\ UNCHANGED <<clock, event, one, list, screen, left>>

CancelEvent(e) ==
    /\ event[e] = "published"
    /\ event' = [event EXCEPT ![e] = "cancelled"]
    /\ UNCHANGED <<clock, tier, one, list, desk, screen, left>>

(* Time passes between requests.                                           *)
Tick ==
    /\ \A c \in Callers : desk[c].stage = "free"
    /\ clock' \in {m \in Moments : m > clock}
    /\ screen' = None
    /\ UNCHANGED <<event, tier, one, list, desk, left>>

Next ==
    \/ Tick
    \/ \E e \in Shows : CancelEvent(e)
    \/ \E c \in Callers :
          \/ StoreList(c) \/ Update(c) \/ Invalidate(c) \/ Reserve(c)
          \/ \E e \in Shows : OnSaleTiers(c, e)
          \/ \E t \in Tiers : GetByID(c, t) \/ Start(c, t) \/ Release(c, t)

Spec == Init /\ [][Next]_tierVars

-----------------------------------------------------------------------------
(* Type invariant of the tiers.                                            *)
TypeOK ==
    /\ \A t \in Tiers : tier[t].status \in Statuses /\ tier[t].quantity \in 1..MaxQuantity
    /\ \A e \in Shows : event[e] \in {"published", "cancelled"}

(* Whatever edits, sales and fills of the cache cross, a tier never owes   *)
(* more than it has, and one that left the sale is off every panel within  *)
(* a lifetime of the cache.                                                *)
TierSound ==
    /\ \A t \in Tiers : tier[t].taken \in 0..tier[t].quantity
    /\ screen # None => \A t \in screen.tiers :
          tier[t].status = "on_sale" \/ clock - left[t] <= TicketTTL

(* What the cache's key promises: two different filters are two different  *)
(* answers.  The key leaves the event out.                                 *)
PanelFromOwnEvent ==
    screen # None => \A t \in screen.tiers : EventOf[t] = screen.event

(* What cancelled means: nothing new may be sold.  Checkout asks the tier  *)
(* and not the event.                                                      *)
CancelledSellsNothing ==
    [][\A t \in Tiers : event[EventOf[t]] = "cancelled" => tier'[t].taken <= tier[t].taken]_tierVars

(* What an edit that names no status promises: the tier keeps the one it   *)
(* has.  It keeps the one it had when the edit was read.                   *)
TierEditKeepsStatus ==
    [][\A c \in Callers : desk[c].stage = "apply" /\ desk'[c].stage = "forget" =>
          LET t == desk[c].tier IN
          tier'[t].status = desk[c].copy.status => tier'[t].status = tier[t].status]_tierVars
=============================================================================
