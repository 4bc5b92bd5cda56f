------------------------------- MODULE Baskets -------------------------------
(* Transactions of the box office as their statements: a basket is held,   *)
(* paid, given up or swept behind row locks kept to the end of the         *)
(* transaction.  A statement looks for its row in what is committed, waits *)
(* for whoever holds it, and looks again.                                  *)
EXTENDS Integers, FiniteSets, Functions

CONSTANTS
    Connections, Orders,
    BuyerOf,            \* order -> buyer
    Sent,               \* order -> the lines [tier, quantity, chairs] the browser sent
    Quantity,           \* tier, a number as ids are ordered -> places
    TierOf,             \* chair -> its tier
    MaxOrders, MaxPerTier, MaxQuantityPerOrder,
    Nobody

Tiers == DOMAIN Quantity
Chairs == DOMAIN TierOf

(* A connection pool is finite, and so is what was ever sold; both limits  *)
(* are set; tiers and chairs asked for exist.                              *)
TillAssumption ==
    /\ IsFiniteSet(Connections) /\ IsFiniteSet(Orders) /\ IsFiniteSet(Chairs)
    /\ Tiers \subseteq Nat /\ Nobody \notin Connections \cup Orders
    /\ Orders \subseteq DOMAIN BuyerOf
    /\ MaxOrders \in Nat \ {0} /\ MaxPerTier \in Nat \ {0}
    /\ \A o \in Orders : /\ IsFiniteSet(DOMAIN Sent[o])
                         /\ \A k \in DOMAIN Sent[o] : Sent[o][k] \in [tier : Tiers, quantity : Int, chairs : SUBSET Chairs]

VARIABLES
    row,        \* row -> its newest version
    committed,  \* row -> the version others see
    locks,      \* row -> the connection that holds it
    tx          \* connection -> its transaction

BuyerRow(b) == <<"buyer", b>>
OrderRow(o) == <<"order", o>>
TierRow(t) == <<"tier", t>>
ChairRow(c) == <<"chair", c>>
BuyerRows == {BuyerRow(BuyerOf[o]) : o \in Orders}
OrderRows == {OrderRow(o) : o \in Orders}
TierRows == {TierRow(t) : t \in Tiers}
ChairRows == {ChairRow(c) : c \in Chairs}
Rows == BuyerRows \cup OrderRows \cup TierRows \cup ChairRows
Statuses == {"none", "pending_payment", "paid", "expired", "cancelled", "refund_required"}
Resting == [kind |-> "idle", order |-> Nobody, todo |-> {}, scan |-> <<>>]

Init ==
    /\ row = [r \in Rows |-> CASE r \in BuyerRows -> "" [] r \in OrderRows -> [status |-> "none", lines |-> {}]
                               [] r \in TierRows -> [reserved |-> 0, sold |-> 0]
                               [] r \in ChairRows -> [by |-> Nobody, sold |-> FALSE]]
    /\ committed = row
    /\ locks = [r \in Rows |-> Nobody]
    /\ tx = [k \in Connections |-> Resting]

(* What was sent becomes one line per tier.                                *)
Meant(lines) == {k \in DOMAIN lines : lines[k].chairs # {} \/ lines[k].quantity > 0}
For(lines, t) == {k \in Meant(lines) : lines[k].tier = t}
ChairsOf(lines, t) == UNION {lines[k].chairs : k \in For(lines, t)}
UnitsOf(lines, t) ==
    IF ChairsOf(lines, t) # {} THEN Cardinality(ChairsOf(lines, t))
    ELSE SumFunction([k \in For(lines, t) |-> lines[k].quantity])
Line(lines, t) == [tier |-> t, quantity |-> UnitsOf(lines, t), chairs |-> ChairsOf(lines, t)]
TiersOf(lines) == {lines[k].tier : k \in Meant(lines)}
Refused(lines) ==
    \/ Meant(lines) = {}
    \/ \E k \in Meant(lines) : lines[k].chairs # {} /\ lines[k].quantity \notin {0, Cardinality(lines[k].chairs)}
    \/ \E k, l \in Meant(lines) :
          lines[k].tier = lines[l].tier /\ (lines[k].chairs = {}) # (lines[l].chairs = {})
    \/ SumFunction([t \in TiersOf(lines) |-> UnitsOf(lines, t)]) > MaxQuantityPerOrder
    \/ \E k \in Meant(lines) : lines[k].chairs = {} /\ lines[k].tier \in Range(TierOf)
NormalizeItems(lines) == {Line(lines, t) : t \in TiersOf(lines)}
Names(lines, c) == \E l \in lines : c \in l.chairs

(* Statements: what is done to which row, and its turn.  A round of a      *)
(* transaction goes by the ids of its tiers; an update of several chairs   *)
(* meets them in the order of its scan, and comes before its tier's.       *)
Do(does, r, n, o, turn) == [does |-> does, row |-> r, by |-> n, order |-> o, turn |-> turn]
Precedes(a, b) == a[1] < b[1] \/ (a[1] = b[1] /\ (a[2] < b[2] \/ (a[2] = b[2] /\ a[3] < b[3])))
Scans == Injection(Chairs, 1..Cardinality(Chairs))
Each(does, o, lines, round) ==
    {Do(does, TierRow(l.tier), l.quantity, o, <<round, l.tier, Cardinality(Chairs) + 1>>) : l \in lines}
(* A claim names the tier it pays for, and takes its chairs alone.         *)
Claims(o, lines, scan) ==
    UNION {{Do("claim", ChairRow(c), l.tier, o, <<1, l.tier, scan[c]>>) : c \in l.chairs} : l \in lines}
ChairsInScan(does, o, lines, round, scan) ==
    {Do(does, ChairRow(c), 1, o, <<round, 0, scan[c]>>) : c \in UNION {l.chairs : l \in lines}}
CountingApart(o) == Do("count", OrderRow(o), 0, o, <<0, 0, 0>>)
Counting(o) == Do("count", BuyerRow(BuyerOf[o]), 0, o, <<0, 0, 0>>)
Basket(o, lines, scan) ==
    {Counting(o), Do("insert", OrderRow(o), 0, o, <<2, 0, 0>>)} \cup Claims(o, lines, scan) \cup Each("reserve", o, lines, 1)
ReleaseAll(o, lines, nth, scan) ==
    Each("release", o, lines, 2 * nth) \cup ChairsInScan("free", o, lines, 2 * nth + 1, scan)
CommitAll(o, lines, scan) == Each("sell", o, lines, 3) \cup ChairsInScan("commit", o, lines, 4, scan)
(* A late payment takes the chairs first and the counters after.           *)
ReserveAll(o, lines, scan) == Claims(o, lines, scan) \cup Each("reserve", o, lines, 2)

(* What a transaction sees: what is committed, and what it wrote.          *)
Seen(k, r) == IF locks[r] = k THEN row[r] ELSE committed[r]
Order(o) == committed[OrderRow(o)]
In(status) == {o \in Orders : Order(o).status = status}

OpenOrders(b) == {o \in In("pending_payment") : BuyerOf[o] = b}
Places(lines, t) == SumFunction([l \in {m \in lines : m.tier = t} |-> l.quantity])
Units(os, t) == SumFunction([o \in os |-> Places(Order(o).lines, t)])
Allows(o, lines) ==
    /\ Cardinality(OpenOrders(BuyerOf[o])) < MaxOrders
    /\ \A l \in lines : Units(OpenOrders(BuyerOf[o]), l.tier) + l.quantity <= MaxPerTier

Matches(s, v) ==
    CASE s.does = "count" -> Allows(s.order, NormalizeItems(Sent[s.order]))
      [] s.does = "reserve" -> Quantity[s.row[2]] - v.sold - v.reserved >= s.by
      [] s.does \in {"release", "sell"} -> v.reserved >= s.by
      [] s.does = "claim" -> v.by = Nobody /\ TierOf[s.row[2]] = s.by
      [] OTHER -> TRUE
Written(s, v) ==
    CASE s.does = "reserve" -> [v EXCEPT !.reserved = @ + s.by]
      [] s.does = "release" -> [v EXCEPT !.reserved = @ - s.by]
      [] s.does = "sell" -> [reserved |-> v.reserved - s.by, sold |-> v.sold + s.by]
      [] s.does = "claim" -> [v EXCEPT !.by = s.order]
      [] s.does = "free" /\ v = [by |-> s.order, sold |-> FALSE] -> [v EXCEPT !.by = Nobody]
      [] s.does = "commit" /\ v.by = s.order -> [v EXCEPT !.sold = TRUE]
      [] s.does = "insert" -> [status |-> "pending_payment", lines |-> NormalizeItems(Sent[s.order])]
      [] OTHER -> v

Idle(k) == tx[k].kind = "idle"
Firsts(k) == {s \in tx[k].todo : \A u \in tx[k].todo \ {s} : Precedes(s.turn, u.turn)}
(* A row that does not match as committed is passed over without waiting;  *)
(* what is counted is counted once the buyer is locked.                    *)
Finds(k, s) == s.does = "count" \/ Matches(s, Seen(k, s.row))
Free(k, s) == locks[s.row] \in {Nobody, k}

Begin(k, kind, o, todo, scan) == tx' = [tx EXCEPT ![k] = [kind |-> kind, order |-> o, todo |-> todo, scan |-> scan]]
(* The row is locked and written.                                          *)
Take(k, r, v, todo) ==
    /\ row' = [row EXCEPT ![r] = v] /\ locks' = [locks EXCEPT ![r] = k]
    /\ tx' = [tx EXCEPT ![k].todo = todo] /\ UNCHANGED committed
Ended(k) ==
    /\ locks' = [r \in Rows |-> IF locks[r] = k THEN Nobody ELSE locks[r]]
    /\ tx' = [tx EXCEPT ![k] = Resting]
Commit(k) ==
    /\ ~Idle(k) /\ tx[k].todo = {} /\ Ended(k)
    /\ committed' = [r \in Rows |-> IF locks[r] = k THEN row[r] ELSE committed[r]] /\ UNCHANGED row
GivenBack(k) == [r \in Rows |-> IF locks[r] = k THEN committed[r] ELSE row[r]]
Rollback(k) == row' = GivenBack(k) /\ Ended(k) /\ UNCHANGED committed

(* A checkout, behind a key of its own.                                    *)
Begun(o) == \E k \in Connections : tx[k].kind = "start" /\ tx[k].order = o
Start(k) == \E o \in Orders, scan \in Scans :
    /\ Idle(k) /\ Order(o).status = "none" /\ ~Begun(o) /\ ~Refused(Sent[o])
    /\ Begin(k, "start", o, Basket(o, NormalizeItems(Sent[o]), scan), scan)
    /\ UNCHANGED <<row, committed, locks>>

(* The expiry job, a cancellation and a payment lock the order first.      *)
Looking(o) == Do("look", OrderRow(o), 0, o, <<0, 0, 0>>)
Approach(k, kind) == \E o \in Orders, scan \in Scans :
    /\ Idle(k) /\ Order(o).status # "none"
    /\ Begin(k, kind, o, {Looking(o)}, scan)
    /\ UNCHANGED <<row, committed, locks>>
ExpireHold(k) == Approach(k, "expire")
Cancel(k) == Approach(k, "cancel")
Settle(k) == Approach(k, "pay")

(* The sweep flips lapsed orders nobody has locked and releases them one   *)
(* after the other in one transaction.  When a window passes is the        *)
(* clock's: any pending order may have lapsed.                             *)
ClaimExpired == {o \in In("pending_payment") : locks[OrderRow(o)] = Nobody}
ExpireHolds(k) == \E lapsed \in SUBSET ClaimExpired, scan \in Scans :
    /\ Idle(k) /\ lapsed # {}
    /\ row' = [r \in Rows |-> IF r \in {OrderRow(o) : o \in lapsed} THEN [row[r] EXCEPT !.status = "expired"] ELSE row[r]]
    /\ locks' = [r \in Rows |-> IF r \in {OrderRow(o) : o \in lapsed} THEN k ELSE locks[r]]
    /\ \E nth \in Injection(lapsed, 1..Cardinality(lapsed)) :
          Begin(k, "sweep", Nobody, UNION {ReleaseAll(o, Order(o).lines, nth[o], scan) : o \in lapsed}, scan)
    /\ UNCHANGED committed

(* What the locked order allows; an order that cannot move is left.        *)
Look(k) == \E s \in Firsts(k) :
    /\ s.does = "look" /\ Free(k, s)
    /\ LET kind == tx[k].kind  o == tx[k].order  scan == tx[k].scan
           status == row[s.row].status  lines == row[s.row].lines
           Becomes(next, todo) == Take(k, s.row, [status |-> next, lines |-> lines], todo)
       IN  \/ kind = "expire" /\ status = "pending_payment" /\ Becomes("expired", ReleaseAll(o, lines, 1, scan))
           \/ kind = "cancel" /\ status = "pending_payment" /\ Becomes("cancelled", ReleaseAll(o, lines, 1, scan))
           \/ kind = "pay" /\ status = "pending_payment" /\ Becomes("paid", CommitAll(o, lines, scan))
           \/ /\ kind = "pay" /\ status \in {"expired", "cancelled"}
              /\ Becomes("paid", ReserveAll(o, lines, scan) \cup CommitAll(o, lines, scan))
           \/ kind = "expire" /\ Becomes(status, {})
           \/ kind = "cancel" /\ status # "pending_payment" /\ Becomes(status, {})
           \/ kind = "pay" /\ status \in {"paid", "refund_required"} /\ Becomes(status, {})

Step(k) == \E s \in Firsts(k) :
    /\ s.does # "look" /\ Free(k, s) /\ Matches(s, row[s.row])
    /\ Take(k, s.row, Written(s, row[s.row]), tx[k].todo \ {s})

(* A statement that finds nothing rolls a transaction back, but a late     *)
(* payment gives back what it took and owes a refund.                      *)
Misses(k) == \E s \in Firsts(k) :
    /\ s.does # "look" /\ ~Matches(s, Seen(k, s.row)) /\ (s.does = "count" => Free(k, s))
    /\ IF tx[k].kind = "pay" /\ s.does \in {"claim", "reserve"}
       THEN /\ row' = [GivenBack(k) EXCEPT ![OrderRow(s.order)] = [row[OrderRow(s.order)] EXCEPT !.status = "refund_required"]]
            /\ tx' = [tx EXCEPT ![k].todo = {}]
            /\ UNCHANGED <<committed, locks>>
       ELSE Rollback(k)

(* The database finds who waits in a circle and ends one of them.          *)
Circle(S) == S # {} /\ \A k \in S : \E s \in Firsts(k) : Finds(k, s) /\ ~Free(k, s) /\ locks[s.row] \in S
Deadlock(k) ==
    /\ \E S \in SUBSET Connections : k \in S /\ Circle(S) /\ \A T \in SUBSET S : Circle(T) => T = S
    /\ Rollback(k)
Crash(k) == ~Idle(k) /\ Rollback(k)

Next == \E k \in Connections :
    \/ Start(k) \/ ExpireHold(k) \/ Cancel(k) \/ Settle(k) \/ ExpireHolds(k)
    \/ Look(k) \/ Step(k) \/ Misses(k) \/ Deadlock(k) \/ Crash(k) \/ Commit(k)

-----------------------------------------------------------------------------
TypeOK ==
    /\ \A r \in OrderRows : row[r].status \in Statuses
    /\ \A r \in TierRows : row[r] \in [reserved : Nat, sold : Nat]
    /\ \A r \in ChairRows : row[r] \in [by : Orders \cup {Nobody}, sold : BOOLEAN]
    /\ locks \in [Rows -> Connections \cup {Nobody}]
    /\ \A r \in Rows : IF locks[r] = Nobody THEN row[r] = committed[r] ELSE ~Idle(locks[r])

(* However many checkouts of one buyer run at once, what is committed      *)
(* never passes the hold limits.                                           *)
WithinHoldLimits == \A b \in Range(BuyerOf) :
    /\ Cardinality(OpenOrders(b)) <= MaxOrders
    /\ \A t \in Tiers : Units(OpenOrders(b), t) <= MaxPerTier

(* At every moment what others can see adds up: a tier's counters are the  *)
(* lines of the orders that hold and that own, and a chair is its order's. *)
SeenWhole ==
    /\ \A t \in Tiers : committed[TierRow(t)] =
            [reserved |-> Units(In("pending_payment"), t), sold |-> Units(In("paid"), t)]
    /\ \A c \in Chairs :
            LET chair == committed[ChairRow(c)]
                owners == {o \in In("pending_payment") \cup In("paid") : Names(Order(o).lines, c)}
            IN  /\ owners = {chair.by} \ {Nobody}
                /\ chair.sold <=> owners \cap In("paid") # {}

(* Lines are sorted so that baskets lock their tiers in one order: nobody  *)
(* waits in a circle, unless a sweep, which releases many orders, or a     *)
(* chair is part of it.                                                    *)
CountersInOneOrder == \A S \in SUBSET Connections :
    Circle(S) => \E k \in S : tx[k].kind = "sweep" \/ \E s \in Firsts(k) : s.row \in ChairRows

BasketsSound == WithinHoldLimits /\ SeenWhole /\ CountersInOneOrder
=============================================================================
