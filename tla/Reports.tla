------------------------------- MODULE Reports -------------------------------
(* What an organiser reads while the sale goes on: the dashboard, whose    *)
(* queries each see a later moment; the attendee list; and its export,     *)
(* streamed in batches, each starting after the last line written.  A line *)
(* is a row of the order: one for a counted tier, one for every chair.     *)
EXTENDS Integers, Sequences, SequencesExt, FiniteSets, FiniteSetsExt

CONSTANTS
    Orders,         \* numbered: a later id breaks a tie
    Book,           \* order -> [event, buyer, city, age, lines: its rows, <<tier, quantity>>]
    OwnerOf,        \* event -> its organiser
    Price,          \* face value of a ticket
    exportBatch, MaxExportRows, cityLimit, MaxDays, MaxFaults

VARIABLES
    order,          \* order -> [status, created, day]: created and paid, 0 before
    today,
    request,        \* the one under way
    faults

Lines == UNION {{[order |-> o, row |-> i] : i \in DOMAIN Book[o].lines} : o \in Orders}
TicketID(l) == Book[l.order].lines[l.row][1]
Quantity(l) == Book[l.order].lines[l.row][2]
Sum(L) == MapThenSumSet(Quantity, L)
Tickets(S) == Sum({l \in Lines : l.order \in S})
Nobody == [at |-> "none", kind |-> "", by |-> "", event |-> "", status |-> "", code |-> 0, answers |-> <<>>,
           file |-> <<>>, was |-> {}, steady |-> {}, started |-> FALSE]

Init ==
    /\ order = [o \in Orders |-> [status |-> "none", created |-> 0, day |-> 0]]
    /\ today = 1 /\ request = Nobody /\ faults = 0

-----------------------------------------------------------------------------
(* The orders, as the rest of the system moves them.                       *)
Moves(o, from, to, day) ==
    /\ order[o].status \in from
    /\ order' = [order EXCEPT ![o].status = to, ![o].day = day]
    /\ UNCHANGED <<today, request, faults>>
Place(o) ==
    /\ order[o].status = "none"
    /\ order' = [order EXCEPT ![o].status = "pending", ![o].created = today]
    /\ UNCHANGED <<today, request, faults>>
Pay(o) == Moves(o, {"pending", "closed"}, "paid", today)
Close(o) == Moves(o, {"pending"}, "closed", 0)
PaidTooLate(o) == Moves(o, {"closed"}, "refund_required", 0)
Refund(o) == Moves(o, {"paid", "refund_required"}, "refunded", order[o].day)
Midnight == today < MaxDays /\ today' = today + 1 /\ UNCHANGED <<order, request, faults>>

-----------------------------------------------------------------------------
(* The dashboard's queries.                                                *)
SoldAlone == {"paid"}
soldStatuses == {"paid", "refunded"}
scopeClause == {o \in Orders :
    IF request.kind = "portfolio" THEN OwnerOf[Book[o].event] = request.by ELSE Book[o].event = request.event}
sold == {o \in scopeClause : order[o].status \in soldStatuses}
Figures(S) == [orders |-> Cardinality(S), tickets |-> Tickets(S), net |-> Price * Tickets(S)]

totals == [orders |-> Cardinality(sold), buyers |-> Cardinality({Book[o].buyer : o \in sold} \ {""}),
           tickets |-> Tickets(sold), net |-> Price * Tickets(sold)]
refunds == Figures({o \in scopeClause : order[o].status = "refunded"})

Bounds == <<0, 18, 23, 28, 33, 38, 43, 48, 53, 58>>
BracketFor(years) == Cardinality({i \in DOMAIN Bounds : Bounds[i] < years})
Groups(key, S) == [k \in {key[o] : o \in S} |-> Figures({o \in S : key[o] = k})]
(* The biggest groups come first and the tail is cut.                      *)
Smaller(f, g) == f.tickets < g.tickets \/ (f.tickets = g.tickets /\ f.orders < g.orders)
Cuts(f, limit) == {K \in SUBSET DOMAIN f :
    /\ Cardinality(K) = IF limit < Cardinality(DOMAIN f) THEN limit ELSE Cardinality(DOMAIN f)
    /\ \A k \in K, other \in DOMAIN f \ K : ~Smaller(f[k], f[other])}
(* Grouped by age here; by gender and by state it is done the same way.    *)
groupBy(field) == IF field = "city" THEN Groups([o \in sold |-> Book[o].city], sold)
                  ELSE Groups([o \in sold |-> BracketFor(Book[o].age)], sold)
byTier ==
    LET lines == {l \in Lines : l.order \in sold}
        OfTier(L) == [orders |-> Cardinality({l.order : l \in L}), tickets |-> Sum(L), net |-> Price * Sum(L)]
    IN  [t \in {TicketID(l) : l \in lines} |-> OfTier({l \in lines : TicketID(l) = t})]
byDay == Groups([o \in sold |-> order[o].day], {o \in sold : order[o].day # 0})

Sections == <<"totals", "refunds", "city", "age", "tier", "day">>
Results(section) ==
    CASE section = "totals" -> {totals} [] section = "refunds" -> {refunds}
      [] section = "tier" -> {byTier} [] section = "day" -> {byDay}
      [] section = "city" -> {[k \in K |-> groupBy("city")[k]] : K \in Cuts(groupBy("city"), cityLimit)}
      [] OTHER -> {groupBy(section)}

(* The lines a filter matches, and the order the export writes them in.    *)
Matching == {l \in Lines :
    /\ Book[l.order].event = request.event
    /\ IF request.status = "all" THEN order[l.order].status \in soldStatuses ELSE order[l.order].status = request.status}
Key(l) == <<order[l.order].created, l.order, TicketID(l)>>
Before(l, m) ==
    \/ Key(l)[1] < Key(m)[1]
    \/ Key(l)[1] = Key(m)[1] /\ (Key(l)[2] < Key(m)[2] \/ (Key(l)[2] = Key(m)[2] /\ Key(l)[3] < Key(m)[3]))

-----------------------------------------------------------------------------
(* A request: who asks is checked against the event, then it is answered   *)
(* query by query; the export asks for one line first.                     *)
Asks(kind, who, event, status) ==
    /\ request.at = "none"
    /\ request' = [Nobody EXCEPT !.kind = kind, !.by = who, !.event = event, !.status = status,
                                 !.at = IF who = "" THEN "done" ELSE IF kind = "portfolio" THEN "query" ELSE "authorise",
                                 !.code = IF who = "" THEN 401 ELSE 0]
    /\ UNCHANGED <<order, today, faults>>

authorise ==
    /\ request.at = "authorise"
    /\ request' = IF OwnerOf[request.event] # request.by THEN [request EXCEPT !.at = "done", !.code = 403]
                  ELSE IF request.kind = "export" /\ request.answers # <<>>
                  THEN [request EXCEPT !.at = "stream", !.was = Matching]
                  ELSE [request EXCEPT !.at = "query"]
    /\ UNCHANGED <<order, today, faults>>

SalesReport ==
    /\ request.at = "query" /\ request.kind \in {"report", "portfolio"}
    /\ LET n == Len(request.answers) + 1 IN
       \E result \in Results(Sections[n]) :
         request' = [request EXCEPT !.answers = Append(@, result), !.at = IF n = Len(Sections) THEN "done" ELSE @,
                                    !.code = IF n = Len(Sections) THEN 200 ELSE @]
    /\ UNCHANGED <<order, today, faults>>

(* The list counts and then reads its page; ties come in any order.        *)
Page(limit) == {P \in SUBSET Matching :
    /\ Cardinality(P) = IF limit < Cardinality(Matching) THEN limit ELSE Cardinality(Matching)
    /\ \A l \in P, m \in Matching \ P : order[l.order].created >= order[m.order].created}
Attendees(limit) ==
    /\ request.at = "query" /\ request.kind \in {"list", "export"}
    /\ IF request.answers = <<>>
       THEN request' = [request EXCEPT !.answers = <<Cardinality(Matching)>>]
       ELSE \E P \in Page(limit) :
              request' = IF request.kind = "export" THEN [request EXCEPT !.at = "authorise"]
                         ELSE [request EXCEPT !.answers = Append(@, P), !.at = "done", !.code = 200]
    /\ UNCHANGED <<order, today, faults>>

AfterOrder == {l \in Matching : request.file = <<>> \/ Last(request.file).order < l.order}
After == {l \in Matching : request.file = <<>> \/ Before(Last(request.file), l)}
(* Chairs of one order and tier tie, and come in any order.                *)
Batches ==
    LET n == IF exportBatch < Cardinality(After) THEN exportBatch ELSE Cardinality(After)
    IN  {q \in TupleOf(After, n) :
           /\ IsInjective(q) /\ \A i \in 1..n, j \in 1..n : i < j => ~Before(q[j], q[i])
           /\ \A l \in After \ ToSet(q), i \in 1..n : ~Before(l, q[i])}
StreamAttendees ==
    /\ request.at = "stream"
    /\ \E rows \in Batches :
       LET file == request.file \o rows
           last == Len(rows) < exportBatch \/ Len(file) >= MaxExportRows
       IN  request' = [request EXCEPT !.file = file, !.started = TRUE, !.code = 200, !.at = IF last THEN "done" ELSE @,
                                      !.steady = IF last THEN request.was \cap Matching ELSE {}]
    /\ UNCHANGED <<order, today, faults>>

(* A query fails, or the client hangs up; what was sent cannot be unsaid.  *)
Fails ==
    /\ request.at \in {"authorise", "query", "stream"} /\ faults < MaxFaults
    /\ faults' = faults + 1
    /\ request' = IF request.started THEN [request EXCEPT !.at = "cut"] ELSE [request EXCEPT !.at = "done", !.code = 500]
    /\ UNCHANGED <<order, today>>

Next ==
    \/ \E o \in Orders : Place(o) \/ Pay(o) \/ Close(o) \/ PaidTooLate(o) \/ Refund(o)
    \/ Midnight
    \/ \E kind \in {"report", "portfolio", "list", "export"}, who \in {"ana", "bia", ""}, event \in DOMAIN OwnerOf, status \in {"paid", "all"} :
         Asks(kind, who, event, status)
    \/ authorise \/ SalesReport \/ Attendees(1) \/ StreamAttendees \/ Fails

-----------------------------------------------------------------------------
TypeOK ==
    /\ \A o \in Orders : order[o].status \in {"none", "pending", "closed", "paid", "refund_required", "refunded"}
    /\ request.at \in {"none", "authorise", "query", "stream", "done", "cut"}
    /\ request.code \in {0, 200, 401, 403, 500}

Whole(f) == [tickets |-> MapThenSumSet(LAMBDA k : f[k].tickets, DOMAIN f), net |-> MapThenSumSet(LAMBDA k : f[k].net, DOMAIN f)]
AtMost(f, g) == f.tickets <= g.tickets /\ f.net <= g.net
Answered(kinds) == request.kind \in kinds /\ request.code = 200 /\ request.at = "done"

(* The queries of one dashboard see later and later moments, yet no        *)
(* breakdown accounts for less than the total above it, nor for more than  *)
(* is sold by then; a day's curve alone may, by orders never paid in time. *)
BreakdownsAccount == Answered({"report", "portfolio"}) =>
    LET a == request.answers IN
    /\ \A i \in {4, 5} : AtMost(a[1], Whole(a[i])) /\ AtMost(Whole(a[i]), Figures(sold))
    /\ AtMost(Whole(a[3]), Whole(a[4])) /\ AtMost(Whole(a[6]), Figures(sold))
    /\ a[1].buyers <= a[1].orders

(* An export writes no line twice.  Unless it says it is full, it misses   *)
(* none that matched from its beginning to its end, but for chairs of the  *)
(* order and tier on which one of its batches ended.                       *)
Missed == request.steady \ ToSet(request.file)
ExportTellsAll ==
    /\ IsInjective(request.file)
    /\ Answered({"export"}) /\ Len(request.file) < MaxExportRows =>
         \A l \in Missed : \E i \in DOMAIN request.file :
             i % exportBatch = 0 /\ Key(request.file[i]) = Key(l)

(* Refuted: "Ordering by (created_at, order_id, ticket_id), which is       *)
(* unique, because one order has one line per tier, lets each batch start  *)
(* exactly where the last one ended".  It is one row per chair.            *)
ExportMissesNothing ==
    Answered({"export"}) /\ Len(request.file) < MaxExportRows => Missed = {}

(* Nobody sees another organiser's buyers, not even one line of them.      *)
OwnAudience ==
    /\ request.answers # <<>> \/ request.file # <<>> => request.kind = "portfolio" \/ OwnerOf[request.event] = request.by
    /\ \A i \in DOMAIN request.file : OwnerOf[Book[request.file[i].order].event] = request.by

ReportsSound == BreakdownsAccount /\ ExportTellsAll /\ OwnAudience

(* Refuted: "Holds, expiries and failures were never sales and never       *)
(* appear".  An order paid too late is counted once its money went back.   *)
OnlySalesCounted == \A o \in Orders : order[o].status \in soldStatuses => order[o].day # 0
=============================================================================
