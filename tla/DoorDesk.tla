------------------------------ MODULE DoorDesk ------------------------------
(* Tickets for orders paid before the door existed: an operator's runs     *)
(* walk the paid orders page by page and mint what an order has not got,   *)
(* one transaction each, while sales, refunds and audits go on.            *)
EXTENDS Integers, Sequences, FiniteSets, FiniteSetsExt

CONSTANTS
    Orders,         \* numbered; the lower id comes first
    LinesOf,        \* order -> its lines: [tier, quantity, chair]
    Old,            \* the orders paid before the door existed
    Runs, Limits, MaxPage, MaxMoves, MaxFaults

VARIABLES
    order,          \* order -> [status, at]: when it was last written
    admissions,     \* order -> its tickets
    run,
    moves, faults   \* orders written, and failures, so far

Idle == [at |-> "idle", limit |-> 0, scanned |-> 0, asked |-> 0, page |-> <<>>, size |-> 0, issued |-> 0,
         whole |-> FALSE, owed |-> {}, moved |-> 0]

Init ==
    /\ order = [o \in Orders |-> [status |-> IF o \in Old THEN "paid" ELSE "open", at |-> 0]]
    /\ admissions = [o \in Orders |-> {}]
    /\ run = [r \in Runs |-> Idle]
    /\ moves = 0 /\ faults = 0

-----------------------------------------------------------------------------
(* A ticket for every place of every line, numbered within the order and   *)
(* the tier, through all its lines.                                        *)
Quantity(o, i) == LinesOf[o][i].quantity
Total(o) == MapThenSumSet(LAMBDA i : Quantity(o, i), DOMAIN LinesOf[o])
NumberedPerLine(o, i, j) == j
Numbered(o, i, j) ==
    j + MapThenSumSet(LAMBDA k : Quantity(o, k), {k \in 1..(i - 1) : LinesOf[o][k].tier = LinesOf[o][i].tier})
Tickets(o, by) == UNION {{[tier |-> LinesOf[o][i].tier, sequence |-> Numbered(o, i, j), chair |-> LinesOf[o][i].chair,
                           code |-> <<by, i, j>>, status |-> "issued"] : j \in 1..Quantity(o, i)} : i \in DOMAIN LinesOf[o]}
(* One insert for all of them, refused when a number is already taken.     *)
Number(t) == <<t.tier, t.sequence>>
Fits(o, new) == \A t \in new, u \in new \cup admissions[o] : Number(t) = Number(u) => t = u
IssueForOrder(o, by) == admissions' = [admissions EXCEPT ![o] = @ \cup Tickets(o, by)]

-----------------------------------------------------------------------------
(* What else writes orders.                                                *)
Moved == [r \in Runs |-> IF run[r].at \in {"idle", "done", "failed"} THEN run[r] ELSE [run[r] EXCEPT !.moved = @ + 1]]
Writes(o, from, to) ==
    /\ moves < MaxMoves /\ moves' = moves + 1
    /\ order[o].status = from
    /\ order' = [order EXCEPT ![o] = [status |-> to, at |-> 1 + Max({order[p].at : p \in Orders})]]
    /\ UNCHANGED faults
Settle(o) ==
    /\ Writes(o, "open", "paid") /\ Fits(o, Tickets(o, "sale"))
    /\ IssueForOrder(o, "sale")
    /\ UNCHANGED run
VoidForOrder(o) == admissions' = [admissions EXCEPT ![o] = {[t EXCEPT !.status = "void"] : t \in @}]
Refund(o) == Writes(o, "paid", "refunded") /\ VoidForOrder(o) /\ run' = Moved
(* The audit writes the order back, newer, where it changes nothing else.  *)
AuditSettled(o) == Writes(o, "paid", "paid") /\ run' = Moved /\ UNCHANGED admissions

-----------------------------------------------------------------------------
(* A run.                                                                  *)
Goes(r, next) == run' = [run EXCEPT ![r] = next]
Begin(r, limit) ==
    /\ run[r].at = "idle"
    /\ Goes(r, [Idle EXCEPT !.at = "listing", !.limit = limit,
                            !.owed = {o \in Orders : order[o].status = "paid" /\ admissions[o] = {}}])
    /\ UNCHANGED <<order, admissions, moves, faults>>

Least(m, n) == IF m < n THEN m ELSE n
Paid == {o \in Orders : order[o].status = "paid"}
Older(o, p) == order[o].at < order[p].at \/ (order[o].at = order[p].at /\ o <= p)
Place(o) == Cardinality({p \in Paid : Older(p, o)})
Page(offset, limit) == [i \in 1..Least(limit, Cardinality(Paid) - offset) |-> CHOOSE o \in Paid : Place(o) = offset + i]
AskedInFull(r) == MaxPage
AskedFor(r) == Least(run[r].limit - run[r].scanned, MaxPage)
ListPage(r) ==
    /\ run[r].at = "listing"
    /\ LET asked == AskedFor(r)
           page == Page(run[r].scanned, asked)
       IN  Goes(r, IF page = <<>> THEN [run[r] EXCEPT !.at = "done", !.whole = TRUE]
                   ELSE [run[r] EXCEPT !.at = "examining", !.page = page, !.size = Len(page), !.asked = asked])
    /\ UNCHANGED <<order, admissions, moves, faults>>

Passed(one, minted) ==
    LET next == [one EXCEPT !.page = Tail(@), !.issued = @ + minted, !.at = "examining"]
        over == [next EXCEPT !.scanned = @ + one.size]
    IN  CASE next.page # <<>> -> next
          [] next.page = <<>> /\ one.size < one.asked -> [over EXCEPT !.at = "done", !.whole = TRUE]
          [] next.page = <<>> /\ one.size = one.asked -> [over EXCEPT !.at = IF over.scanned < one.limit THEN "listing" ELSE "done"]
(* The transaction first asks whether the order has tickets.               *)
Examine(r) ==
    /\ run[r].at = "examining"
    /\ LET o == Head(run[r].page)
       IN  Goes(r, IF Total(o) = 0 \/ admissions[o] # {} THEN Passed(run[r], 0) ELSE [run[r] EXCEPT !.at = "minting"])
    /\ UNCHANGED <<order, admissions, moves, faults>>
Mint(r) ==
    LET o == Head(run[r].page) IN
    /\ run[r].at = "minting" /\ Fits(o, Tickets(o, r))
    /\ IssueForOrder(o, r)
    /\ Goes(r, Passed(run[r], Total(o)))
    /\ UNCHANGED <<order, moves, faults>>
(* The insert was refused: the transaction is over, the question whether   *)
(* the tickets are there fails with it, and so does the run.               *)
Refused(r) ==
    /\ run[r].at = "minting" /\ ~Fits(Head(run[r].page), Tickets(Head(run[r].page), r))
    /\ Goes(r, [run[r] EXCEPT !.at = "failed"])
    /\ UNCHANGED <<order, admissions, moves, faults>>
Stops(r) ==
    /\ run[r].at \in {"listing", "examining", "minting"} /\ faults < MaxFaults /\ faults' = faults + 1
    /\ Goes(r, [run[r] EXCEPT !.at = "failed"])
    /\ UNCHANGED <<order, admissions, moves>>
(* The commit fails or its answer is lost: the run has counted already.    *)
CommitUnanswered(r) ==
    LET o == Head(run[r].page) IN
    /\ run[r].at = "minting" /\ Fits(o, Tickets(o, r)) /\ faults < MaxFaults /\ faults' = faults + 1
    /\ IssueForOrder(o, r) \/ UNCHANGED admissions
    /\ Goes(r, [run[r] EXCEPT !.at = "failed", !.issued = @ + Total(o)])
    /\ UNCHANGED <<order, moves>>

Next ==
    \/ \E o \in Orders : Settle(o) \/ Refund(o) \/ AuditSettled(o)
    \/ \E r \in Runs : \/ \E limit \in Limits : Begin(r, limit)
                       \/ ListPage(r) \/ Examine(r) \/ Mint(r) \/ Refused(r) \/ Stops(r) \/ CommitUnanswered(r)

-----------------------------------------------------------------------------
TypeOK ==
    /\ \A o \in Orders : order[o].status \in {"open", "paid", "refunded"} /\ order[o].at \in Nat
    /\ \A r \in Runs : run[r].at \in {"idle", "listing", "examining", "minting", "done", "failed"}
    /\ \A r \in Runs : run[r].scanned <= run[r].limit

(* Runs that meet, and runs that meet a payment, give an order all its     *)
(* tickets at once: every place one, every chair its own.                  *)
OneTicketPerPlace ==
    LET Whole(o, S) == S = {} \/ (/\ Cardinality(S) = Total(o)
                                  /\ Cardinality({Number(t) : t \in S}) = Total(o)
                                  /\ \A t, u \in S : t.chair = u.chair /\ t.chair # "" => t = u)
    IN  \A o \in Orders : Whole(o, admissions[o])

(* A run that went through to the end leaves no order without tickets that *)
(* was owed them, except one for every order written meanwhile; alone and  *)
(* undisturbed it ends so, and reports what it made.                       *)
Made(r) == {ot \in UNION {{<<o, t>> : t \in admissions[o]} : o \in Orders} : ot[2].code[1] = r}
NobodyLeftOut == \A r \in Runs :
    /\ run[r].at = "done" /\ run[r].whole =>
         Cardinality({o \in run[r].owed : order[o].status = "paid" /\ admissions[o] = {}}) <= run[r].moved
    /\ run[r].at = "failed" => faults > 0 \/ \E other \in Runs \ {r} : run[other].issued > 0
    /\ run[r].at # "failed" => run[r].issued = Cardinality(Made(r))

DeskSound == OneTicketPerPlace /\ NobodyLeftOut

(* Refuted: "the paid set does not shift under the paging and an OFFSET    *)
(* walk cannot skip a row".  An audit or a refund of an order the run has  *)
(* passed shifts it.                                                       *)
WalkSkipsNobody == \A r \in Runs : run[r].at = "done" /\ run[r].whole =>
    \A o \in run[r].owed : order[o].status = "paid" => admissions[o] # {}
(* Refuted: no live ticket for money that went back.  The refund commits   *)
(* between the run's list and its insert.                                  *)
RefundedHoldsNothing == \A o \in Orders : order[o].status = "refunded" => \A t \in admissions[o] : t.status = "void"
=============================================================================
