---------------------- MODULE BoxOfficeSettlementProofs ----------------------
(***************************************************************************)
(* What settlement owes, for every hall: chairs, admissions and the        *)
(* organiser's claim follow the orders; nobody gets in on an unpaid        *)
(* charge; a debt to a buyer is never dropped.  The first argument runs    *)
(* over the ways a step can change the sale, BoxOfficeProofs!SaleStep.     *)
(*                                                                         *)
(* Last, the box office implements the ideal sale: under the mapping Sale, *)
(* every step of counters, chair rows, charges and jobs is a step of       *)
(* TicketSale, or changes nothing a buyer was promised.                    *)
(***************************************************************************)
EXTENDS BoxOfficeProofs

-----------------------------------------------------------------------------
(* Chairs.                                                                 *)

Seating == Shape /\ SeatsMatchOrders

LEMMA InitSeating == Init => Seating
  <1> SUFFICES ASSUME Init PROVE Seating
    OBVIOUS
  <1>1. SeatsMatchOrders
    BY DEF Init, SeatsMatchOrders, HoldsStock, Chairs
  <1> QED
    BY <1>1, InitShape DEF Seating

LEMMA UntouchedSeatStep ==
  ASSUME SeatsMatchOrders, UNCHANGED seat, Pending' = Pending, Paid' = Paid
  PROVE  SeatsMatchOrders'
  <1>1. \A o \in Orders : /\ HoldsStock(o)' <=> HoldsStock(o)
                          /\ order'[o].status = "paid" <=> order[o].status = "paid"
    BY DEF Pending, Paid, HoldsStock
  <1> QED
    BY <1>1 DEF SeatsMatchOrders, Chairs

(* The two halves of SeatsMatchOrders after a step, said with the sets.    *)
LEMMA SeatsFromParts ==
  ASSUME \A s \in Seats :
           /\ seat'[s].status = "held" => seat'[s].holder \in Pending' /\ s \in Basket[seat'[s].holder]
           /\ seat'[s].status = "sold" => seat'[s].holder \in Paid' /\ s \in Basket[seat'[s].holder]
           /\ seat'[s].status \in {"available", "blocked"} => seat'[s].holder = NoOrder,
         \A o \in Orders : \A s \in Chairs(o) :
           /\ o \in Pending' => seat'[s] = [status |-> "held", holder |-> o]
           /\ o \in Paid' => seat'[s] = [status |-> "sold", holder |-> o]
  PROVE  SeatsMatchOrders'
  BY DEF SeatsMatchOrders, Pending, Paid, HoldsStock, Chairs

(* And before one.                                                         *)
LEMMA SeatsInParts ==
  ASSUME SeatsMatchOrders, NEW o \in Orders, NEW s \in Chairs(o)
  PROVE  /\ s \in Seats
         /\ o \in Pending => seat[s] = [status |-> "held", holder |-> o]
         /\ o \in Paid => seat[s] = [status |-> "sold", holder |-> o]
  BY DEF SeatsMatchOrders, Pending, Paid, Chairs

LEMMA RearrangesSeatStep ==
  ASSUME Seating, NEW s \in Seats, Block(s) \/ Unblock(s), Becomes({}, "none")
  PROVE  SeatsMatchOrders'
  <1>1. /\ seat[s].status \in {"available", "blocked"} /\ seat[s].holder = NoOrder
        /\ seat'[s].status \in {"available", "blocked"} /\ seat'[s].holder = NoOrder
        /\ \A r \in Seats \ {s} : seat'[r] = seat[r]
    <2>1. seat \in [Seats -> SeatRows] /\ seat[s] \in SeatRows
      BY DEF Seating, Shape, TypeOK, SeatRows
    <2>2. seat[s].status \in {"available", "blocked"} /\ seat[s].holder = NoOrder
      BY DEF Block, Unblock, Seating, SeatsMatchOrders
    <2>3. PICK to \in {"available", "blocked"} : seat' = [seat EXCEPT ![s].status = to]
      BY DEF Block, Unblock
    <2> QED
      BY <2>1, <2>2, <2>3 DEF SeatRows
  <1>2. Pending' = Pending /\ Paid' = Paid
    BY SameSale
  <1>3. \A o \in Orders : s \in Chairs(o) => ~HoldsStock(o) /\ order[o].status # "paid"
    <2>1. ASSUME NEW o \in Orders, s \in Chairs(o) PROVE o \notin Pending /\ o \notin Paid
      <3>1. /\ o \in Pending => seat[s] = [status |-> "held", holder |-> o]
            /\ o \in Paid => seat[s] = [status |-> "sold", holder |-> o]
        BY <2>1, SeatsInParts DEF Seating
      <3> QED
        BY <1>1, <3>1
    <2> QED
      BY <2>1 DEF Pending, Paid
  <1>4. \A o \in Orders : /\ HoldsStock(o)' <=> HoldsStock(o)
                          /\ order'[o].status = "paid" <=> order[o].status = "paid"
    BY <1>2 DEF Pending, Paid, HoldsStock
  <1>5. \A r \in Seats : /\ seat'[r].status = "held" => r # s
                         /\ seat'[r].status = "sold" => r # s
    BY <1>1
  <1>6. \A o \in Orders : \A r \in Chairs(o) :
          HoldsStock(o)' \/ order'[o].status = "paid" => seat'[r] = seat[r]
    BY <1>1, <1>3, <1>4 DEF Chairs
  <1> QED
    BY <1>1, <1>2, <1>4, <1>5, <1>6 DEF Seating, SeatsMatchOrders, Chairs

LEMMA HoldsSeatStep ==
  ASSUME Seating, NEW o \in Orders, Holds(o)
  PROVE  SeatsMatchOrders'
  <1>1. Pending' = Pending \cup {o} /\ Paid' = Paid
    BY DEF Holds, Becomes, Pending, Paid, HoldsStock
  <1>2. /\ \A s \in Chairs(o) : seat'[s] = [status |-> "held", holder |-> o] /\ seat[s].status = "available"
        /\ \A s \in Seats \ Chairs(o) : seat'[s] = seat[s]
    BY DEF Holds, CanClaim, ClaimSeats, Chairs
  <1>3. ASSUME NEW s \in Seats
        PROVE  /\ seat'[s].status = "held" => seat'[s].holder \in Pending' /\ s \in Basket[seat'[s].holder]
               /\ seat'[s].status = "sold" => seat'[s].holder \in Paid' /\ s \in Basket[seat'[s].holder]
               /\ seat'[s].status \in {"available", "blocked"} => seat'[s].holder = NoOrder
    <2>1. CASE s \in Chairs(o)
      BY <1>1, <1>2, <2>1 DEF Chairs
    <2>2. CASE s \notin Chairs(o)
      BY <1>1, <1>2, <2>2 DEF Seating, SeatsMatchOrders
    <2> QED
      BY <2>1, <2>2
  <1>4. ASSUME NEW p \in Orders, NEW s \in Chairs(p)
        PROVE  /\ p \in Pending' => seat'[s] = [status |-> "held", holder |-> p]
               /\ p \in Paid' => seat'[s] = [status |-> "sold", holder |-> p]
    <2>1. CASE p = o
      <3>1. o \notin Paid
        BY DEF Holds, Paid
      <3> QED
        BY <1>1, <1>2, <2>1, <3>1
    <2>2. CASE p # o
      <3>1. /\ p \in Pending => seat[s] = [status |-> "held", holder |-> p]
            /\ p \in Paid => seat[s] = [status |-> "sold", holder |-> p]
        BY DEF Seating, SeatsMatchOrders, Pending, Paid
      <3>2. p \in Pending \cup Paid => s \notin Chairs(o) /\ s \in Seats
        BY <1>2, <3>1 DEF Chairs
      <3> QED
        BY <1>1, <1>2, <2>2, <3>1, <3>2
    <2> QED
      BY <2>1, <2>2
  <1> QED
    BY <1>3, <1>4, SeatsFromParts

LEMMA ClosesSeatStep ==
  ASSUME Seating, NEW S \in SUBSET Orders, NEW status \in Closed, Closes(S, status)
  PROVE  SeatsMatchOrders'
  <1>1. Pending' = Pending \ S /\ Paid' = Paid /\ S \subseteq Pending
    BY DEF Closes, Becomes, Pending, Paid, HoldsStock, Closed
  <1> DEFINE Freed(s) == seat[s].status = "held" /\ seat[s].holder \in S
  <1>2. /\ \A s \in Seats : Freed(s) => seat'[s] = [status |-> "available", holder |-> NoOrder]
        /\ \A s \in Seats : ~Freed(s) => seat'[s] = seat[s]
    BY DEF Closes, ReleaseForOrder, MoveSeats
  <1>3. ASSUME NEW s \in Seats
        PROVE  /\ seat'[s].status = "held" => seat'[s].holder \in Pending' /\ s \in Basket[seat'[s].holder]
               /\ seat'[s].status = "sold" => seat'[s].holder \in Paid' /\ s \in Basket[seat'[s].holder]
               /\ seat'[s].status \in {"available", "blocked"} => seat'[s].holder = NoOrder
    <2>1. CASE Freed(s)
      BY <1>2, <2>1
    <2>2. CASE ~Freed(s)
      BY <1>1, <1>2, <2>2 DEF Seating, SeatsMatchOrders
    <2> QED
      BY <2>1, <2>2
  <1>4. ASSUME NEW p \in Orders, NEW s \in Chairs(p)
        PROVE  /\ p \in Pending' => seat'[s] = [status |-> "held", holder |-> p]
               /\ p \in Paid' => seat'[s] = [status |-> "sold", holder |-> p]
    <2>1. /\ s \in Seats
          /\ p \in Pending => seat[s] = [status |-> "held", holder |-> p]
          /\ p \in Paid => seat[s] = [status |-> "sold", holder |-> p]
      BY SeatsInParts DEF Seating
    <2>2. p \in Pending' \cup Paid' => ~Freed(s)
      BY <1>1, <2>1
    <2> QED
      BY <1>1, <1>2, <2>1, <2>2
  <1> QED
    BY <1>3, <1>4, SeatsFromParts

LEMMA BuysSeatStep ==
  ASSUME Seating, NEW o \in Orders, Buys(o)
  PROVE  SeatsMatchOrders'
  <1>1. Pending' = Pending \ {o} /\ Paid' = Paid \cup {o} /\ o \in Pending /\ o \notin Paid
    BY DEF Buys, Becomes, Pending, Paid, HoldsStock
  <1> DEFINE Bought(s) == seat[s].status = "held" /\ seat[s].holder = o
  <1>2. /\ \A s \in Seats : Bought(s) => seat'[s] = [status |-> "sold", holder |-> o]
        /\ \A s \in Seats : ~Bought(s) => seat'[s] = seat[s]
    BY DEF Buys, CommitForOrder, MoveSeats
  <1>3. ASSUME NEW s \in Seats
        PROVE  /\ seat'[s].status = "held" => seat'[s].holder \in Pending' /\ s \in Basket[seat'[s].holder]
               /\ seat'[s].status = "sold" => seat'[s].holder \in Paid' /\ s \in Basket[seat'[s].holder]
               /\ seat'[s].status \in {"available", "blocked"} => seat'[s].holder = NoOrder
    <2>1. CASE Bought(s)
      <3>1. s \in Basket[o]
        BY <2>1 DEF Seating, SeatsMatchOrders
      <3> QED
        BY <1>1, <1>2, <2>1, <3>1
    <2>2. CASE ~Bought(s)
      BY <1>1, <1>2, <2>2 DEF Seating, SeatsMatchOrders
    <2> QED
      BY <2>1, <2>2
  <1>4. ASSUME NEW p \in Orders, NEW s \in Chairs(p)
        PROVE  /\ p \in Pending' => seat'[s] = [status |-> "held", holder |-> p]
               /\ p \in Paid' => seat'[s] = [status |-> "sold", holder |-> p]
    <2>1. /\ s \in Seats
          /\ p \in Pending => seat[s] = [status |-> "held", holder |-> p]
          /\ p \in Paid => seat[s] = [status |-> "sold", holder |-> p]
      BY SeatsInParts DEF Seating
    <2>2. CASE p = o
      BY <1>1, <1>2, <2>1, <2>2
    <2>3. CASE p # o
      <3>1. p \in Pending \cup Paid => ~Bought(s)
        BY <2>1, <2>3
      <3> QED
        BY <1>1, <1>2, <2>1, <2>3, <3>1
    <2> QED
      BY <2>2, <2>3
  <1> QED
    BY <1>3, <1>4, SeatsFromParts

LEMMA BuysLateSeatStep ==
  ASSUME Seating, NEW o \in Orders, BuysLate(o)
  PROVE  SeatsMatchOrders'
  <1>1. Pending' = Pending /\ Paid' = Paid \cup {o} /\ o \notin Pending
    BY DEF BuysLate, Becomes, Pending, Paid, HoldsStock, Closed
  <1>2. /\ \A s \in Chairs(o) : seat'[s] = [status |-> "sold", holder |-> o] /\ seat[s].status = "available"
        /\ \A s \in Seats \ Chairs(o) : seat'[s] = seat[s]
    BY DEF BuysLate, CanRetake, CanClaim, ClaimSeats, Chairs
  <1>3. ASSUME NEW s \in Seats
        PROVE  /\ seat'[s].status = "held" => seat'[s].holder \in Pending' /\ s \in Basket[seat'[s].holder]
               /\ seat'[s].status = "sold" => seat'[s].holder \in Paid' /\ s \in Basket[seat'[s].holder]
               /\ seat'[s].status \in {"available", "blocked"} => seat'[s].holder = NoOrder
    <2>1. CASE s \in Chairs(o)
      BY <1>1, <1>2, <2>1 DEF Chairs
    <2>2. CASE s \notin Chairs(o)
      BY <1>1, <1>2, <2>2 DEF Seating, SeatsMatchOrders
    <2> QED
      BY <2>1, <2>2
  <1>4. ASSUME NEW p \in Orders, NEW s \in Chairs(p)
        PROVE  /\ p \in Pending' => seat'[s] = [status |-> "held", holder |-> p]
               /\ p \in Paid' => seat'[s] = [status |-> "sold", holder |-> p]
    <2>1. /\ s \in Seats
          /\ p \in Pending => seat[s] = [status |-> "held", holder |-> p]
          /\ p \in Paid => seat[s] = [status |-> "sold", holder |-> p]
      BY SeatsInParts DEF Seating
    <2>2. CASE p = o
      BY <1>1, <1>2, <2>1, <2>2
    <2>3. CASE p # o
      <3>1. p \in Pending \cup Paid => s \notin Chairs(o)
        BY <1>2, <2>1
      <3> QED
        BY <1>1, <1>2, <2>1, <2>3, <3>1
    <2> QED
      BY <2>2, <2>3
  <1> QED
    BY <1>3, <1>4, SeatsFromParts

LEMMA GivesBackSeatStep ==
  ASSUME Seating, NEW o \in Orders, GivesBack(o)
  PROVE  SeatsMatchOrders'
  <1>1. Pending' = Pending /\ Paid' = Paid \ {o} /\ o \in Paid
    BY DEF GivesBack, Becomes, Pending, Paid, HoldsStock
  <1> DEFINE Freed(s) == seat[s].status = "sold" /\ seat[s].holder = o
  <1>2. /\ \A s \in Seats : Freed(s) => seat'[s] = [status |-> "available", holder |-> NoOrder]
        /\ \A s \in Seats : ~Freed(s) => seat'[s] = seat[s]
    BY DEF GivesBack, ReleaseSoldForOrder, MoveSeats
  <1>3. ASSUME NEW s \in Seats
        PROVE  /\ seat'[s].status = "held" => seat'[s].holder \in Pending' /\ s \in Basket[seat'[s].holder]
               /\ seat'[s].status = "sold" => seat'[s].holder \in Paid' /\ s \in Basket[seat'[s].holder]
               /\ seat'[s].status \in {"available", "blocked"} => seat'[s].holder = NoOrder
    <2>1. CASE Freed(s)
      BY <1>2, <2>1
    <2>2. CASE ~Freed(s)
      BY <1>1, <1>2, <2>2 DEF Seating, SeatsMatchOrders
    <2> QED
      BY <2>1, <2>2
  <1>4. ASSUME NEW p \in Orders, NEW s \in Chairs(p)
        PROVE  /\ p \in Pending' => seat'[s] = [status |-> "held", holder |-> p]
               /\ p \in Paid' => seat'[s] = [status |-> "sold", holder |-> p]
    <2>1. /\ s \in Seats
          /\ p \in Pending => seat[s] = [status |-> "held", holder |-> p]
          /\ p \in Paid => seat[s] = [status |-> "sold", holder |-> p]
      BY SeatsInParts DEF Seating
    <2>2. p \in Pending' \cup Paid' => ~Freed(s)
      BY <1>1, <2>1
    <2> QED
      BY <1>1, <1>2, <2>1, <2>2
  <1> QED
    BY <1>3, <1>4, SeatsFromParts

LEMMA StepSeating == Seating /\ [Next]_vars => Seating'
  <1> SUFFICES ASSUME Seating, [Next]_vars PROVE Seating'
    OBVIOUS
  <1>1. Shape' /\ SaleStep
    BY StepShape, NextIsSaleStep DEF Seating
  <1> SUFFICES SeatsMatchOrders'
    BY <1>1 DEF Seating
  <1>2. CASE SaleAlone \/ Edits
    BY <1>2, SameSale, UntouchedSeatStep DEF SaleAlone, Edits, inventory, Seating
  <1>3. CASE Rearranges
    BY <1>3, RearrangesSeatStep DEF Rearranges
  <1>4. ASSUME NEW o \in Orders, Owes(o) \/ Repays(o) PROVE SeatsMatchOrders'
    <2>1. Pending' = Pending /\ Paid' = Paid
      BY <1>4 DEF Owes, Repays, Becomes, Pending, Paid, HoldsStock, Closed
    <2> QED
      BY <1>4, <2>1, UntouchedSeatStep DEF Owes, Repays, inventory, Seating
  <1>5. ASSUME NEW o \in Orders, Holds(o) \/ Buys(o) \/ BuysLate(o) \/ GivesBack(o)
        PROVE  SeatsMatchOrders'
    BY <1>5, HoldsSeatStep, BuysSeatStep, BuysLateSeatStep, GivesBackSeatStep
  <1>6. ASSUME NEW S \in SUBSET Orders, NEW status \in Closed, Closes(S, status)
        PROVE  SeatsMatchOrders'
    BY <1>6, ClosesSeatStep
  <1> QED
    BY <1>1, <1>2, <1>3, <1>4, <1>5, <1>6 DEF SaleStep

(* A chair always belongs to the one order that holds or bought it: the    *)
(* claim's "status = 'available'" is the whole of the race, and no expiry, *)
(* late payment, refund or block breaks the bond.                          *)
THEOREM ChairsMatch == Spec => []SeatsMatchOrders
  <1>1. Seating => SeatsMatchOrders
    BY DEF Seating
  <1> QED
    BY <1>1, InitSeating, StepSeating, PTL DEF Spec

-----------------------------------------------------------------------------
(* Entry and the organiser's claim.                                        *)

Books == Shape /\ EntryAndClaimMatchPayment

LEMMA InitBooks == Init => Books
  BY InitShape DEF Init, Books, EntryAndClaimMatchPayment

LEMMA IssuesBooksStep ==
  ASSUME Books, NEW o \in Orders, order[o].status \notin {"paid", "refunded"},
         Becomes({o}, "paid"), Issues(o)
  PROVE  EntryAndClaimMatchPayment'
  <1>1. admission[o] = "none" /\ ledger[o] = "none"
    BY DEF Books, Shape, TypeOK, EntryAndClaimMatchPayment
  <1>2. /\ admission'[o] = "issued" /\ ledger'[o] = "accrued"
        /\ \A p \in Orders \ {o} : admission'[p] = admission[p] /\ ledger'[p] = ledger[p]
    BY <1>1 DEF Issues, Books, Shape, TypeOK
  <1> QED
    BY <1>2 DEF Becomes, Books, EntryAndClaimMatchPayment

LEMMA WithdrawsBooksStep ==
  ASSUME Books, NEW o \in Orders, order[o].status \in {"paid", "refund_required"},
         Becomes({o}, "refunded"), Withdraws(o)
  PROVE  EntryAndClaimMatchPayment'
  <1>1. \/ order[o].status = "paid" /\ admission[o] = "issued" /\ ledger[o] = "accrued"
        \/ order[o].status # "paid" /\ admission[o] = "none" /\ ledger[o] = "none"
    BY DEF Books, Shape, TypeOK, EntryAndClaimMatchPayment
  <1>2. /\ \/ admission'[o] = "void" /\ ledger'[o] = "reversed"
           \/ admission'[o] = "none" /\ ledger'[o] = "none"
        /\ \A p \in Orders \ {o} : admission'[p] = admission[p] /\ ledger'[p] = ledger[p]
    BY <1>1 DEF Withdraws, Books, Shape, TypeOK
  <1> QED
    BY <1>2 DEF Becomes, Books, EntryAndClaimMatchPayment

LEMMA StepBooks == Books /\ [Next]_vars => Books'
  <1> SUFFICES ASSUME Books, [Next]_vars PROVE Books'
    OBVIOUS
  <1>1. Shape' /\ SaleStep
    BY StepShape, NextIsSaleStep DEF Books
  <1> SUFFICES EntryAndClaimMatchPayment'
    BY <1>1 DEF Books
  <1>2. CASE SaleAlone \/ Edits \/ Rearranges
    BY <1>2 DEF SaleAlone, Edits, Rearranges, books, Becomes, Books, EntryAndClaimMatchPayment
  <1>3. ASSUME NEW o \in Orders, Holds(o) \/ Owes(o) PROVE EntryAndClaimMatchPayment'
    BY <1>3 DEF Holds, Owes, Closed, books, Becomes, Books, EntryAndClaimMatchPayment
  <1>4. ASSUME NEW o \in Orders, Buys(o) \/ BuysLate(o) PROVE EntryAndClaimMatchPayment'
    BY <1>4, IssuesBooksStep DEF Buys, BuysLate, HoldsStock, Closed
  <1>5. ASSUME NEW o \in Orders, GivesBack(o) \/ Repays(o) PROVE EntryAndClaimMatchPayment'
    BY <1>5, WithdrawsBooksStep DEF GivesBack, Repays
  <1>6. ASSUME NEW S \in SUBSET Orders, NEW status \in Closed, Closes(S, status)
        PROVE  EntryAndClaimMatchPayment'
    <2>1. \A p \in Orders : /\ p \in S => order[p].status = "pending_payment" /\ order'[p].status \in Closed
                            /\ p \notin S => order'[p].status = order[p].status
      BY <1>6 DEF Closes, Becomes, Pending, HoldsStock
    <2> QED
      BY <1>6, <2>1 DEF Closes, Closed, books, Books, EntryAndClaimMatchPayment
  <1> QED
    BY <1>1, <1>2, <1>3, <1>4, <1>5, <1>6 DEF SaleStep

(* Admissions and ledger entries stand exactly while their order is paid,  *)
(* are withdrawn together, and never arise for money that was only owed    *)
(* back.                                                                   *)
THEOREM BooksMatch == Spec => []EntryAndClaimMatchPayment
  <1>1. Books => EntryAndClaimMatchPayment
    BY DEF Books
  <1> QED
    BY <1>1, InitBooks, StepBooks, PTL DEF Spec

-----------------------------------------------------------------------------
(* Money.  Both facts need to know what the conversations in flight carry: *)
(* an answer "paid" may be old, but a charge that was paid stays paid or   *)
(* goes back; and whatever answer the refund job brings, the provider has  *)
(* taken the refund up, and does not give it back.                         *)

Money == UnderReview \cup {"paid", "refunded", "charged_back"}
TakenUp == {"refund_requested", "refunded", "charged_back"}
Owing == {"paid", "refund_required", "refunded"}

PaidNews == \A o \in Orders : \A job \in Jobs : call[o][job] = "paid" => charge[o] \in Money
RefundStage(o) ==
    \/ call[o]["charge.refund"] \in {"idle", "ask"}
    \/ call[o]["charge.refund"] \in {"in_analysis", "refunded"} /\ charge[o] \in TakenUp
RefundStages == \A o \in Orders : RefundStage(o)

(* A copy may be old, but it is never ahead of its row, and a refunded     *)
(* order stays refunded: a refund job may trust a copy that says so.       *)
CopyTrue == \A o \in Orders : copy[o].status = "refunded" => order[o].status = "refunded"

Pursued(o) ==
    \/ <<"charge.refund", o>> \in owed \cup parked
    \/ call[o]["charge.refund"] # "idle"
    \/ charge[o] \in TakenUp

Honest == Shape /\ NoEntryWithoutMoney /\ PaidNews /\ RefundNeverForgotten /\ RefundStages

LEMMA InitHonest == Init => Honest
  <1> SUFFICES ASSUME Init PROVE Honest
    OBVIOUS
  <1>1. \A o \in Orders : order[o].status = "none" /\ \A job \in Jobs : call[o][job] = "idle"
    BY DEF Init
  <1> QED
    BY <1>1, InitShape DEF Honest, NoEntryWithoutMoney, PaidNews, RefundNeverForgotten, RefundStages, RefundStage, Jobs

(* What a step has to respect.                                             *)
LEMMA HonestKept ==
  ASSUME Honest, Shape',
         \A p \in Orders : order'[p].status \in Owing => order[p].status \in Owing \/ charge'[p] \in Money,
         \A p \in Orders : charge[p] \in Money => charge'[p] \in Money,
         \A p \in Orders : \A job \in Jobs :
            call'[p][job] = "paid" => call[p][job] = "paid" \/ charge'[p] \in Money,
         \A p \in Orders : RefundStage(p)',
         \A p \in Orders : order'[p].status = "refund_required" =>
            IF order[p].status = "refund_required" THEN Pursued(p) => Pursued(p)' ELSE Pursued(p)'
  PROVE  Honest'
  <1>1. NoEntryWithoutMoney'
    BY DEF Honest, NoEntryWithoutMoney, Owing, Money
  <1>2. PaidNews'
    BY DEF Honest, PaidNews
  <1>3. RefundStages'
    BY DEF RefundStages
  <1>4. RefundNeverForgotten'
    BY DEF Honest, RefundNeverForgotten, Pursued, TakenUp
  <1> QED
    BY <1>1, <1>2, <1>3, <1>4 DEF Honest

LEMMA StepCopyTrue ==
  ASSUME Shape, CopyTrue, [Next]_vars
  PROVE  CopyTrue'
  <1>1. SaleStep
    BY NextIsSaleStep
  <1>2. \A o \in Orders : order[o].status = "refunded" => order'[o].status = "refunded"
    BY <1>1 DEF SaleStep, SaleAlone, Edits, Rearranges, Holds, Buys, BuysLate, Owes, GivesBack,
                Repays, Closes, Becomes, Pending, HoldsStock, Closed
  <1>3. ASSUME NEW o \in Orders, Poll(o) \/ CopyExpires(o) PROVE CopyTrue'
    <2>1. /\ copy' = [copy EXCEPT ![o] = Row(o)] \/ copy' = [copy EXCEPT ![o] = NoCopy]
          /\ Row(o).status = order[o].status /\ NoCopy.status # "refunded" /\ UNCHANGED order
      BY <1>3 DEF Poll, CopyExpires, Row, NoCopy
    <2>2. \A p \in Orders : copy'[p].status = "refunded" =>
              copy[p].status = "refunded" \/ order[p].status = "refunded"
      BY <2>1 DEF Shape, TypeOK
    <2> QED
      BY <1>2, <2>2 DEF CopyTrue
  <1>4. CASE UNCHANGED copy
    BY <1>2, <1>4 DEF CopyTrue
  <1> QED
    BY <1>3, <1>4
       DEF Next, vars, Start, Confirm, Lapse, Cancel, ExpireHolds, EditTier, Block, Unblock,
           ProviderMoves, DateMoves, Webhook, WebhookLost, Reconcile, AuditSettled, RequestRefund, Begin,
           CreateCharge, CancelCharge, RefundCharge, FetchCharge, Settle, AttemptFails, JobParks

(* Checkout, sweeps and announcements only add jobs, and no step of theirs *)
(* puts an order where money is due.                                       *)
LEMMA PatientHonest ==
  ASSUME Honest, Shape', UNCHANGED <<call, charge, parked>>, owed \subseteq owed',
         \A p \in Orders : order'[p].status \in Owing => order'[p].status = order[p].status
  PROVE  Honest'
  <1>1. \A p \in Orders : Pursued(p) => Pursued(p)'
    BY DEF Pursued
  <1>2. \A p \in Orders : RefundStage(p)'
    BY DEF Honest, RefundStages, RefundStage
  <1> QED
    BY <1>1, <1>2, HonestKept DEF Owing

LEMMA CheckoutHonest ==
  ASSUME Honest, Shape', NEW o \in Orders, NEW confirm \in BOOLEAN,
         Start(o, confirm) \/ Confirm(o) \/ Lapse(o) \/ Cancel(o)
  PROVE  Honest'
  <1>1. UNCHANGED <<call, charge, parked>> /\ owed \subseteq owed'
    BY DEF Start, Confirm, Lapse, Cancel, work, provider
  <1>2. order[o] \in OrderRows /\ order \in [Orders -> OrderRows]
    BY DEF Honest, Shape, TypeOK, OrderRows
  <1>3. \A p \in Orders : order'[p].status \in Owing => order'[p].status = order[p].status
    <2>1. CASE Start(o, confirm)
      BY <1>2, <2>1 DEF Start, NewOrder, Owing
    <2>2. CASE Confirm(o) \/ Lapse(o)
      <3>1. order'[o] \in {[order[o] EXCEPT !.confirmed = TRUE], [order[o] EXCEPT !.lapsed = TRUE]}
        BY <1>2, <2>2 DEF Confirm, Lapse
      <3>2. order'[o].status = order[o].status
        BY <1>2, <3>1 DEF OrderRows
      <3>3. \A p \in Orders \ {o} : order'[p] = order[p]
        BY <1>2, <2>2 DEF Confirm, Lapse
      <3> QED
        BY <3>2, <3>3
    <2>3. CASE Cancel(o)
      BY <2>3, SetStatusTypes DEF Cancel, Statuses, Owing, Honest, Shape
    <2> QED
      BY <2>1, <2>2, <2>3
  <1> QED
    BY <1>1, <1>3, PatientHonest

LEMMA ExpireHoldsHonest ==
  ASSUME Honest, Shape', NEW S \in SUBSET Orders, ExpireHolds(S)
  PROVE  Honest'
  <1>1. \A p \in Orders : order'[p].status \in Owing => order'[p].status = order[p].status
    BY SetStatusTypes DEF ExpireHolds, Statuses, Owing, Honest, Shape
  <1> QED
    BY <1>1, PatientHonest DEF ExpireHolds, provider

LEMMA AnnouncementHonest ==
  ASSUME Honest, Shape', NEW o \in Orders,
         \/ Webhook(o) \/ WebhookLost(o) \/ Reconcile(o) \/ AuditSettled(o)
         \/ RequestRefund(o) \/ Poll(o) \/ CopyExpires(o)
  PROVE  Honest'
  <1>1. UNCHANGED <<order, call, charge, parked>> /\ owed \subseteq owed'
    BY DEF Webhook, WebhookLost, Reconcile, AuditSettled, RequestRefund, Poll, CopyExpires,
           Schedule, work, provider
  <1> QED
    BY <1>1, PatientHonest

LEMMA OrganiserHonest ==
  ASSUME Honest, Shape',
         \/ \E t \in Tiers : \E edition \in Editions : EditTier(t, edition)
         \/ \E s \in Seats : Block(s) \/ Unblock(s)
  PROVE  Honest'
  <1>1. UNCHANGED <<order, call, charge, parked, owed>>
    BY DEF EditTier, Block, Unblock, work, provider
  <1> QED
    BY <1>1, PatientHonest

(* The provider never un-pays a charge, nor drops a refund it took up.     *)
LEMMA ProviderHonest ==
  ASSUME Honest, Shape', NEW o \in Orders, ProviderMoves(o)
  PROVE  Honest'
  <1>1. UNCHANGED <<order, call, owed, parked>>
    BY DEF ProviderMoves, work
  <1>2. \A p \in Orders : /\ charge[p] \in Money => charge'[p] \in Money
                          /\ charge[p] \in TakenUp => charge'[p] \in TakenUp
    BY DEF ProviderMoves, ChargeBecomes, Money, UnderReview, TakenUp, Honest, Shape, TypeOK
  <1>3. \A p \in Orders : Pursued(p) => Pursued(p)'
    BY <1>1, <1>2 DEF Pursued
  <1>4. \A p \in Orders : RefundStage(p)'
    BY <1>1, <1>2 DEF Honest, RefundStages, RefundStage
  <1> QED
    BY <1>1, <1>2, <1>3, <1>4, HonestKept
-----------------------------------------------------------------------------
(* A conversation moves on while no order does: it may only say "paid" of  *)
(* a charge that was, and a refund that is let go of is scheduled again.   *)
LEMMA TalkHonest ==
  ASSUME Honest, Shape', NEW o \in Orders, NEW job \in Jobs, NEW stage \in Stages,
         Reach(o, job, stage), UNCHANGED order,
         \A p \in Orders : charge[p] \in Money => charge'[p] \in Money,
         \A p \in Orders : charge[p] \in TakenUp => charge'[p] \in TakenUp,
         stage = "paid" => charge'[o] \in Money,
         job = "charge.refund" => stage \in {"idle", "ask"} \/ (stage \in {"in_analysis", "refunded"} /\ charge'[o] \in TakenUp),
         \A p \in Orders : <<"charge.refund", p>> \in owed \cup parked =>
            \/ <<"charge.refund", p>> \in owed' \cup parked'
            \/ (p = o /\ job = "charge.refund"),
         job = "charge.refund" /\ order[o].status = "refund_required" =>
            stage # "idle" \/ <<"charge.refund", o>> \in owed' \cup parked'
  PROVE  Honest'
  <1>1. /\ call'[o][job] = stage
        /\ \A p \in Orders : \A other \in Jobs :
             <<p, other>> # <<o, job>> => call'[p][other] = call[p][other]
    BY ReachTypes DEF Honest, Shape
  <1>2. "charge.refund" \in Jobs
    BY DEF Jobs
  <1>3. \A p \in Orders : \A kind \in Jobs :
            call'[p][kind] = "paid" => call[p][kind] = "paid" \/ charge'[p] \in Money
    BY <1>1
  <1>4. \A p \in Orders : RefundStage(p)'
    BY <1>1, <1>2 DEF Honest, RefundStages, RefundStage
  <1>5. ASSUME NEW p \in Orders, order[p].status = "refund_required", Pursued(p)
        PROVE  Pursued(p)'
    <2>1. CASE p = o /\ job = "charge.refund"
      BY <1>1, <1>5, <2>1 DEF Pursued
    <2>2. CASE ~(p = o /\ job = "charge.refund")
      <3>1. call'[p]["charge.refund"] = call[p]["charge.refund"]
        BY <1>1, <1>2, <2>2
      <3> QED
        BY <1>5, <2>2, <3>1 DEF Pursued
    <2> QED
      BY <2>1, <2>2
  <1> QED
    BY <1>3, <1>4, <1>5, HonestKept

LEMMA BeginHonest ==
  ASSUME Honest, CopyTrue, Shape', NEW o \in Orders, NEW job \in Jobs, Begin(o, job)
  PROVE  Honest'
  <1> DEFINE stage == FirstStage(o, job)
  <1>1. /\ UNCHANGED <<order, charge>> /\ parked \subseteq parked'
        /\ owed' = owed \ {<<job, o>>} /\ Reach(o, job, stage)
        /\ NothingToRefund(o, job) => <<job, o>> \in parked'
    BY DEF Begin, provider
  <1>2. /\ stage = "paid" => charge[o] = "paid"
        /\ job = "charge.refund" => stage \in {"idle", "ask"}
        /\ job = "charge.refund" /\ order[o].status = "refund_required" =>
              stage # "idle" \/ NothingToRefund(o, job)
        /\ job = "payment.sync" => charge[o] # "none"
    <2>1. charge[o] \in ChargeWords
      BY DEF Honest, Shape, TypeOK
    <2>2. job = "payment.sync" => charge[o] # "none"
      BY DEF Begin, Honest, Shape, TraceOfCharge, ChargeTrace
    <2>3. Seen(o).status = "refunded" => order[o].status = "refunded"
      BY DEF CopyTrue, Seen, Row
    <2> QED
      BY <2>1, <2>2, <2>3, ReadTypes DEF FirstStage, NothingToRefund, MapStatus, UnderReview, Jobs, Stages, ChargeStatuses
  <1>3. stage \in Stages
    <2>1. charge[o] \in ChargeWords
      BY DEF Honest, Shape, TypeOK
    <2> QED
      BY <1>2, <2>1, ReadTypes DEF FirstStage, Jobs, Stages
  <1> HIDE DEF stage
  <1> QED
    BY <1>1, <1>2, <1>3, TalkHonest DEF Money, UnderReview, TakenUp

LEMMA CreateChargeHonest ==
  ASSUME Honest, Shape', NEW o \in Orders, CreateCharge(o)
  PROVE  Honest'
  <1>1. UNCHANGED <<order, owed, parked>> /\ "charge.create" \in Jobs
    BY DEF CreateCharge, Jobs
  <1>2. CASE charge[o] = "none"
    <2>1. PICK status \in {"pending", "paid", "rejected"} :
            ChargeBecomes(o, status) /\ Reach(o, "charge.create", status)
      BY <1>2 DEF CreateCharge
    <2>2. charge'[o] = status /\ \A p \in Orders \ {o} : charge'[p] = charge[p]
      BY <2>1, ChargeBecomesTypes DEF Honest, Shape, ChargeWords, ChargeStatuses
    <2>3. status \in Stages
      BY DEF Stages, ChargeStatuses
    <2> QED
      BY <1>1, <1>2, <2>1, <2>2, <2>3, TalkHonest DEF Money, UnderReview, TakenUp
  <1>3. CASE charge[o] # "none"
    <2>1. UNCHANGED charge /\ Reach(o, "charge.create", MapStatus(charge[o]))
      BY <1>3 DEF CreateCharge, provider
    <2>2. MapStatus(charge[o]) \in Stages /\ (MapStatus(charge[o]) = "paid" => charge[o] = "paid")
      BY <1>3, ReadTypes DEF MapStatus, UnderReview, Honest, Shape, TypeOK
    <2> QED
      BY <1>1, <2>1, <2>2, TalkHonest DEF Money, UnderReview, TakenUp
  <1> QED
    BY <1>2, <1>3

LEMMA FetchChargeHonest ==
  ASSUME Honest, Shape', NEW o \in Orders, FetchCharge(o)
  PROVE  Honest'
  <1>1. UNCHANGED <<order, owed, parked, charge>> /\ "charge.create" \in Jobs
    BY DEF FetchCharge, provider, Jobs
  <1>2. charge[o] # "none"
    BY DEF FetchCharge, Honest, Shape, TraceOfCharge, ChargeTrace, Jobs, ChargeStatuses
  <1>3. /\ MapStatus(charge[o]) \in Stages /\ (MapStatus(charge[o]) = "paid" => charge[o] = "paid")
        /\ Reach(o, "charge.create", MapStatus(charge[o]))
    BY <1>2, ReadTypes DEF FetchCharge, MapStatus, UnderReview, Honest, Shape, TypeOK
  <1> QED
    BY <1>1, <1>3, TalkHonest DEF Money, UnderReview, TakenUp

LEMMA CancelChargeHonest ==
  ASSUME Honest, Shape', NEW o \in Orders, CancelCharge(o)
  PROVE  Honest'
  <1>1. /\ UNCHANGED <<order, owed>> /\ parked \subseteq parked'
        /\ Reach(o, "charge.cancel", "idle") /\ "charge.cancel" \in Jobs /\ "idle" \in Stages
    BY DEF CancelCharge, Jobs, Stages
  <1>2. \A p \in Orders : charge'[p] = charge[p] \/ charge[p] = "pending"
    <2>1. CASE charge[o] = "pending" /\ ChargeBecomes(o, "cancelled")
      BY <2>1, ChargeBecomesTypes DEF Honest, Shape, ChargeWords, ChargeStatuses
    <2>2. CASE UNCHANGED provider
      BY <2>2 DEF provider
    <2> QED
      BY <2>1, <2>2 DEF CancelCharge
  <1> QED
    BY <1>1, <1>2, TalkHonest DEF Money, UnderReview, TakenUp

LEMMA RefundChargeHonest ==
  ASSUME Honest, Shape', NEW o \in Orders, RefundCharge(o)
  PROVE  Honest'
  <1>1. /\ UNCHANGED <<order, owed>> /\ "charge.refund" \in Jobs
        /\ {"idle", "in_analysis", "refunded"} \subseteq Stages
        /\ MapStatus("refund_requested") = "in_analysis" /\ MapStatus("refunded") = "refunded"
    BY DEF RefundCharge, Jobs, Stages, ChargeStatuses, MapStatus, UnderReview
  <1>2. ASSUME NEW status \in {"refunded", "refund_requested"}, charge[o] = "paid", UNCHANGED parked,
               ChargeBecomes(o, status), Reach(o, "charge.refund", MapStatus(status))
        PROVE  Honest'
    <2>1. charge'[o] = status /\ \A p \in Orders \ {o} : charge'[p] = charge[p]
      BY <1>2, ChargeBecomesTypes DEF Honest, Shape, ChargeWords, ChargeStatuses, UnderReview
    <2>2. PICK stage \in {"in_analysis", "refunded"} : Reach(o, "charge.refund", stage)
      BY <1>1, <1>2
    <2> QED
      BY <1>1, <1>2, <2>1, <2>2, TalkHonest DEF Money, UnderReview, TakenUp
  <1>3. CASE /\ charge[o] \in {"refund_requested", "refunded"} /\ Reach(o, "charge.refund", MapStatus(charge[o]))
             /\ UNCHANGED <<provider, parked>>
    <2>1. PICK stage \in {"in_analysis", "refunded"} : Reach(o, "charge.refund", stage)
      BY <1>1, <1>3
    <2> QED
      BY <1>1, <1>3, <2>1, TalkHonest DEF provider, Money, UnderReview, TakenUp
  <1>4. CASE /\ Reach(o, "charge.refund", "idle") /\ UNCHANGED provider
             /\ parked' = parked \cup {<<"charge.refund", o>>}
    BY <1>1, <1>4, TalkHonest DEF provider, Money, UnderReview, TakenUp
  <1> QED
    BY <1>2, <1>3, <1>4 DEF RefundCharge

LEMMA AttemptFailsHonest ==
  ASSUME Honest, Shape', NEW o \in Orders, NEW job \in Jobs, AttemptFails(o, job)
  PROVE  Honest'
  <1>1. /\ UNCHANGED <<order, charge, parked>> /\ owed' = owed \cup {<<job, o>>}
        /\ Reach(o, job, "idle") /\ "idle" \in Stages
    BY DEF AttemptFails, provider, Stages
  <1> QED
    BY <1>1, TalkHonest DEF Money, UnderReview, TakenUp

LEMMA JobParksHonest ==
  ASSUME Honest, Shape', NEW o \in Orders, NEW job \in Jobs, JobParks(o, job)
  PROVE  Honest'
  <1>1. /\ UNCHANGED <<order, charge, call>>
        /\ owed \cup parked \subseteq owed' \cup parked'
    BY DEF JobParks, provider
  <1>2. \A p \in Orders : Pursued(p) => Pursued(p)'
    BY <1>1 DEF Pursued
  <1>3. \A p \in Orders : RefundStage(p)'
    BY <1>1 DEF Honest, RefundStages, RefundStage
  <1> QED
    BY <1>1, <1>2, <1>3, HonestKept

-----------------------------------------------------------------------------
(* What settling may do to the order it settles.                           *)
LEMMA SettleMoves ==
  ASSUME TypeOK, NEW o \in Orders, NEW news \in ChargeStatuses,
         \/ SettleNoMove(o, news) \/ SettlePaid(o, news) \/ SettleRefundRequired(o, news)
         \/ SettleClosed(o, news) \/ SettleRefunded(o, news)
  PROVE  /\ \A p \in Orders \ {o} : order'[p] = order[p]
         /\ owed \subseteq owed'
         /\ \/ order'[o].status = order[o].status
            \/ order'[o].status \in {"expired", "failed"}
            \/ (order'[o].status = "paid" /\ news = "paid")
            \/ (order'[o].status = "refund_required" /\ news = "paid" /\ <<"charge.refund", o>> \in owed')
            \/ (order'[o].status = "refunded" /\ order[o].status \in {"paid", "refund_required"})
  <1>0. {"paid", "refund_required", "expired", "failed", "refunded"} \subseteq Statuses
    BY DEF Statuses
  <1>1. \A p \in Orders \ {o} : order'[p] = order[p]
    BY SettleTypes
  <1>2. \A status : NextStatus(o, news) = status =>
            /\ status = "paid" => news = "paid"
            /\ status = "refund_required" => news = "paid"
    BY DEF NextStatus, StatusFor, Moves, ChargeStatuses
  <1>3. CASE SettleNoMove(o, news)
    <2>1. order[o] \in OrderRows
      BY DEF TypeOK, OrderRows
    <2>2. [order[o] EXCEPT !.attached = TRUE].status = order[o].status
      BY <2>1 DEF OrderRows
    <2>3. Attach(o) \/ UNCHANGED order
      BY <1>3 DEF SettleNoMove
    <2>4. order'[o].status = order[o].status
      BY <2>2, <2>3 DEF Attach, TypeOK
    <2> QED
      BY <1>1, <1>3, <2>4 DEF SettleNoMove
  <1>4. ASSUME NEW status \in {"paid", "refund_required", "expired", "failed", "refunded"}, Crosses(o, news, status)
        PROVE  /\ order'[o].status = status /\ NextStatus(o, news) = status
               /\ CanTransition(order[o].status, status)
    BY <1>0, <1>4, AttachAndSetStatus DEF Crosses
  <1>5. CASE SettlePaid(o, news)
    BY <1>1, <1>2, <1>4, <1>5 DEF SettlePaid
  <1>6. CASE SettleRefundRequired(o, news)
    BY <1>1, <1>2, <1>4, <1>6 DEF SettleRefundRequired
  <1>7. CASE SettleClosed(o, news)
    <2>1. PICK status \in {"expired", "failed"} : Crosses(o, news, status)
      BY <1>7 DEF SettleClosed
    <2> QED
      BY <1>1, <1>2, <1>4, <1>7, <2>1 DEF SettleClosed
  <1>8. CASE SettleRefunded(o, news)
    BY <1>1, <1>4, <1>8 DEF SettleRefunded, CanTransition
  <1> QED
    BY <1>3, <1>5, <1>6, <1>7, <1>8

LEMMA SettleHonest ==
  ASSUME Honest, Shape', NEW o \in Orders, NEW job \in Jobs, Settle(o, job)
  PROVE  Honest'
  <1> DEFINE news == call[o][job]
  <1>1. /\ news \in ChargeStatuses /\ UNCHANGED <<parked, charge>>
        /\ Reach(o, job, "idle") /\ "idle" \in Stages
    BY DEF Settle, provider, Stages
  <1>2. /\ \A p \in Orders \ {o} : order'[p] = order[p]
        /\ owed \subseteq owed'
        /\ \/ order'[o].status = order[o].status
           \/ order'[o].status \in {"expired", "failed"}
           \/ (order'[o].status = "paid" /\ news = "paid")
           \/ (order'[o].status = "refund_required" /\ news = "paid" /\ <<"charge.refund", o>> \in owed')
           \/ (order'[o].status = "refunded" /\ order[o].status \in {"paid", "refund_required"})
    BY <1>1, SettleMoves DEF Settle, Honest, Shape
  <1>3. /\ news = "paid" => charge[o] \in Money
        /\ job = "charge.refund" => charge[o] \in TakenUp
    BY <1>1 DEF Honest, PaidNews, RefundStages, RefundStage, ChargeStatuses
  <1> HIDE DEF news
  <1>4. /\ call'[o][job] = "idle"
        /\ \A p \in Orders : \A other \in Jobs :
             <<p, other>> # <<o, job>> => call'[p][other] = call[p][other]
    BY <1>1, ReachTypes DEF Honest, Shape
  <1>5. "charge.refund" \in Jobs
    BY DEF Jobs
  <1>6. \A p \in Orders : order'[p].status \in Owing => order[p].status \in Owing \/ charge'[p] \in Money
    BY <1>1, <1>2, <1>3 DEF Owing
  <1>7. \A p \in Orders : \A kind \in Jobs : call'[p][kind] = "paid" => call[p][kind] = "paid"
    BY <1>4
  <1>8. \A p \in Orders : RefundStage(p)'
    BY <1>1, <1>4, <1>5 DEF Honest, RefundStages, RefundStage
  <1>9. ASSUME NEW p \in Orders, order'[p].status = "refund_required"
        PROVE  IF order[p].status = "refund_required" THEN Pursued(p) => Pursued(p)' ELSE Pursued(p)'
    <2>1. CASE p # o
      <3>1. order'[p] = order[p] /\ call'[p]["charge.refund"] = call[p]["charge.refund"]
        BY <1>2, <1>4, <1>5, <2>1
      <3> QED
        BY <1>1, <1>2, <1>9, <3>1 DEF Pursued
    <2>2. CASE p = o /\ order[o].status = "refund_required"
      <3>1. CASE job = "charge.refund"
        BY <1>1, <1>3, <2>2, <3>1 DEF Pursued
      <3>2. CASE job # "charge.refund"
        <4>1. call'[o]["charge.refund"] = call[o]["charge.refund"]
          BY <1>4, <1>5, <3>2
        <4> QED
          BY <1>1, <1>2, <2>2, <4>1 DEF Pursued
      <3> QED
        BY <3>1, <3>2
    <2>3. CASE p = o /\ order[o].status # "refund_required"
      BY <1>2, <1>9, <2>3 DEF Pursued
    <2> QED
      BY <2>1, <2>2, <2>3
  <1> QED
    BY <1>1, <1>6, <1>7, <1>8, <1>9, HonestKept

LEMMA StepHonest == Honest /\ CopyTrue /\ [Next]_vars => (Honest /\ CopyTrue)'
  <1> SUFFICES ASSUME Honest, CopyTrue, [Next]_vars PROVE Honest'
    BY StepCopyTrue DEF Honest
  <1>0. Shape'
    BY StepShape DEF Honest
  <1>1. ASSUME NEW o \in Orders, NEW confirm \in BOOLEAN,
               Start(o, confirm) \/ Confirm(o) \/ Lapse(o) \/ Cancel(o)
        PROVE  Honest'
    BY <1>0, <1>1, CheckoutHonest
  <1>2. ASSUME NEW S \in SUBSET Orders, ExpireHolds(S) PROVE Honest'
    BY <1>0, <1>2, ExpireHoldsHonest
  <1>3. CASE \/ \E t \in Tiers : \E edition \in Editions : EditTier(t, edition)
             \/ \E s \in Seats : Block(s) \/ Unblock(s)
    BY <1>0, <1>3, OrganiserHonest
  <1>4. ASSUME NEW o \in Orders, ProviderMoves(o) PROVE Honest'
    BY <1>0, <1>4, ProviderHonest
  <1>5. ASSUME NEW o \in Orders,
               \/ Webhook(o) \/ WebhookLost(o) \/ Reconcile(o) \/ AuditSettled(o)
               \/ RequestRefund(o) \/ Poll(o) \/ CopyExpires(o)
        PROVE  Honest'
    BY <1>0, <1>5, AnnouncementHonest
  <1>6. ASSUME NEW o \in Orders, NEW job \in Jobs,
               Begin(o, job) \/ Settle(o, job) \/ AttemptFails(o, job) \/ JobParks(o, job)
        PROVE  Honest'
    BY <1>0, <1>6, BeginHonest, SettleHonest, AttemptFailsHonest, JobParksHonest
  <1>7. ASSUME NEW o \in Orders, CreateCharge(o) \/ CancelCharge(o) \/ RefundCharge(o) \/ FetchCharge(o)
        PROVE  Honest'
    BY <1>0, <1>7, CreateChargeHonest, CancelChargeHonest, RefundChargeHonest, FetchChargeHonest
  <1>8. CASE UNCHANGED vars
    BY <1>0, <1>8, PatientHonest DEF vars
  <1>9. TRUE \in BOOLEAN
    OBVIOUS
  <1>10. CASE DateMoves
    <2>1. UNCHANGED <<order, call, charge, parked, owed>>
      BY <1>10 DEF DateMoves, work, provider
    <2> QED
      BY <1>0, <2>1, PatientHonest
  <1> QED
    BY <1>1, <1>2, <1>3, <1>4, <1>5, <1>6, <1>7, <1>8, <1>9, <1>10 DEF Next

LEMMA AlwaysHonest == Spec => []Honest
  <1>1. Init => Honest /\ CopyTrue
    BY InitHonest DEF Init, CopyTrue, NoCopy
  <1> QED
    BY <1>1, StepHonest, PTL DEF Spec

(* Whatever answers arrive late, from whichever of the four jobs, an order *)
(* is settled as paid, refundable or refunded only when its charge was     *)
(* paid at some time.                                                      *)
THEOREM NeverFree == Spec => []NoEntryWithoutMoney
  <1>1. Honest => NoEntryWithoutMoney
    BY DEF Honest
  <1> QED
    BY <1>1, AlwaysHonest, PTL

(* An order that owes its buyer a refund always has that refund scheduled, *)
(* under way, parked where a human sees it, taken up by the provider, or   *)
(* made: the settlement that writes the debt writes the job, and no        *)
(* failing attempt drops it.                                               *)
THEOREM DebtsPursued == Spec => []RefundNeverForgotten
  <1>1. Honest => RefundNeverForgotten
    BY DEF Honest
  <1> QED
    BY <1>1, AlwaysHonest, PTL

-----------------------------------------------------------------------------
(* The ideal sale.                                                         *)

Kept == Stock /\ Seating

-----------------------------------------------------------------------------
(* The two levels count the same claims.                                   *)

LEMMA Standing ==
  ASSUME NEW o \in Orders
  PROVE  /\ order[o].status = "pending_payment" => Standings[o] = "held"
         /\ order[o].status = "paid" => Standings[o] = "entitled"
         /\ order[o].status = "refunded" => Standings[o] = "returned"
         /\ order[o].status \notin {"pending_payment", "paid", "refunded"} => Standings[o] = "out"
  BY DEF Standings, StandsAs, HoldsStock

LEMMA ClaimantsAre == Sale!Claimants = Pending \cup Paid
  <1>1. \A o \in Orders : Standings[o] \in {"held", "entitled"} <=> o \in Pending \cup Paid
    BY Standing DEF Pending, Paid, HoldsStock
  <1>2. Pending \cup Paid \subseteq Orders
    BY DEF Pending, Paid
  <1> QED
    BY <1>1, <1>2 DEF Sale!Claimants

LEMMA ClaimsAreLines ==
  ASSUME NEW S, NEW t
  PROVE  Sale!Claims(S, t) = Lines(S, t)
  BY DEF Sale!Claims, Lines

LEMMA SizesAgree ==
  ASSUME NEW S
  PROVE  Sale!Cardinality(S) = Cardinality(S)
  BY DEF Sale!Cardinality, Cardinality

(* The box office's hall is a hall of the ideal sale, so what is proved of *)
(* every ideal sale holds of this one.                                     *)
LEMMA SameHall == Sale!OffersAssumption
  BY SalesAssumption DEF Sale!OffersAssumption, Sale!IsFiniteSet, IsFiniteSet

LEMMA ClaimedIs ==
  ASSUME Kept, NEW t \in Tiers
  PROVE  Sale!Claimed(t) = tier[t].sold + tier[t].reserved
  <1>1. Sale!Claimed(t) = Qty(Pending \cup Paid, t)
    BY ClaimantsAre, ClaimsAreLines, SizesAgree DEF Sale!Claimed, Qty
  <1>2. /\ Pending \in SUBSET Orders /\ Paid \in SUBSET Orders
        /\ Pending \cap Paid = {}
    BY DEF Pending, Paid, HoldsStock
  <1>3. Qty(Pending \cup Paid, t) = Qty(Pending, t) + Qty(Paid, t)
    BY <1>2, QtyAdds
  <1>4. tier[t].reserved = Qty(Pending, t) /\ tier[t].sold = Qty(Paid, t)
    BY DEF Kept, Stock, StockMatchesOrders
  <1>5. Qty(Pending, t) \in Nat /\ Qty(Paid, t) \in Nat
    BY <1>2, LinesFinite
  <1> QED
    BY <1>1, <1>3, <1>4, <1>5

(* What checkout asks of the rows is what the ideal sale calls room.       *)
LEMMA RoomIs ==
  ASSUME Kept, NEW o \in Orders, CanClaim(o), CanReserve(o)
  PROVE  Sale!Room(o)
  <1>1. ASSUME NEW t \in Tiers
        PROVE  /\ Sale!Claimed(t) + Cardinality(Sale!Claims({o}, t)) <= Offering[t]
               /\ Sale!Claimed(t) + Cardinality(Sale!Claims({o}, t)) <= AreaCapacity[t]
    <2>1. Cardinality(Sale!Claims({o}, t)) = Qty({o}, t)
      BY ClaimsAreLines DEF Qty
    <2>2. /\ tier[t].sold + tier[t].reserved + Qty({o}, t) <= tier[t].quantity
          /\ tier[t].sold + tier[t].reserved + Qty({o}, t) <= AreaCapacity[t]
      BY RoomForBasket DEF Kept, Stock, Shape
    <2>3. Offering[t] = tier[t].quantity
      BY DEF Offering
    <2> QED
      BY <2>1, <2>2, <2>3, ClaimedIs
  <1>2. ASSUME NEW s \in Basket[o] \cap Seats
        PROVE  s \notin Withheld /\ \A p \in Sale!Claimants : s \notin Basket[p]
    <2>1. seat[s].status = "available"
      BY DEF CanClaim, Chairs
    <2>2. s \notin Withheld
      BY <2>1 DEF Withheld
    <2>3. ASSUME NEW p \in Pending \cup Paid, s \in Basket[p] PROVE FALSE
      <3>1. p \in Orders /\ s \in Chairs(p)
        BY <2>3 DEF Pending, Paid, Chairs
      <3>2. SeatsMatchOrders
        BY DEF Kept, Seating
      <3>3. \/ seat[s] = [status |-> "held", holder |-> p]
            \/ seat[s] = [status |-> "sold", holder |-> p]
        BY <3>1, <3>2, SeatsInParts
      <3> QED
        BY <2>1, <3>3
    <2> QED
      BY <2>2, <2>3, ClaimantsAre
  <1> QED
    BY <1>1, <1>2, SizesAgree DEF Sale!Room

-----------------------------------------------------------------------------
(* What a step leaves of the three abstract variables.                     *)

LEMMA StandingsBecome ==
  ASSUME NEW S \in SUBSET Orders, NEW status, Becomes(S, status)
  PROVE  /\ status = "pending_payment" => Sale!Become(S, "held")
         /\ status = "paid" => Sale!Become(S, "entitled")
         /\ status = "refunded" => Sale!Become(S, "returned")
         /\ status \in Closed => Sale!Become(S, "out")
         /\ S = {} => UNCHANGED Standings
  <1>1. Standings' = [o \in Orders |-> Standings'[o]] /\ Standings = [o \in Orders |-> Standings[o]]
    BY DEF Standings
  <1>2. ASSUME NEW o \in Orders
        PROVE  /\ order'[o].status = "pending_payment" => Standings'[o] = "held"
               /\ order'[o].status = "paid" => Standings'[o] = "entitled"
               /\ order'[o].status = "refunded" => Standings'[o] = "returned"
               /\ order'[o].status \notin {"pending_payment", "paid", "refunded"} => Standings'[o] = "out"
    BY DEF Standings, StandsAs, HoldsStock
  <1>3. \A o \in Orders \ S : Standings'[o] = Standings[o]
    BY <1>2, Standing DEF Becomes
  <1>4. \A o \in S : order'[o].status = status
    BY DEF Becomes
  <1>5. ASSUME NEW p, \A o \in S : Standings'[o] = p PROVE Sale!Become(S, p)
    <2>1. \A o \in Orders : Standings'[o] = IF o \in S THEN p ELSE Standings[o]
      BY <1>3, <1>5
    <2> QED
      BY <1>1, <2>1 DEF Sale!Become
  <1> QED
    BY <1>1, <1>2, <1>3, <1>4, <1>5 DEF Closed

LEMMA OfferingKept ==
  ASSUME \A t \in Tiers : tier'[t].quantity = tier[t].quantity
  PROVE  UNCHANGED Offering
  BY DEF Offering

(* Chairs change hands, and the organiser's stay where they are.           *)
LEMMA WithheldKept ==
  ASSUME \A s \in Seats : seat'[s].status = "blocked" <=> seat[s].status = "blocked"
  PROVE  UNCHANGED Withheld
  BY DEF Withheld

LEMMA MovedChairs ==
  ASSUME NEW S, NEW from \in {"held", "sold"}, NEW to \in {"available", "sold"}, MoveSeats(S, from, to)
  PROVE  UNCHANGED Withheld
  <1>1. \A s \in Seats : seat'[s].status = "blocked" <=> seat[s].status = "blocked"
    BY DEF MoveSeats
  <1> QED
    BY <1>1, WithheldKept

LEMMA ClaimedChairs ==
  ASSUME NEW o \in Orders, CanClaim(o), NEW to \in {"held", "sold"}, ClaimSeats(o, to)
  PROVE  UNCHANGED Withheld
  <1>1. \A s \in Seats : seat'[s].status = "blocked" <=> seat[s].status = "blocked"
    BY DEF ClaimSeats, CanClaim
  <1> QED
    BY <1>1, WithheldKept

-----------------------------------------------------------------------------
(* Step by step.                                                           *)

LEMMA HoldsImplements ==
  ASSUME Kept, NEW o \in Orders, Holds(o)
  PROVE  Sale!Hold(o)
  <1>1. Standings[o] = "out" /\ Sale!Room(o)
    BY Standing, RoomIs DEF Holds
  <1>2. Sale!Become({o}, "held")
    BY StandingsBecome DEF Holds
  <1>3. UNCHANGED <<Offering, Withheld>>
    BY ReserveTypes, OfferingKept, ClaimedChairs DEF Holds, Kept, Stock, Shape
  <1> QED
    BY <1>1, <1>2, <1>3 DEF Sale!Hold

LEMMA ClosesImplements ==
  ASSUME Kept, NEW S \in SUBSET Orders, NEW status \in Closed, Closes(S, status)
  PROVE  Sale!LetGo(S)
  <1>1. \A o \in S : Standings[o] = "held"
    BY Standing DEF Closes, Pending, HoldsStock
  <1>2. Sale!Become(S, "out")
    BY StandingsBecome DEF Closes
  <1>3. UNCHANGED Offering
    BY ReleaseTypes, OfferingKept DEF Closes, Kept, Stock, Shape
  <1>4. UNCHANGED Withheld
    BY MovedChairs DEF Closes, ReleaseForOrder
  <1> QED
    BY <1>1, <1>2, <1>3, <1>4 DEF Sale!LetGo

LEMMA BuysImplements ==
  ASSUME Kept, NEW o \in Orders, Buys(o) \/ BuysLate(o)
  PROVE  Sale!Entitle(o)
  <1>1. Sale!Become({o}, "entitled")
    BY StandingsBecome DEF Buys, BuysLate
  <1>2. CASE Buys(o)
    <2>1. Standings[o] = "held"
      BY <1>2, Standing DEF Buys, HoldsStock
    <2>2. UNCHANGED Offering
      BY <1>2, CommitTypes, OfferingKept DEF Buys, Kept, Stock, Shape
    <2>3. UNCHANGED Withheld
      BY <1>2, MovedChairs DEF Buys, CommitForOrder
    <2> QED
      BY <1>1, <2>1, <2>2, <2>3 DEF Sale!Entitle
  <1>3. CASE BuysLate(o)
    <2>1. Standings[o] = "out" /\ Sale!Room(o)
      BY <1>3, Standing, RoomIs DEF BuysLate, Closed, CanRetake
    <2>2. UNCHANGED Offering
      BY <1>3, ReserveAndCommitTypes, OfferingKept DEF BuysLate, Kept, Stock, Shape
    <2>3. UNCHANGED Withheld
      BY <1>3, ClaimedChairs DEF BuysLate, CanRetake
    <2> QED
      BY <1>1, <2>1, <2>2, <2>3 DEF Sale!Entitle
  <1> QED
    BY <1>2, <1>3

LEMMA RefundsImplement ==
  ASSUME Kept, NEW o \in Orders, GivesBack(o) \/ Repays(o)
  PROVE  Sale!Return(o)
  <1>1. Sale!Become({o}, "returned")
    BY StandingsBecome DEF GivesBack, Repays
  <1>2. Standings[o] \in {"entitled", "out"}
    BY Standing DEF GivesBack, Repays
  <1>3. UNCHANGED <<Offering, Withheld>>
    <2>1. CASE GivesBack(o)
      BY <2>1, ReleaseSoldTypes, OfferingKept, MovedChairs
         DEF GivesBack, ReleaseSoldForOrder, Kept, Stock, Shape
    <2>2. CASE Repays(o)
      BY <2>2 DEF Repays, inventory, Offering, Withheld
    <2> QED
      BY <2>1, <2>2
  <1> QED
    BY <1>1, <1>2, <1>3 DEF Sale!Return

LEMMA EditsImplement ==
  ASSUME Kept, NEW t \in Tiers, NEW edition \in Editions, EditTier(t, edition), Becomes({}, "none")
  PROVE  Sale!Offer(t, edition[1])
  <1>1. UNCHANGED Standings
    BY StandingsBecome
  <1>2. UNCHANGED Withheld
    BY DEF EditTier, Withheld
  <1>3. Sale!Claimed(t) <= edition[1]
    BY ClaimedIs DEF EditTier
  <1>4. /\ tier'[t].quantity = edition[1]
        /\ \A u \in Tiers \ {t} : tier'[u].quantity = tier[u].quantity
    <2>1. tier[t] \in TierRows /\ tier \in [Tiers -> TierRows]
      BY DEF Kept, Stock, Shape, TypeOK
    <2>2. tier' = [tier EXCEPT ![t] = [tier[t] EXCEPT !.quantity = edition[1], !.onSale = edition[2]]]
      BY DEF EditTier, Kept, Stock, Shape, TypeOK
    <2> QED
      BY <2>1, <2>2 DEF TierRows
  <1>5. Offering' = [Offering EXCEPT ![t] = edition[1]]
    BY <1>4 DEF Offering
  <1> QED
    BY <1>1, <1>2, <1>3, <1>5 DEF Sale!Offer

LEMMA RearrangesImplement ==
  ASSUME Kept, NEW s \in Seats, Block(s) \/ Unblock(s), Becomes({}, "none")
  PROVE  Sale!Withhold(s) \/ Sale!PutBack(s)
  <1>1. UNCHANGED <<Standings, Offering>>
    BY StandingsBecome DEF Block, Unblock, Offering
  <1>2. seat \in [Seats -> SeatRows] /\ seat[s] \in SeatRows
    BY DEF Kept, Seating, Shape, TypeOK, SeatRows
  <1>3. \A r \in Seats \ {s} : seat'[r] = seat[r]
    BY <1>2 DEF Block, Unblock
  <1>4. CASE Block(s)
    <2>1. seat'[s].status = "blocked"
      BY <1>2, <1>4 DEF Block, SeatRows
    <2>2. Withheld' = Withheld \cup {s}
      BY <1>3, <2>1 DEF Withheld
    <2>3. ASSUME NEW p \in Pending \cup Paid, s \in Basket[p] PROVE FALSE
      <3>1. p \in Orders /\ s \in Chairs(p)
        BY <2>3 DEF Pending, Paid, Chairs
      <3>2. SeatsMatchOrders
        BY DEF Kept, Seating
      <3>3. \/ seat[s] = [status |-> "held", holder |-> p]
            \/ seat[s] = [status |-> "sold", holder |-> p]
        BY <3>1, <3>2, SeatsInParts
      <3> QED
        BY <1>4, <3>3 DEF Block
    <2> QED
      BY <1>1, <2>2, <2>3, ClaimantsAre DEF Sale!Withhold
  <1>5. CASE Unblock(s)
    <2>1. seat'[s].status = "available"
      BY <1>2, <1>5 DEF Unblock, SeatRows
    <2>2. Withheld' = Withheld \ {s}
      BY <1>3, <2>1 DEF Withheld
    <2> QED
      BY <1>1, <2>2 DEF Sale!PutBack
  <1> QED
    BY <1>4, <1>5

LEMMA InitImplements == Init => Sale!Init
  <1> SUFFICES ASSUME Init PROVE Sale!Init
    OBVIOUS
  <1>1. \A o \in Orders : Standings[o] = "out"
    BY Standing DEF Init
  <1>2. Standings = [o \in Orders |-> "out"]
    BY <1>1 DEF Standings
  <1>3. \A t \in Tiers : tier[t].quantity \in {edition[1] : edition \in Editions}
    BY DEF Init
  <1>4. Offering \in [Tiers -> {edition[1] : edition \in Editions}]
    BY <1>3 DEF Offering
  <1>5. Withheld = {}
    BY DEF Init, Withheld
  <1> QED
    BY <1>2, <1>4, <1>5 DEF Sale!Init

LEMMA StepImplements == Kept /\ [Next]_vars => [Sale!Next]_(Sale!sale)
  <1> SUFFICES ASSUME Kept, [Next]_vars PROVE [Sale!Next]_(Sale!sale)
    OBVIOUS
  <1>1. SaleStep
    BY NextIsSaleStep DEF Kept, Stock
  <1>2. CASE SaleAlone
    <2>1. UNCHANGED <<Standings, Offering, Withheld>>
      BY <1>2, StandingsBecome DEF SaleAlone, inventory, Offering, Withheld
    <2> QED
      BY <2>1 DEF Sale!sale
  <1>3. CASE Edits
    <2>1. PICK t \in Tiers, edition \in Editions : EditTier(t, edition)
      BY <1>3 DEF Edits
    <2>2. Sale!Offer(t, edition[1])
      BY <1>3, <2>1, EditsImplement DEF Edits
    <2>3. edition[1] \in {e[1] : e \in Editions}
      OBVIOUS
    <2> QED
      BY <2>2, <2>3 DEF Sale!Next
  <1>4. CASE Rearranges
    BY <1>4, RearrangesImplement DEF Rearranges, Sale!Next
  <1>5. ASSUME NEW o \in Orders, Holds(o) PROVE Sale!Next
    BY <1>5, HoldsImplements DEF Sale!Next
  <1>6. ASSUME NEW o \in Orders, Buys(o) \/ BuysLate(o) PROVE Sale!Next
    BY <1>6, BuysImplements DEF Sale!Next
  <1>7. ASSUME NEW o \in Orders, GivesBack(o) \/ Repays(o) PROVE Sale!Next
    BY <1>7, RefundsImplement DEF Sale!Next
  <1>8. ASSUME NEW o \in Orders, Owes(o) PROVE UNCHANGED Sale!sale
    <2>1. UNCHANGED <<Offering, Withheld>>
      BY <1>8 DEF Owes, inventory, Offering, Withheld
    <2>2. \A p \in Orders : StandsAs(p)' = StandsAs(p)
      BY <1>8 DEF Owes, Becomes, Closed, StandsAs, HoldsStock
    <2>3. UNCHANGED Standings
      BY <2>2 DEF Standings
    <2> QED
      BY <2>1, <2>3 DEF Sale!sale
  <1>9. ASSUME NEW S \in SUBSET Orders, NEW status \in Closed, Closes(S, status) PROVE Sale!Next
    BY <1>9, ClosesImplements DEF Sale!Next
  <1> QED
    BY <1>1, <1>2, <1>3, <1>4, <1>5, <1>6, <1>7, <1>8, <1>9 DEF SaleStep

(* Whatever the counters, the chair rows, late answers and failing jobs    *)
(* do, a buyer sees an ideal sale: every behaviour of the box office is    *)
(* one of TicketSale.                                                      *)
THEOREM KeepsItsPromise == Spec => KeepsTheSale
  <1>1. Stock /\ Seating => Kept
    BY DEF Kept
  <1>2. Init => Stock /\ Seating
    BY InitStock, InitSeating
  <1>3. Stock /\ Seating /\ [Next]_vars => Stock' /\ Seating'
    BY StepStock, StepSeating
  <1> QED
    BY <1>1, <1>2, <1>3, InitImplements, StepImplements, PTL DEF Spec, KeepsTheSale, Sale!Spec
=============================================================================
