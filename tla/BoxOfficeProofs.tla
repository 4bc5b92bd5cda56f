-------------------------- MODULE BoxOfficeProofs --------------------------
(***************************************************************************)
(* What the box office keeps for every hall, every set of orders and every *)
(* number of provider conversations.  The proofs go in two stages: first   *)
(* the shape of the state and the trace a charge leaves, then, over the    *)
(* few ways a step can change the sale at all, the sale's own invariants.  *)
(***************************************************************************)
EXTENDS BoxOffice, FiniteSetTheorems, TLAPS

-----------------------------------------------------------------------------
(* Counting lines.                                                         *)

LEMMA LinesFinite ==
  ASSUME NEW S \in SUBSET Orders, NEW t \in Tiers
  PROVE  IsFiniteSet(Lines(S, t)) /\ Qty(S, t) \in Nat
  <1>1. IsFiniteSet(S) /\ IsFiniteSet(Units)
    BY SalesAssumption, FS_Subset
  <1>2. IsFiniteSet(S \X Units)
    BY <1>1, FS_Product
  <1>3. Lines(S, t) \in SUBSET (S \X Units)
    BY DEF Lines
  <1> QED
    BY <1>2, <1>3, FS_Subset, FS_CardinalityType DEF Qty

(* Disjoint sets of orders are counted apart.                              *)
LEMMA QtyAdds ==
  ASSUME NEW S \in SUBSET Orders, NEW T \in SUBSET Orders, S \cap T = {}, NEW t \in Tiers
  PROVE  Qty(S \cup T, t) = Qty(S, t) + Qty(T, t)
  <1>1. Lines(S \cup T, t) = Lines(S, t) \cup Lines(T, t)
    BY DEF Lines
  <1>2. Lines(S, t) \cap Lines(T, t) = {}
    BY DEF Lines
  <1>3. Cardinality(Lines(S, t) \cap Lines(T, t)) = 0
    BY <1>2, FS_EmptySet
  <1>4. /\ IsFiniteSet(Lines(S, t)) /\ IsFiniteSet(Lines(T, t))
        /\ Qty(S, t) \in Nat /\ Qty(T, t) \in Nat
    BY LinesFinite
  <1> DEFINE c == Cardinality(Lines(S, t) \cap Lines(T, t))
  <1>5. Qty(S \cup T, t) = Qty(S, t) + Qty(T, t) - c
    BY <1>1, <1>4, FS_Union DEF Qty
  <1>6. c = 0
    BY <1>3
  <1> HIDE DEF c
  <1> QED
    BY <1>4, <1>5, <1>6

LEMMA QtySubtracts ==
  ASSUME NEW S \in SUBSET Orders, NEW T \in SUBSET S, NEW t \in Tiers
  PROVE  Qty(S \ T, t) = Qty(S, t) - Qty(T, t)
  <1>1. S = (S \ T) \cup T
    OBVIOUS
  <1>2. Qty(S, t) = Qty(S \ T, t) + Qty(T, t)
    BY <1>1, QtyAdds
  <1> QED
    BY <1>2, LinesFinite

LEMMA QtyOfNobody == \A t \in Tiers : Qty({}, t) = 0
  BY FS_EmptySet DEF Qty, Lines

-----------------------------------------------------------------------------
(* The shape of the state.  A payment.sync job takes the status of the     *)
(* charge for its own, so every trace of a charge must mean there is one.  *)

CopyRows == [status : Statuses, attached : BOOLEAN]
OrderRows == [status : Statuses, confirmed : BOOLEAN, lapsed : BOOLEAN, attached : BOOLEAN]

ChargeTrace(o) ==
    \/ order[o].attached
    \/ copy[o].attached
    \/ order[o].status = "paid"
    \/ notice[o]
    \/ <<"payment.sync", o>> \in owed
    \/ call[o]["payment.sync"] # "idle"
    \/ call[o]["charge.create"] = "fetch"
    \/ \E job \in Jobs : call[o][job] \in ChargeStatuses

TraceOfCharge == \A o \in Orders : ChargeTrace(o) => charge[o] # "none"

Shape == TypeOK /\ TraceOfCharge

LEMMA InitShape == Init => Shape
  <1> SUFFICES ASSUME Init PROVE Shape
    OBVIOUS
  <1>1. order \in [Orders -> OrderRows] /\ \A o \in Orders : order[o].status = "none" /\ ~order[o].attached
    BY DEF Init, OrderRows, Statuses
  <1>2. tier \in [Tiers -> TierRows]
    BY SalesAssumption DEF Init, TierRows
  <1>3. seat \in [Seats -> [status : {"available", "held", "sold", "blocked"}, holder : Orders \cup {NoOrder}]]
    BY DEF Init
  <1>4. call \in [Orders -> [Jobs -> Stages]] /\ \A o \in Orders : \A job \in Jobs : call[o][job] = "idle"
    BY DEF Init, Stages
  <1>5. TypeOK
    <2>1. /\ admission \in [Orders -> {"none", "issued", "void"}]
          /\ ledger \in [Orders -> {"none", "accrued", "reversed"}]
          /\ owed \subseteq Jobs \X Orders /\ parked \subseteq Jobs \X Orders
          /\ notice \in [Orders -> BOOLEAN] /\ over \in BOOLEAN
      BY DEF Init
    <2>2. failures \in 0 .. MaxFailures
      BY SalesAssumption DEF Init
    <2>3. "none" \in ChargeWords
      BY DEF ChargeWords
    <2>4. charge \in [Orders -> ChargeWords]
      BY <2>3 DEF Init
    <2>5. copy \in [Orders -> [status : Statuses, attached : BOOLEAN]]
      BY DEF Init, NoCopy, Statuses
    <2> QED
      BY ONLY <1>1, <1>2, <1>3, <1>4, <2>1, <2>2, <2>4, <2>5 DEF TypeOK, OrderRows
  <1>6. TraceOfCharge
    BY <1>1, <1>4 DEF Init, TraceOfCharge, ChargeTrace, ChargeStatuses, NoCopy, Jobs
  <1> QED
    BY <1>5, <1>6 DEF Shape

(* One conversation moves, the others stay.                                *)
LEMMA ReachTypes ==
  ASSUME TypeOK, NEW o \in Orders, NEW job \in Jobs, NEW stage \in Stages, Reach(o, job, stage)
  PROVE  /\ call' \in [Orders -> [Jobs -> Stages]]
         /\ call'[o][job] = stage
         /\ \A p \in Orders : \A other \in Jobs :
              <<p, other>> # <<o, job>> => call'[p][other] = call[p][other]
  BY DEF TypeOK, Reach

(* The counters after each movement.                                       *)
LEMMA ReserveTypes ==
  ASSUME TypeOK, NEW o \in Orders, Reserve(o)
  PROVE  /\ tier' \in [Tiers -> TierRows]
         /\ \A t \in Tiers : /\ tier'[t].quantity = tier[t].quantity
                             /\ tier'[t].reserved = tier[t].reserved + Qty({o}, t)
                             /\ tier'[t].sold = tier[t].sold
  <1>1. tier' = [t \in Tiers |-> tier'[t]]
    BY DEF Reserve
  <1>2. ASSUME NEW t \in Tiers
        PROVE  /\ tier'[t] \in TierRows
               /\ tier'[t].quantity = tier[t].quantity
               /\ tier'[t].reserved = tier[t].reserved + Qty({o}, t)
               /\ tier'[t].sold = tier[t].sold
    <2>1. tier[t] \in TierRows /\ Qty({o}, t) \in Nat
      BY LinesFinite DEF TypeOK
    <2> QED
      BY <2>1 DEF TierRows, Reserve
  <1> QED
    BY <1>1, <1>2

LEMMA ReleaseTypes ==
  ASSUME TypeOK, NEW S \in SUBSET Orders, Release(S)
  PROVE  /\ tier' \in [Tiers -> TierRows]
         /\ \A t \in Tiers : /\ tier'[t].quantity = tier[t].quantity
                             /\ tier'[t].reserved = tier[t].reserved - Qty(S, t)
                             /\ tier'[t].sold = tier[t].sold
  <1>1. tier' = [t \in Tiers |-> tier'[t]]
    BY DEF Release
  <1>2. ASSUME NEW t \in Tiers
        PROVE  /\ tier'[t] \in TierRows
               /\ tier'[t].quantity = tier[t].quantity
               /\ tier'[t].reserved = tier[t].reserved - Qty(S, t)
               /\ tier'[t].sold = tier[t].sold
    <2>1. tier[t] \in TierRows /\ Qty(S, t) \in Nat
      BY LinesFinite DEF TypeOK
    <2> QED
      BY <2>1 DEF TierRows, Release
  <1> QED
    BY <1>1, <1>2

LEMMA CommitTypes ==
  ASSUME TypeOK, NEW o \in Orders, Commit(o)
  PROVE  /\ tier' \in [Tiers -> TierRows]
         /\ \A t \in Tiers : /\ tier'[t].quantity = tier[t].quantity
                             /\ tier'[t].reserved = tier[t].reserved - Qty({o}, t)
                             /\ tier'[t].sold = tier[t].sold + Qty({o}, t)
  <1>1. tier' = [t \in Tiers |-> tier'[t]]
    BY DEF Commit
  <1>2. ASSUME NEW t \in Tiers
        PROVE  /\ tier'[t] \in TierRows
               /\ tier'[t].quantity = tier[t].quantity
               /\ tier'[t].reserved = tier[t].reserved - Qty({o}, t)
               /\ tier'[t].sold = tier[t].sold + Qty({o}, t)
    <2>1. tier[t] \in TierRows /\ Qty({o}, t) \in Nat
      BY LinesFinite DEF TypeOK
    <2>2. tier[t].reserved - Qty({o}, t) \in Nat /\ tier[t].sold + Qty({o}, t) \in Nat
      <3>1. tier[t].reserved \in Nat /\ tier[t].sold \in Nat
        BY <2>1 DEF TierRows
      <3>2. tier[t].reserved >= Qty({o}, t)
        BY DEF Commit
      <3> QED
        BY <2>1, <3>1, <3>2
    <2>3. tier'[t] = [tier[t] EXCEPT !.reserved = @ - Qty({o}, t), !.sold = @ + Qty({o}, t)]
      BY DEF Commit
    <2> QED
      BY <2>1, <2>2, <2>3 DEF TierRows
  <1> QED
    BY <1>1, <1>2

LEMMA ReserveAndCommitTypes ==
  ASSUME TypeOK, NEW o \in Orders, ReserveAndCommit(o)
  PROVE  /\ tier' \in [Tiers -> TierRows]
         /\ \A t \in Tiers : /\ tier'[t].quantity = tier[t].quantity
                             /\ tier'[t].reserved = tier[t].reserved
                             /\ tier'[t].sold = tier[t].sold + Qty({o}, t)
  <1>1. tier' = [t \in Tiers |-> tier'[t]]
    BY DEF ReserveAndCommit
  <1>2. ASSUME NEW t \in Tiers
        PROVE  /\ tier'[t] \in TierRows
               /\ tier'[t].quantity = tier[t].quantity
               /\ tier'[t].reserved = tier[t].reserved
               /\ tier'[t].sold = tier[t].sold + Qty({o}, t)
    <2>1. tier[t] \in TierRows /\ Qty({o}, t) \in Nat
      BY LinesFinite DEF TypeOK
    <2> QED
      BY <2>1 DEF TierRows, ReserveAndCommit
  <1> QED
    BY <1>1, <1>2

LEMMA ReleaseSoldTypes ==
  ASSUME TypeOK, NEW o \in Orders, ReleaseSold(o)
  PROVE  /\ tier' \in [Tiers -> TierRows]
         /\ \A t \in Tiers : /\ tier'[t].quantity = tier[t].quantity
                             /\ tier'[t].reserved = tier[t].reserved
                             /\ tier'[t].sold = tier[t].sold - Qty({o}, t)
  <1>1. tier' = [t \in Tiers |-> tier'[t]]
    BY DEF ReleaseSold
  <1>2. ASSUME NEW t \in Tiers
        PROVE  /\ tier'[t] \in TierRows
               /\ tier'[t].quantity = tier[t].quantity
               /\ tier'[t].reserved = tier[t].reserved
               /\ tier'[t].sold = tier[t].sold - Qty({o}, t)
    <2>1. tier[t] \in TierRows /\ Qty({o}, t) \in Nat
      BY LinesFinite DEF TypeOK
    <2>2. tier[t].sold - Qty({o}, t) \in Nat
      <3>1. tier[t].reserved \in Nat /\ tier[t].sold \in Nat
        BY <2>1 DEF TierRows
      <3>2. tier[t].sold >= Qty({o}, t)
        BY DEF ReleaseSold
      <3> QED
        BY <2>1, <3>1, <3>2
    <2>3. tier'[t] = [tier[t] EXCEPT !.sold = @ - Qty({o}, t)]
      BY DEF ReleaseSold
    <2> QED
      BY <2>1, <2>2, <2>3 DEF TierRows
  <1> QED
    BY <1>1, <1>2

(* The chairs after each movement.                                         *)
SeatRows == [status : {"available", "held", "sold", "blocked"}, holder : Orders \cup {NoOrder}]

LEMMA ClaimSeatsTypes ==
  ASSUME TypeOK, NEW o \in Orders, NEW to \in {"held", "sold"}, ClaimSeats(o, to)
  PROVE  seat' \in [Seats -> SeatRows]
  BY DEF TypeOK, SeatRows, ClaimSeats

LEMMA MoveSeatsTypes ==
  ASSUME TypeOK, NEW S \in SUBSET Orders, NEW from, NEW to \in {"available", "sold"},
         MoveSeats(S, from, to)
  PROVE  seat' \in [Seats -> SeatRows]
  BY DEF TypeOK, SeatRows, MoveSeats

(* An order row after its status moved.                                    *)
LEMMA SetStatusTypes ==
  ASSUME TypeOK, NEW S \in SUBSET Orders, NEW status \in Statuses, SetStatus(S, status)
  PROVE  /\ order' \in [Orders -> OrderRows]
         /\ \A o \in Orders : /\ order'[o].status = IF o \in S THEN status ELSE order[o].status
                              /\ order'[o].attached = order[o].attached
  <1>1. order' = [o \in Orders |-> order'[o]]
    BY DEF SetStatus
  <1>2. ASSUME NEW o \in Orders
        PROVE  /\ order'[o] \in OrderRows
               /\ order'[o].status = IF o \in S THEN status ELSE order[o].status
               /\ order'[o].attached = order[o].attached
    <2>1. order[o] \in OrderRows
      BY DEF TypeOK, OrderRows
    <2> QED
      BY <2>1 DEF OrderRows, SetStatus
  <1> QED
    BY <1>1, <1>2

-----------------------------------------------------------------------------
(* Shape, action by action.                                                *)

LEMMA TraceKept ==
  ASSUME TraceOfCharge,
         \A o \in Orders : ChargeTrace(o)' => ChargeTrace(o) \/ charge'[o] # "none",
         \A o \in Orders : charge[o] # "none" => charge'[o] # "none"
  PROVE  TraceOfCharge'
  BY DEF TraceOfCharge

LEMMA StartShape ==
  ASSUME Shape, NEW o \in Orders, NEW confirm \in BOOLEAN, Start(o, confirm)
  PROVE  Shape'
  <1>1. /\ order' \in [Orders -> OrderRows]
        /\ order'[o] = NewOrder(confirm)
        /\ \A p \in Orders \ {o} : order'[p] = order[p]
    BY DEF Start, Shape, TypeOK, OrderRows, NewOrder, Statuses
  <1>2. tier' \in [Tiers -> TierRows]
    BY ReserveTypes DEF Start, Shape
  <1>3. seat' \in [Seats -> SeatRows]
    BY ClaimSeatsTypes DEF Start, Shape
  <1>4. owed' \subseteq Jobs \X Orders
    BY DEF Start, Shape, TypeOK, Jobs
  <1>5. UNCHANGED <<admission, ledger, parked, call, failures, charge, notice, copy, over>>
    BY DEF Start, books, provider
  <1>6. TypeOK'
    BY <1>1, <1>2, <1>3, <1>4, <1>5 DEF Shape, TypeOK, OrderRows, SeatRows
  <1>7. ~order'[o].attached /\ order'[o].status = "pending_payment"
    BY <1>1 DEF NewOrder
  <1>8. \A p \in Orders : <<"payment.sync", p>> \in owed' => <<"payment.sync", p>> \in owed
    BY DEF Start
  <1>9. ASSUME NEW p \in Orders, ChargeTrace(p)' PROVE ChargeTrace(p)
    <2>1. CASE p = o
      BY <1>5, <1>7, <1>8, <1>9, <2>1 DEF ChargeTrace
    <2>2. CASE p # o
      BY <1>1, <1>5, <1>8, <1>9, <2>2 DEF ChargeTrace
    <2> QED
      BY <2>1, <2>2
  <1> QED
    BY <1>5, <1>6, <1>9, TraceKept DEF Shape

(* Confirm, Lapse: one flag of one order row.                              *)
LEMMA FlagShape ==
  ASSUME Shape, NEW o \in Orders, Confirm(o) \/ Lapse(o)
  PROVE  Shape'
  <1>0. order[o] \in OrderRows
    BY DEF Shape, TypeOK, OrderRows
  <1>1. [order[o] EXCEPT !.confirmed = TRUE] \in OrderRows /\ [order[o] EXCEPT !.lapsed = TRUE] \in OrderRows
    BY <1>0 DEF OrderRows
  <1>2. order' \in [Orders -> OrderRows]
    BY <1>1, ZenonT(60) DEF Confirm, Lapse, Shape, TypeOK, OrderRows
  <1>3. \A p \in Orders : order'[p].status = order[p].status /\ order'[p].attached = order[p].attached
    <2>1. order'[o] \in {[order[o] EXCEPT !.confirmed = TRUE], [order[o] EXCEPT !.lapsed = TRUE]}
      BY DEF Confirm, Lapse, Shape, TypeOK
    <2>2. order'[o].status = order[o].status /\ order'[o].attached = order[o].attached
      BY <1>0, <2>1 DEF OrderRows
    <2>3. \A p \in Orders \ {o} : order'[p] = order[p]
      BY DEF Confirm, Lapse, Shape, TypeOK
    <2> QED
      BY <2>2, <2>3
  <1>4. /\ UNCHANGED <<tier, seat, admission, ledger, parked, call, failures, charge, notice, copy, over>>
        /\ owed' \subseteq Jobs \X Orders
        /\ \A p \in Orders : <<"payment.sync", p>> \in owed' => <<"payment.sync", p>> \in owed
    BY DEF Confirm, Lapse, inventory, books, work, provider, Shape, TypeOK, Jobs
  <1>5. TypeOK'
    BY <1>2, <1>4 DEF Shape, TypeOK, OrderRows
  <1>6. TraceOfCharge'
    BY <1>3, <1>4, TraceKept DEF Shape, ChargeTrace
  <1> QED
    BY <1>5, <1>6 DEF Shape

(* A hold ends: its status, its counters and its chairs.                   *)
LEMMA LetGoShape ==
  ASSUME Shape, NEW S \in SUBSET Orders, NEW status \in Statuses \ {"paid"},
         SetStatus(S, status), Release(S), ReleaseForOrder(S),
         UNCHANGED <<admission, ledger, parked, call, failures, charge, notice, copy, over>>,
         owed' \subseteq Jobs \X Orders,
         \A p \in Orders : <<"payment.sync", p>> \in owed' => <<"payment.sync", p>> \in owed
  PROVE  Shape'
  <1>1. order' \in [Orders -> OrderRows]
    BY SetStatusTypes DEF Shape
  <1>2. \A p \in Orders : /\ order'[p].attached = order[p].attached
                          /\ order'[p].status = "paid" => order[p].status = "paid"
    <2>1. \A p \in Orders : /\ order'[p].status = IF p \in S THEN status ELSE order[p].status
                            /\ order'[p].attached = order[p].attached
      BY SetStatusTypes DEF Shape
    <2> HIDE DEF Statuses
    <2>2. status # "paid"
      OBVIOUS
    <2> QED
      BY ONLY <2>1, <2>2
  <1>3. tier' \in [Tiers -> TierRows]
    BY ReleaseTypes DEF Shape
  <1>4. seat' \in [Seats -> SeatRows]
    BY MoveSeatsTypes DEF Shape, ReleaseForOrder
  <1>5. TypeOK'
    BY <1>1, <1>3, <1>4 DEF Shape, TypeOK, OrderRows, SeatRows
  <1>6. TraceOfCharge'
    BY <1>2, TraceKept DEF Shape, ChargeTrace
  <1> QED
    BY <1>5, <1>6 DEF Shape

LEMMA CancelShape ==
  ASSUME Shape, NEW o \in Orders, Cancel(o)
  PROVE  Shape'
  BY LetGoShape DEF Cancel, Statuses, books, work, provider, Shape, TypeOK

LEMMA ExpireHoldsShape ==
  ASSUME Shape, NEW S \in SUBSET Orders, ExpireHolds(S)
  PROVE  Shape'
  <1>1. /\ owed' \subseteq Jobs \X Orders
        /\ \A p \in Orders : <<"payment.sync", p>> \in owed' => <<"payment.sync", p>> \in owed
    BY DEF ExpireHolds, VoidsFor, Shape, TypeOK, Jobs
  <1> QED
    BY <1>1, LetGoShape DEF ExpireHolds, Statuses, books, provider

LEMMA OrganiserShape ==
  ASSUME Shape,
         \/ \E t \in Tiers : \E edition \in Editions : EditTier(t, edition)
         \/ \E s \in Seats : Block(s) \/ Unblock(s)
  PROVE  Shape'
  <1>1. tier' \in [Tiers -> TierRows]
    <2>1. ASSUME NEW t \in Tiers, NEW edition \in Editions, EditTier(t, edition)
          PROVE  tier' \in [Tiers -> TierRows]
      <3>1. edition[1] \in Nat /\ edition[2] \in BOOLEAN
        BY SalesAssumption
      <3>2. [tier[t] EXCEPT !.quantity = edition[1], !.onSale = edition[2]] \in TierRows
        <4>1. tier[t] \in TierRows
          BY DEF Shape, TypeOK
        <4> QED
          BY <3>1, <4>1 DEF TierRows
      <3>3. tier' = [tier EXCEPT ![t] = [tier[t] EXCEPT !.quantity = edition[1], !.onSale = edition[2]]]
        BY <2>1 DEF EditTier, Shape, TypeOK
      <3> QED
        BY <3>2, <3>3 DEF Shape, TypeOK
    <2> QED
      BY <2>1 DEF Block, Unblock, Shape, TypeOK
  <1>2. seat' \in [Seats -> SeatRows]
    <2>1. ASSUME NEW s \in Seats, NEW status \in {"available", "blocked"},
                 seat' = [seat EXCEPT ![s].status = status]
          PROVE  seat' \in [Seats -> SeatRows]
      <3>1. seat[s] \in SeatRows
        BY DEF Shape, TypeOK, SeatRows
      <3>2. [seat[s] EXCEPT !.status = status] \in SeatRows
        BY <3>1 DEF SeatRows
      <3> QED
        BY <2>1, <3>2 DEF Shape, TypeOK, SeatRows
    <2> QED
      BY <2>1 DEF EditTier, Block, Unblock, Shape, TypeOK, SeatRows
  <1>3. UNCHANGED <<order, admission, ledger, owed, parked, call, failures, charge, notice, copy, over>>
    BY DEF EditTier, Block, Unblock, books, work, provider
  <1>4. TypeOK'
    BY <1>1, <1>2, <1>3 DEF Shape, TypeOK, SeatRows
  <1>5. TraceOfCharge'
    BY <1>3, TraceKept DEF Shape, ChargeTrace
  <1> QED
    BY <1>4, <1>5 DEF Shape

(* Everything else outside settlement leaves the sale itself alone.        *)
LEMMA AloneShape ==
  ASSUME Shape, UNCHANGED <<order, tier, seat, admission, ledger>>,
         copy' \in [Orders -> CopyRows],
         owed' \subseteq Jobs \X Orders, parked' \subseteq Jobs \X Orders,
         call' \in [Orders -> [Jobs -> Stages]],
         charge' \in [Orders -> ChargeWords],
         notice' \in [Orders -> BOOLEAN], failures' \in 0 .. MaxFailures, over' \in BOOLEAN,
         TraceOfCharge'
  PROVE  Shape'
  BY DEF Shape, TypeOK, CopyRows

LEMMA ScheduleShape ==
  ASSUME Shape, NEW o \in Orders, NEW job \in Jobs, Schedule(job, o),
         job = "payment.sync" => charge[o] # "none",
         notice' \in [Orders -> BOOLEAN], \A p \in Orders : notice'[p] => notice[p],
         UNCHANGED <<order, tier, seat, admission, ledger, parked, call, failures, charge, copy, over>>
  PROVE  Shape'
  <1>1. owed' = owed \cup {<<job, o>>}
    BY DEF Schedule
  <1>2. TraceOfCharge'
    BY <1>1, TraceKept DEF Shape, ChargeTrace
  <1> QED
    BY <1>1, <1>2, AloneShape DEF Shape, TypeOK, CopyRows

LEMMA AnnouncementShape ==
  ASSUME Shape, NEW o \in Orders,
         Webhook(o) \/ Reconcile(o) \/ AuditSettled(o) \/ RequestRefund(o)
  PROVE  Shape'
  <1>1. CASE Webhook(o)
    <2>1. notice' \in [Orders -> BOOLEAN] /\ \A p \in Orders : notice'[p] => notice[p]
      BY <1>1 DEF Webhook, Shape, TypeOK
    <2>2. charge[o] # "none"
      BY <1>1 DEF Webhook, Shape, TraceOfCharge, ChargeTrace
    <2> QED
      BY <1>1, <2>1, <2>2, ScheduleShape DEF Webhook, inventory, books, Jobs
  <1>2. CASE Reconcile(o) \/ AuditSettled(o) \/ RequestRefund(o)
    <2>1. notice' \in [Orders -> BOOLEAN] /\ \A p \in Orders : notice'[p] => notice[p]
      BY <1>2 DEF Reconcile, AuditSettled, RequestRefund, provider, Shape, TypeOK
    <2>2. PICK job \in Jobs : Schedule(job, o) /\ (job = "payment.sync" => order[o].attached \/ order[o].status = "paid")
      BY <1>2 DEF Reconcile, AuditSettled, RequestRefund, Jobs
    <2>3. job = "payment.sync" => charge[o] # "none"
      BY <2>2 DEF Shape, TraceOfCharge, ChargeTrace
    <2> QED
      BY <1>2, <2>1, <2>2, <2>3, ScheduleShape
         DEF Reconcile, AuditSettled, RequestRefund, inventory, books, provider
  <1> QED
    BY <1>1, <1>2

(* What a charge that exists reads as.                                     *)
LEMMA ReadTypes ==
  ASSUME NEW word \in ChargeWords
  PROVE  /\ word # "none" => MapStatus(word) \in ChargeStatuses /\ MapStatus(word) \in Stages
         /\ MapStatus(word) = "none" <=> word = "none"
  BY DEF MapStatus, ChargeWords, ChargeStatuses, UnderReview, Stages

LEMMA ChargeBecomesTypes ==
  ASSUME TypeOK, NEW o \in Orders, NEW status \in ChargeWords \ {"none"}, ChargeBecomes(o, status)
  PROVE  /\ charge' \in [Orders -> ChargeWords]
         /\ notice' \in [Orders -> BOOLEAN]
         /\ charge'[o] = status /\ status # "none"
         /\ \A p \in Orders \ {o} : charge'[p] = charge[p] /\ notice'[p] = notice[p]
         /\ \A p \in Orders : charge[p] # "none" => charge'[p] # "none"
         /\ \A p \in Orders : notice'[p] => notice[p] \/ charge'[p] # "none"
  BY DEF TypeOK, ChargeBecomes

LEMMA ProviderShape ==
  ASSUME Shape, NEW o \in Orders, ProviderMoves(o) \/ WebhookLost(o)
  PROVE  Shape'
  <1>1. UNCHANGED <<order, tier, seat, admission, ledger, owed, parked, call, failures, copy, over>>
    BY DEF ProviderMoves, WebhookLost, inventory, books, work
  <1>2. /\ charge' \in [Orders -> ChargeWords]
        /\ notice' \in [Orders -> BOOLEAN]
        /\ \A p \in Orders : charge[p] # "none" => charge'[p] # "none"
        /\ \A p \in Orders : notice'[p] => notice[p] \/ charge'[p] # "none"
    <2>1. CASE ProviderMoves(o)
      <3>1. PICK status \in ChargeWords \ {"none"} : ChargeBecomes(o, status)
        BY <2>1 DEF ProviderMoves, ChargeWords, ChargeStatuses, UnderReview
      <3> QED
        BY <3>1, ChargeBecomesTypes DEF Shape
    <2>2. CASE WebhookLost(o)
      BY <2>2 DEF WebhookLost, Shape, TypeOK
    <2> QED
      BY <2>1, <2>2
  <1>3. TraceOfCharge'
    BY <1>1, <1>2, TraceKept DEF Shape, ChargeTrace
  <1> QED
    BY <1>1, <1>2, <1>3, AloneShape DEF Shape, TypeOK, CopyRows

(* An entry of the cache copies the row, so it too names a real charge.    *)
LEMMA CopyShape ==
  ASSUME Shape, NEW o \in Orders, Poll(o) \/ CopyExpires(o)
  PROVE  Shape'
  <1>1. /\ UNCHANGED <<order, tier, seat, admission, ledger, owed, parked, call, failures, charge, notice, over>>
        /\ copy' = [copy EXCEPT ![o] = Row(o)] \/ copy' = [copy EXCEPT ![o] = NoCopy]
    BY DEF Poll, CopyExpires, inventory, books, work, provider
  <1>2. Row(o) \in CopyRows /\ NoCopy \in CopyRows /\ Row(o).attached = order[o].attached /\ ~NoCopy.attached
    BY DEF Row, NoCopy, CopyRows, Statuses, Shape, TypeOK
  <1>3. copy' \in [Orders -> CopyRows]
    BY <1>1, <1>2, ZenonT(60) DEF Shape, TypeOK, CopyRows
  <1>4. \A p \in Orders : copy'[p].attached => copy[p].attached \/ order[p].attached
    BY <1>1, <1>2 DEF Shape, TypeOK
  <1>5. TraceOfCharge'
    BY <1>1, <1>4, TraceKept DEF Shape, ChargeTrace
  <1> QED
    BY <1>1, <1>3, <1>5, AloneShape DEF Shape, TypeOK

LEMMA BeginShape ==
  ASSUME Shape, NEW o \in Orders, NEW job \in Jobs, Begin(o, job)
  PROVE  Shape'
  <1> DEFINE stage == FirstStage(o, job)
  <1>1. /\ UNCHANGED <<order, tier, seat, admission, ledger, failures, charge, notice, copy, over>>
        /\ parked' \subseteq parked \cup {<<job, o>>}
        /\ owed' \subseteq owed /\ <<job, o>> \in owed /\ Reach(o, job, stage)
    BY DEF Begin, inventory, books, provider
  <1>2. /\ stage \in Stages
        /\ stage \in ChargeStatuses \cup {"fetch"} \/ job = "payment.sync" => charge[o] # "none"
    <2>1. charge[o] \in ChargeWords
      BY DEF Shape, TypeOK
    <2>2. job = "payment.sync" => charge[o] # "none"
      BY <1>1 DEF Shape, TraceOfCharge, ChargeTrace
    <2>3. Seen(o).attached => charge[o] # "none"
      BY DEF Seen, Row, Shape, TraceOfCharge, ChargeTrace
    <2> QED
      BY <2>1, <2>2, <2>3, ReadTypes DEF FirstStage, Jobs, Stages, ChargeStatuses
  <1> HIDE DEF stage
  <1>3. /\ call' \in [Orders -> [Jobs -> Stages]]
        /\ call'[o][job] = stage
        /\ \A p \in Orders : \A other \in Jobs :
             <<p, other>> # <<o, job>> => call'[p][other] = call[p][other]
    BY <1>1, <1>2, ReachTypes DEF Shape
  <1>4. ASSUME NEW p \in Orders, ChargeTrace(p)' PROVE ChargeTrace(p) \/ charge[p] # "none"
    <2>1. CASE p # o
      BY <1>1, <1>3, <1>4, <2>1 DEF ChargeTrace, Jobs
    <2>2. CASE p = o
      BY <1>1, <1>2, <1>3, <1>4, <2>2 DEF ChargeTrace, Jobs
    <2> QED
      BY <2>1, <2>2
  <1>5. TraceOfCharge'
    BY <1>1, <1>4, TraceKept DEF Shape
  <1> QED
    BY <1>1, <1>3, <1>5, AloneShape DEF Shape, TypeOK, CopyRows

(* A conversation of an order with a charge moves; whatever it leaves in   *)
(* its place is a trace of a charge that exists.                           *)
LEMMA ConversationShape ==
  ASSUME Shape, NEW o \in Orders, NEW job \in Jobs, NEW stage \in Stages, Reach(o, job, stage),
         UNCHANGED <<order, tier, seat, admission, ledger, copy, over>>,
         owed' \subseteq Jobs \X Orders, parked' \subseteq Jobs \X Orders,
         charge' \in [Orders -> ChargeWords],
         notice' \in [Orders -> BOOLEAN], failures' \in 0 .. MaxFailures,
         \A p \in Orders : charge[p] # "none" => charge'[p] # "none",
         \A p \in Orders : notice'[p] => notice[p] \/ charge'[p] # "none",
         \A p \in Orders : <<"payment.sync", p>> \in owed' => <<"payment.sync", p>> \in owed \/ charge'[p] # "none",
         stage # "idle" => charge'[o] # "none"
  PROVE  Shape'
  <1>1. /\ call' \in [Orders -> [Jobs -> Stages]]
        /\ call'[o][job] = stage
        /\ \A p \in Orders : \A other \in Jobs :
             <<p, other>> # <<o, job>> => call'[p][other] = call[p][other]
    BY ReachTypes DEF Shape
  <1>2. ASSUME NEW p \in Orders, ChargeTrace(p)' PROVE ChargeTrace(p) \/ charge'[p] # "none"
    <2>1. CASE p # o
      BY <1>1, <1>2, <2>1 DEF ChargeTrace, Jobs
    <2>2. CASE p = o
      BY <1>1, <1>2, <2>2 DEF ChargeTrace, Jobs, ChargeStatuses
    <2> QED
      BY <2>1, <2>2
  <1>3. TraceOfCharge'
    BY <1>2, TraceKept DEF Shape
  <1> QED
    BY <1>1, <1>3, AloneShape DEF Shape, TypeOK, CopyRows

LEMMA CreateChargeShape ==
  ASSUME Shape, NEW o \in Orders, CreateCharge(o)
  PROVE  Shape'
  <1>1. UNCHANGED <<order, tier, seat, admission, ledger, owed, parked, failures, copy, over>>
    BY DEF CreateCharge, inventory, books
  <1>2. charge[o] \in ChargeWords
    BY DEF Shape, TypeOK
  <1>3. CASE charge[o] = "none"
    <2>1. PICK status \in {"pending", "paid", "rejected"} :
            ChargeBecomes(o, status) /\ Reach(o, "charge.create", status)
      BY <1>3 DEF CreateCharge
    <2>2. status \in ChargeWords \ {"none"} /\ status \in Stages /\ "charge.create" \in Jobs
      BY DEF ChargeWords, ChargeStatuses, Stages, Jobs
    <2> QED
      BY <1>1, <2>1, <2>2, ChargeBecomesTypes, ConversationShape DEF Shape, TypeOK
  <1>4. CASE charge[o] # "none"
    <2>1. /\ Reach(o, "charge.create", MapStatus(charge[o])) /\ UNCHANGED <<charge, notice>>
          /\ MapStatus(charge[o]) \in Stages /\ "charge.create" \in Jobs
      BY <1>2, <1>4, ReadTypes DEF CreateCharge, provider, Jobs
    <2> QED
      BY <1>1, <1>4, <2>1, ConversationShape DEF Shape, TypeOK
  <1> QED
    BY <1>3, <1>4

LEMMA FetchChargeShape ==
  ASSUME Shape, NEW o \in Orders, FetchCharge(o)
  PROVE  Shape'
  <1>1. /\ UNCHANGED <<order, tier, seat, admission, ledger, owed, parked, failures, charge, notice, copy, over>>
        /\ Reach(o, "charge.create", MapStatus(charge[o]))
    BY DEF FetchCharge, inventory, books, provider
  <1>2. charge[o] # "none"
    BY DEF FetchCharge, Shape, TraceOfCharge, ChargeTrace
  <1>3. MapStatus(charge[o]) \in Stages /\ "charge.create" \in Jobs
    BY <1>2, ReadTypes DEF Shape, TypeOK, Jobs
  <1> QED
    BY <1>1, <1>2, <1>3, ConversationShape DEF Shape, TypeOK

LEMMA CancelChargeShape ==
  ASSUME Shape, NEW o \in Orders, CancelCharge(o)
  PROVE  Shape'
  <1>1. /\ UNCHANGED <<order, tier, seat, admission, ledger, owed, failures, copy, over>>
        /\ Reach(o, "charge.cancel", "idle") /\ "charge.cancel" \in Jobs /\ "idle" \in Stages
        /\ parked' \subseteq Jobs \X Orders
    BY DEF CancelCharge, inventory, books, Jobs, Stages, Shape, TypeOK
  <1>2. CASE ChargeBecomes(o, "cancelled")
    <2>1. "cancelled" \in ChargeWords \ {"none"}
      BY DEF ChargeWords, ChargeStatuses
    <2> QED
      BY <1>1, <1>2, <2>1, ChargeBecomesTypes, ConversationShape DEF Shape, TypeOK
  <1>3. CASE UNCHANGED <<charge, notice>>
    BY <1>1, <1>3, ConversationShape DEF Shape, TypeOK
  <1> QED
    BY <1>2, <1>3 DEF CancelCharge, provider

LEMMA RefundChargeShape ==
  ASSUME Shape, NEW o \in Orders, RefundCharge(o)
  PROVE  Shape'
  <1>1. /\ UNCHANGED <<order, tier, seat, admission, ledger, owed, failures, copy, over>>
        /\ parked' \subseteq Jobs \X Orders
        /\ "charge.refund" \in Jobs /\ "idle" \in Stages
    BY DEF RefundCharge, inventory, books, Jobs, Stages, Shape, TypeOK
  <1>2. ASSUME NEW status \in {"refunded", "refund_requested"},
               ChargeBecomes(o, status), Reach(o, "charge.refund", MapStatus(status))
        PROVE  Shape'
    <2>1. status \in ChargeWords \ {"none"}
      BY DEF ChargeWords, ChargeStatuses, UnderReview
    <2>2. MapStatus(status) \in Stages
      BY <2>1, ReadTypes
    <2> QED
      BY <1>1, <1>2, <2>1, <2>2, ChargeBecomesTypes, ConversationShape DEF Shape, TypeOK
  <1>3. CASE /\ charge[o] \in {"refund_requested", "refunded"} /\ Reach(o, "charge.refund", MapStatus(charge[o]))
             /\ UNCHANGED <<charge, notice>>
    <2>1. MapStatus(charge[o]) \in Stages
      BY <1>3, ReadTypes DEF Shape, TypeOK
    <2> QED
      BY <1>1, <1>3, <2>1, ConversationShape DEF Shape, TypeOK
  <1>4. CASE Reach(o, "charge.refund", "idle") /\ UNCHANGED <<charge, notice>>
    BY <1>1, <1>4, ConversationShape DEF Shape, TypeOK
  <1> QED
    BY <1>2, <1>3, <1>4 DEF RefundCharge, provider

(* The event's date moves, and nothing with it.                            *)
LEMMA DateShape ==
  ASSUME Shape, DateMoves
  PROVE  Shape'
  <1>1. /\ UNCHANGED <<order, tier, seat, admission, ledger, owed, parked, call, failures, charge, notice, copy>>
        /\ over' \in BOOLEAN
    BY DEF DateMoves, inventory, books, work, provider, Shape, TypeOK
  <1>2. TraceOfCharge'
    BY <1>1, TraceKept DEF Shape, ChargeTrace
  <1> QED
    BY <1>1, <1>2, AloneShape DEF Shape, TypeOK, CopyRows

LEMMA AttemptFailsShape ==
  ASSUME Shape, NEW o \in Orders, NEW job \in Jobs, AttemptFails(o, job)
  PROVE  Shape'
  <1>1. /\ UNCHANGED <<order, tier, seat, admission, ledger, parked, charge, notice, copy, over>>
        /\ Reach(o, job, "idle") /\ "idle" \in Stages
        /\ owed' \subseteq Jobs \X Orders
    BY DEF AttemptFails, inventory, books, provider, Stages, Shape, TypeOK
  <1>2. failures' \in 0 .. MaxFailures
    BY SalesAssumption DEF AttemptFails, Shape, TypeOK
  <1>3. job = "payment.sync" => charge[o] # "none"
    BY DEF AttemptFails, Shape, TraceOfCharge, ChargeTrace
  <1>4. \A p \in Orders : <<"payment.sync", p>> \in owed' => <<"payment.sync", p>> \in owed \/ charge[p] # "none"
    BY <1>3 DEF AttemptFails
  <1> QED
    BY <1>1, <1>2, <1>4, ConversationShape DEF Shape, TypeOK

LEMMA JobParksShape ==
  ASSUME Shape, NEW o \in Orders, NEW job \in Jobs, JobParks(o, job)
  PROVE  Shape'
  <1>1. /\ UNCHANGED <<order, tier, seat, admission, ledger, call, charge, notice, copy, over>>
        /\ owed' \subseteq owed /\ parked' \subseteq Jobs \X Orders
    BY DEF JobParks, inventory, books, provider, Shape, TypeOK
  <1>2. failures' \in 0 .. MaxFailures
    BY SalesAssumption DEF JobParks, Shape, TypeOK
  <1>3. TraceOfCharge'
    BY <1>1, TraceKept DEF Shape, ChargeTrace
  <1> QED
    BY <1>1, <1>2, <1>3, AloneShape DEF Shape, TypeOK, CopyRows

(* Settlement writes one order row, and each verdict its own stock.        *)
LEMMA AttachTypes ==
  ASSUME TypeOK, NEW o \in Orders, NEW status \in Statuses,
         Attach(o) \/ AttachAndSet(o, status) \/ UNCHANGED order
  PROVE  /\ order' \in [Orders -> OrderRows]
         /\ \A p \in Orders \ {o} : order'[p] = order[p]
  <1>1. order[o] \in OrderRows
    BY DEF TypeOK, OrderRows
  <1>2. /\ [order[o] EXCEPT !.attached = TRUE] \in OrderRows
        /\ [order[o] EXCEPT !.attached = TRUE, !.status = status] \in OrderRows
    BY <1>1 DEF OrderRows
  <1>3. CASE Attach(o)
    BY <1>2, <1>3 DEF Attach, TypeOK, OrderRows
  <1>4. CASE AttachAndSet(o, status)
    <2>1. order' = [order EXCEPT ![o] = [order[o] EXCEPT !.attached = TRUE, !.status = status]]
      BY <1>4 DEF AttachAndSet, TypeOK
    <2> QED
      BY <1>2, <2>1 DEF TypeOK, OrderRows
  <1>5. CASE UNCHANGED order
    BY <1>5 DEF TypeOK, OrderRows
  <1> QED
    BY <1>3, <1>4, <1>5

LEMMA AttachAndSetStatus ==
  ASSUME TypeOK, NEW o \in Orders, NEW status \in Statuses, AttachAndSet(o, status)
  PROVE  \A p \in Orders : order'[p].status = IF p = o THEN status ELSE order[p].status
  <1>1. order[o] \in OrderRows
    BY DEF TypeOK, OrderRows
  <1>2. order' = [order EXCEPT ![o] = [order[o] EXCEPT !.attached = TRUE, !.status = status]]
    BY DEF AttachAndSet, TypeOK
  <1>3. [order[o] EXCEPT !.attached = TRUE, !.status = status].status = status
    BY <1>1 DEF OrderRows
  <1> QED
    BY <1>2, <1>3 DEF TypeOK

LEMMA SettleTypes ==
  ASSUME TypeOK, NEW o \in Orders, NEW news \in ChargeStatuses,
         \/ SettleNoMove(o, news) \/ SettlePaid(o, news) \/ SettleRefundRequired(o, news)
         \/ SettleClosed(o, news) \/ SettleRefunded(o, news)
  PROVE  /\ order' \in [Orders -> OrderRows]
         /\ \A p \in Orders \ {o} : order'[p] = order[p]
         /\ tier' \in [Tiers -> TierRows]
         /\ seat' \in [Seats -> SeatRows]
         /\ admission' \in [Orders -> {"none", "issued", "void"}]
         /\ ledger' \in [Orders -> {"none", "accrued", "reversed"}]
         /\ owed' \subseteq Jobs \X Orders
         /\ \A p \in Orders : <<"payment.sync", p>> \in owed' => <<"payment.sync", p>> \in owed
  <1>0. {"paid", "refund_required", "expired", "failed", "refunded"} \subseteq Statuses
    BY DEF Statuses
  <1>1. CASE SettleNoMove(o, news)
    <2>1. Attach(o) \/ UNCHANGED order
      BY <1>1 DEF SettleNoMove
    <2>2. /\ order' \in [Orders -> OrderRows]
          /\ \A p \in Orders \ {o} : order'[p] = order[p]
      BY <1>0, <2>1, AttachTypes
    <2> QED
      BY <1>1, <2>2 DEF SettleNoMove, inventory, books, TypeOK, SeatRows
  <1>2. CASE SettlePaid(o, news)
    <2>1. /\ order' \in [Orders -> OrderRows]
          /\ \A p \in Orders \ {o} : order'[p] = order[p]
      BY <1>0, <1>2, AttachTypes DEF SettlePaid, Crosses
    <2>2. CASE Commit(o) /\ CommitForOrder(o)
      <3>1. tier' \in [Tiers -> TierRows] /\ seat' \in [Seats -> SeatRows]
        BY <2>2, CommitTypes, MoveSeatsTypes DEF CommitForOrder
      <3> QED
        BY <1>2, <2>1, <3>1 DEF SettlePaid, TypeOK
    <2>3. CASE ReserveAndCommit(o) /\ ClaimSeats(o, "sold")
      <3>1. tier' \in [Tiers -> TierRows] /\ seat' \in [Seats -> SeatRows]
        BY <2>3, ReserveAndCommitTypes, ClaimSeatsTypes
      <3> QED
        BY <1>2, <2>1, <3>1 DEF SettlePaid, TypeOK
    <2> QED
      BY <1>2, <2>2, <2>3 DEF SettlePaid
  <1>3. CASE SettleRefundRequired(o, news)
    <2>1. /\ order' \in [Orders -> OrderRows]
          /\ \A p \in Orders \ {o} : order'[p] = order[p]
      BY <1>0, <1>3, AttachTypes DEF SettleRefundRequired, Crosses
    <2>2. "charge.refund" \in Jobs /\ "charge.refund" # "payment.sync"
      BY DEF Jobs
    <2> QED
      BY <1>3, <2>1, <2>2 DEF SettleRefundRequired, inventory, books, TypeOK, SeatRows
  <1>4. CASE SettleClosed(o, news)
    <2>1. /\ order' \in [Orders -> OrderRows]
          /\ \A p \in Orders \ {o} : order'[p] = order[p]
      BY <1>0, <1>4, AttachTypes DEF SettleClosed, Crosses
    <2>2. tier' \in [Tiers -> TierRows] /\ seat' \in [Seats -> SeatRows]
      BY <1>4, ReleaseTypes, MoveSeatsTypes DEF SettleClosed, ReleaseForOrder
    <2> QED
      BY <1>4, <2>1, <2>2 DEF SettleClosed, books, TypeOK
  <1>5. CASE SettleRefunded(o, news)
    <2>1. /\ order' \in [Orders -> OrderRows]
          /\ \A p \in Orders \ {o} : order'[p] = order[p]
      BY <1>0, <1>5, AttachTypes DEF SettleRefunded, Crosses
    <2>2. tier' \in [Tiers -> TierRows] /\ seat' \in [Seats -> SeatRows]
      <3>1. CASE ReleaseSold(o) /\ ReleaseSoldForOrder(o)
        BY <3>1, ReleaseSoldTypes, MoveSeatsTypes DEF ReleaseSoldForOrder
      <3>2. CASE UNCHANGED inventory
        BY <3>2 DEF inventory, TypeOK, SeatRows
      <3> QED
        BY <1>5, <3>1, <3>2 DEF SettleRefunded
    <2> QED
      BY <1>5, <2>1, <2>2 DEF SettleRefunded, TypeOK
  <1> QED
    BY <1>1, <1>2, <1>3, <1>4, <1>5

LEMMA SettleShape ==
  ASSUME Shape, NEW o \in Orders, NEW job \in Jobs, Settle(o, job)
  PROVE  Shape'
  <1>1. /\ call[o][job] \in ChargeStatuses
        /\ UNCHANGED <<parked, failures, charge, notice, copy, over>>
        /\ Reach(o, job, "idle") /\ "idle" \in Stages
    BY DEF Settle, provider, Stages
  <1>2. /\ order' \in [Orders -> OrderRows]
        /\ \A p \in Orders \ {o} : order'[p] = order[p]
        /\ tier' \in [Tiers -> TierRows]
        /\ seat' \in [Seats -> SeatRows]
        /\ admission' \in [Orders -> {"none", "issued", "void"}]
        /\ ledger' \in [Orders -> {"none", "accrued", "reversed"}]
        /\ owed' \subseteq Jobs \X Orders
        /\ \A p \in Orders : <<"payment.sync", p>> \in owed' => <<"payment.sync", p>> \in owed
    BY <1>1, SettleTypes DEF Settle, Shape
  <1>3. /\ call' \in [Orders -> [Jobs -> Stages]]
        /\ \A p \in Orders \ {o} : \A other \in Jobs : call'[p][other] = call[p][other]
    BY <1>1, ReachTypes DEF Shape
  <1>4. charge[o] # "none"
    BY <1>1 DEF Shape, TraceOfCharge, ChargeTrace
  <1>5. TypeOK'
    BY <1>1, <1>2, <1>3 DEF Shape, TypeOK, OrderRows, SeatRows
  <1>6. ASSUME NEW p \in Orders, ChargeTrace(p)' PROVE ChargeTrace(p) \/ charge[p] # "none"
    <2>1. CASE p = o
      BY <1>4, <2>1
    <2>2. CASE p # o
      BY <1>1, <1>2, <1>3, <1>6, <2>2 DEF ChargeTrace, Jobs
    <2> QED
      BY <2>1, <2>2
  <1>7. TraceOfCharge'
    BY <1>1, <1>6, TraceKept DEF Shape
  <1> QED
    BY <1>5, <1>7 DEF Shape

LEMMA StepShape == Shape /\ [Next]_vars => Shape'
  <1> SUFFICES ASSUME Shape, [Next]_vars PROVE Shape'
    OBVIOUS
  <1>1. ASSUME NEW o \in Orders, NEW confirm \in BOOLEAN, Start(o, confirm) PROVE Shape'
    BY <1>1, StartShape
  <1>2. ASSUME NEW o \in Orders, Confirm(o) \/ Lapse(o) PROVE Shape'
    BY <1>2, FlagShape
  <1>3. ASSUME NEW o \in Orders, Cancel(o) PROVE Shape'
    BY <1>3, CancelShape
  <1>4. ASSUME NEW S \in SUBSET Orders, ExpireHolds(S) PROVE Shape'
    BY <1>4, ExpireHoldsShape
  <1>5. CASE \/ \E t \in Tiers : \E edition \in Editions : EditTier(t, edition)
             \/ \E s \in Seats : Block(s) \/ Unblock(s)
    BY <1>5, OrganiserShape
  <1>6. ASSUME NEW o \in Orders, ProviderMoves(o) \/ WebhookLost(o) PROVE Shape'
    BY <1>6, ProviderShape
  <1>7. ASSUME NEW o \in Orders, Webhook(o) \/ Reconcile(o) \/ AuditSettled(o) \/ RequestRefund(o)
        PROVE  Shape'
    BY <1>7, AnnouncementShape
  <1>8. ASSUME NEW o \in Orders, NEW job \in Jobs,
               Begin(o, job) \/ Settle(o, job) \/ AttemptFails(o, job) \/ JobParks(o, job)
        PROVE  Shape'
    BY <1>8, BeginShape, SettleShape, AttemptFailsShape, JobParksShape
  <1>9. ASSUME NEW o \in Orders, CreateCharge(o) \/ CancelCharge(o) \/ RefundCharge(o) \/ FetchCharge(o)
        PROVE  Shape'
    BY <1>9, CreateChargeShape, CancelChargeShape, RefundChargeShape, FetchChargeShape
  <1>10. ASSUME NEW o \in Orders, Poll(o) \/ CopyExpires(o) PROVE Shape'
    BY <1>10, CopyShape
  <1>11. CASE UNCHANGED vars
    BY <1>11, AloneShape, TraceKept DEF vars, Shape, TypeOK, CopyRows, ChargeTrace
  <1>12. CASE DateMoves
    BY <1>12, DateShape
  <1> QED
    BY <1>1, <1>2, <1>3, <1>4, <1>5, <1>6, <1>7, <1>8, <1>9, <1>10, <1>11, <1>12 DEF Next

LEMMA AlwaysShape == Spec => []Shape
  BY InitShape, StepShape, PTL DEF Spec

(* Tables, jobs and conversations keep their shape for every hall: no      *)
(* counter ever goes below zero and no job ever settles without a charge.  *)
THEOREM Typing == Spec => []TypeOK
  <1>1. Shape => TypeOK
    BY DEF Shape
  <1> QED
    BY <1>1, AlwaysShape, PTL

-----------------------------------------------------------------------------
(* The sale proper: whatever the interleaving, a step changes statuses,    *)
(* stock and books in one of these ways, or not at all.                    *)

Becomes(S, status) ==
    \A o \in Orders : order'[o].status = IF o \in S THEN status ELSE order[o].status

Issues(o) ==
    /\ admission' = [admission EXCEPT ![o] = IF @ = "none" THEN "issued" ELSE @]
    /\ ledger' = [ledger EXCEPT ![o] = IF @ = "none" THEN "accrued" ELSE @]

Withdraws(o) ==
    /\ admission' = [admission EXCEPT ![o] = IF @ = "issued" THEN "void" ELSE @]
    /\ ledger' = [ledger EXCEPT ![o] = IF @ = "accrued" THEN "reversed" ELSE @]

Closed == {"expired", "cancelled", "failed"}

SaleAlone == Becomes({}, "none") /\ UNCHANGED <<inventory, books>>

Holds(o) ==
    /\ order[o].status = "none" /\ CanClaim(o) /\ CanReserve(o)
    /\ Becomes({o}, "pending_payment")
    /\ Reserve(o) /\ ClaimSeats(o, "held") /\ UNCHANGED books

Closes(S, status) ==
    /\ S \subseteq Pending
    /\ Becomes(S, status)
    /\ Release(S) /\ ReleaseForOrder(S) /\ UNCHANGED books

Buys(o) ==
    /\ HoldsStock(o)
    /\ Becomes({o}, "paid")
    /\ Commit(o) /\ CommitForOrder(o) /\ Issues(o)

BuysLate(o) ==
    /\ order[o].status \in Closed /\ CanRetake(o)
    /\ Becomes({o}, "paid")
    /\ ReserveAndCommit(o) /\ ClaimSeats(o, "sold") /\ Issues(o)

Owes(o) ==
    /\ order[o].status \in Closed
    /\ Becomes({o}, "refund_required")
    /\ UNCHANGED <<inventory, books>>

GivesBack(o) ==
    /\ order[o].status = "paid"
    /\ Becomes({o}, "refunded")
    /\ ReleaseSold(o) /\ ReleaseSoldForOrder(o) /\ Withdraws(o)

Repays(o) ==
    /\ order[o].status = "refund_required"
    /\ Becomes({o}, "refunded")
    /\ UNCHANGED inventory /\ Withdraws(o)

Edits ==
    /\ Becomes({}, "none") /\ UNCHANGED <<seat, books>>
    /\ \E t \in Tiers : \E edition \in Editions : EditTier(t, edition)

Rearranges ==
    /\ Becomes({}, "none") /\ UNCHANGED <<tier, books>>
    /\ \E s \in Seats : Block(s) \/ Unblock(s)

SaleStep ==
    \/ SaleAlone \/ Edits \/ Rearranges
    \/ \E o \in Orders : Holds(o) \/ Buys(o) \/ BuysLate(o) \/ Owes(o) \/ GivesBack(o) \/ Repays(o)
    \/ \E S \in SUBSET Orders : \E status \in Closed : Closes(S, status)

LEMMA SettleIsSaleStep ==
  ASSUME Shape, NEW o \in Orders, NEW job \in Jobs, Settle(o, job)
  PROVE  SaleStep
  <1> DEFINE news == call[o][job]
  <1>0. TypeOK /\ news \in ChargeStatuses /\ order[o].status \in Statuses
    BY DEF Settle, Shape, TypeOK
  <1> HIDE DEF news
  <1>1. CASE SettleNoMove(o, news)
    <2>1. order[o] \in OrderRows
      BY <1>0 DEF TypeOK, OrderRows
    <2>2. Attach(o) \/ UNCHANGED order
      BY <1>1 DEF SettleNoMove
    <2>3. [order[o] EXCEPT !.attached = TRUE].status = order[o].status
      BY <2>1 DEF OrderRows
    <2>4. Becomes({}, "none")
      BY <1>0, <2>2, <2>3 DEF Attach, Becomes, TypeOK
    <2> QED
      BY <1>1, <2>4 DEF SettleNoMove, SaleStep, SaleAlone
  <1>2. CASE SettlePaid(o, news)
    <2>1. /\ CanTransition(order[o].status, "paid") /\ NextStatus(o, news) = "paid"
          /\ AttachAndSet(o, "paid") /\ "paid" \in Statuses
      BY <1>2 DEF SettlePaid, Crosses, Statuses
    <2>2. Becomes({o}, "paid")
      BY <1>0, <2>1, AttachAndSetStatus DEF Becomes
    <2>3. Issues(o)
      BY <1>2 DEF SettlePaid, Issues
    <2>4. CASE HoldsStock(o) /\ Commit(o) /\ CommitForOrder(o)
      BY <2>2, <2>3, <2>4 DEF SaleStep, Buys
    <2>5. CASE ~HoldsStock(o) /\ ReserveAndCommit(o) /\ ClaimSeats(o, "sold")
      <3>1. order[o].status \in Closed
        BY <2>1, <2>5 DEF CanTransition, HoldsStock, Closed
      <3>2. CanRetake(o)
        BY <2>1, <2>5 DEF NextStatus
      <3> QED
        BY <2>2, <2>3, <2>5, <3>1, <3>2 DEF SaleStep, BuysLate
    <2> QED
      BY <1>2, <2>4, <2>5 DEF SettlePaid
  <1>3. CASE SettleRefundRequired(o, news)
    <2>1. /\ CanTransition(order[o].status, "refund_required") /\ NextStatus(o, news) = "refund_required"
          /\ AttachAndSet(o, "refund_required") /\ "refund_required" \in Statuses
      BY <1>3 DEF SettleRefundRequired, Crosses, Statuses
    <2>2. Becomes({o}, "refund_required")
      BY <1>0, <2>1, AttachAndSetStatus DEF Becomes
    <2>3. ~HoldsStock(o)
      BY <1>0, <2>1 DEF NextStatus, StatusFor, ChargeStatuses
    <2>4. order[o].status \in Closed
      BY <2>1, <2>3 DEF CanTransition, HoldsStock, Closed
    <2> QED
      BY <1>3, <2>2, <2>4 DEF SettleRefundRequired, SaleStep, Owes
  <1>4. CASE SettleClosed(o, news)
    <2>1. PICK status \in {"expired", "failed"} : Crosses(o, news, status)
      BY <1>4 DEF SettleClosed
    <2>2. HoldsStock(o)
      BY <2>1 DEF Crosses, CanTransition, HoldsStock
    <2>3. Becomes({o}, status)
      BY <1>0, <2>1, AttachAndSetStatus DEF Becomes, Crosses, Statuses
    <2>4. Closes({o}, status) /\ status \in Closed
      BY <1>4, <2>2, <2>3 DEF SettleClosed, Closes, Pending, Closed
    <2> QED
      BY <2>4 DEF SaleStep
  <1>5. CASE SettleRefunded(o, news)
    <2>1. /\ CanTransition(order[o].status, "refunded")
          /\ AttachAndSet(o, "refunded") /\ "refunded" \in Statuses
      BY <1>5 DEF SettleRefunded, Crosses, Statuses
    <2>2. Becomes({o}, "refunded")
      BY <1>0, <2>1, AttachAndSetStatus DEF Becomes
    <2>3. order[o].status \in {"paid", "refund_required"}
      BY <2>1 DEF CanTransition
    <2>4. Withdraws(o)
      BY <1>5 DEF SettleRefunded, Withdraws
    <2>5. CASE order[o].status = "paid"
      BY <1>5, <2>2, <2>4, <2>5 DEF SettleRefunded, SaleStep, GivesBack
    <2>6. CASE order[o].status = "refund_required"
      BY <1>5, <2>2, <2>4, <2>6 DEF SettleRefunded, SaleStep, Repays
    <2> QED
      BY <2>3, <2>5, <2>6
  <1> QED
    BY <1>1, <1>2, <1>3, <1>4, <1>5 DEF Settle, news

LEMMA NextIsSaleStep ==
  ASSUME Shape, [Next]_vars
  PROVE  SaleStep
  <1>0. TypeOK
    BY DEF Shape
  <1>1. ASSUME NEW o \in Orders, NEW confirm \in BOOLEAN, Start(o, confirm) PROVE SaleStep
    <2>1. Becomes({o}, "pending_payment")
      BY <1>0, <1>1 DEF Start, NewOrder, Becomes, TypeOK
    <2> QED
      BY <1>1, <2>1 DEF Start, SaleStep, Holds
  <1>2. ASSUME NEW o \in Orders, Confirm(o) \/ Lapse(o) PROVE SaleStep
    <2>1. order[o] \in OrderRows
      BY <1>0 DEF TypeOK, OrderRows
    <2>2. order'[o] \in {[order[o] EXCEPT !.confirmed = TRUE], [order[o] EXCEPT !.lapsed = TRUE]}
      BY <1>0, <1>2 DEF Confirm, Lapse, TypeOK
    <2>3. order'[o].status = order[o].status
      BY <2>1, <2>2 DEF OrderRows
    <2>4. \A p \in Orders \ {o} : order'[p] = order[p]
      BY <1>0, <1>2 DEF Confirm, Lapse, TypeOK
    <2>5. Becomes({}, "none")
      BY <2>3, <2>4 DEF Becomes
    <2> QED
      BY <1>2, <2>5 DEF Confirm, Lapse, SaleStep, SaleAlone
  <1>3. ASSUME NEW o \in Orders, Cancel(o) PROVE SaleStep
    <2>1. Becomes({o}, "cancelled")
      BY <1>0, <1>3, SetStatusTypes DEF Cancel, Becomes, Statuses
    <2>2. Closes({o}, "cancelled")
      BY <1>3, <2>1 DEF Cancel, Closes, Pending
    <2> QED
      BY <2>2 DEF SaleStep, Closed
  <1>4. ASSUME NEW S \in SUBSET Orders, ExpireHolds(S) PROVE SaleStep
    <2>1. Becomes(S, "expired")
      BY <1>0, <1>4, SetStatusTypes DEF ExpireHolds, Becomes, Statuses
    <2>2. Closes(S, "expired")
      BY <1>4, <2>1 DEF ExpireHolds, HoldLapsed, Closes, Pending
    <2> QED
      BY <2>2 DEF SaleStep, Closed
  <1>5. CASE \E t \in Tiers : \E edition \in Editions : EditTier(t, edition)
    BY <1>5 DEF EditTier, SaleStep, Edits, Becomes
  <1>6. CASE \E s \in Seats : Block(s) \/ Unblock(s)
    BY <1>6 DEF Block, Unblock, SaleStep, Rearranges, Becomes
  <1>7. ASSUME NEW o \in Orders, NEW job \in Jobs, Settle(o, job) PROVE SaleStep
    BY <1>7, SettleIsSaleStep
  <1>8. CASE UNCHANGED <<order, inventory, books>>
    BY <1>8 DEF SaleStep, SaleAlone, Becomes
  <1> QED
    BY <1>1, <1>2, <1>3, <1>4, <1>5, <1>6, <1>7, <1>8
       DEF Next, vars, inventory, books, ProviderMoves, DateMoves, Webhook, WebhookLost, Reconcile,
           AuditSettled, RequestRefund, Poll, CopyExpires, Begin, CreateCharge, CancelCharge, RefundCharge,
           FetchCharge, AttemptFails, JobParks

-----------------------------------------------------------------------------
(* Stock.  The guards look at the counters alone, so the counters must be  *)
(* known to be what the orders say before a release or a commit of one     *)
(* order can be seen to leave the others' stock in place.                  *)

Stock == Shape /\ NoOversell /\ StockMatchesOrders

LEMMA InitStock == Init => Stock
  <1> SUFFICES ASSUME Init PROVE Stock
    OBVIOUS
  <1>1. Shape
    BY InitShape
  <1>2. Pending = {} /\ Paid = {}
    BY DEF Init, Pending, Paid, HoldsStock
  <1>3. \A t \in Tiers : tier[t].reserved = 0 /\ tier[t].sold = 0 /\ tier[t].quantity \in Nat
    BY SalesAssumption DEF Init
  <1>4. StockMatchesOrders
    BY <1>2, <1>3, QtyOfNobody DEF StockMatchesOrders
  <1>5. NoOversell
    BY <1>3, SalesAssumption DEF NoOversell
  <1> QED
    BY <1>1, <1>4, <1>5 DEF Stock

LEMMA TierFacts ==
  ASSUME TypeOK, NEW t \in Tiers
  PROVE  tier[t].quantity \in Nat /\ tier[t].reserved \in Nat /\ tier[t].sold \in Nat
  BY DEF TypeOK, TierRows

LEMMA SameSale ==
  ASSUME Becomes({}, "none")
  PROVE  Pending' = Pending /\ Paid' = Paid
  BY DEF Becomes, Pending, Paid, HoldsStock

(* Room for a basket in the counters is room for it in the bounds.         *)
LEMMA RoomForBasket ==
  ASSUME TypeOK, NoOversell, NEW o \in Orders, CanReserve(o), NEW t \in Tiers
  PROVE  /\ tier[t].sold + tier[t].reserved + Qty({o}, t) <= tier[t].quantity
         /\ tier[t].sold + tier[t].reserved + Qty({o}, t) <= AreaCapacity[t]
  <1>1. Qty({o}, t) \in Nat /\ tier[t].reserved \in Nat /\ tier[t].sold \in Nat
    BY LinesFinite, TierFacts
  <1>2. CASE Qty({o}, t) > 0
    BY <1>2 DEF CanReserve
  <1>3. CASE Qty({o}, t) = 0
    BY <1>1, <1>3 DEF NoOversell
  <1> QED
    BY <1>1, <1>2, <1>3

LEMMA HoldsStockStep ==
  ASSUME Stock, NEW o \in Orders, Holds(o)
  PROVE  NoOversell' /\ StockMatchesOrders'
  <1>1. Pending' = Pending \cup {o} /\ Paid' = Paid /\ Pending \cap {o} = {}
    BY DEF Holds, Becomes, Pending, Paid, HoldsStock
  <1>2. Pending \in SUBSET Orders /\ {o} \in SUBSET Orders
    BY DEF Pending
  <1> SUFFICES ASSUME NEW t \in Tiers
               PROVE  /\ tier'[t].sold + tier'[t].reserved <= tier'[t].quantity
                      /\ tier'[t].sold + tier'[t].reserved <= AreaCapacity[t]
                      /\ tier'[t].reserved = Qty(Pending', t)
                      /\ tier'[t].sold = Qty(Paid', t)
    BY DEF NoOversell, StockMatchesOrders, Qty, Lines
  <1>3. /\ tier'[t].quantity = tier[t].quantity
        /\ tier'[t].reserved = tier[t].reserved + Qty({o}, t)
        /\ tier'[t].sold = tier[t].sold
    BY ReserveTypes DEF Holds, Stock, Shape
  <1>4. Qty(Pending', t) = Qty(Pending, t) + Qty({o}, t)
    BY <1>1, <1>2, QtyAdds
  <1>5. tier[t].reserved = Qty(Pending, t) /\ tier[t].sold = Qty(Paid, t)
    BY DEF Stock, StockMatchesOrders
  <1>6. /\ tier[t].sold + tier[t].reserved + Qty({o}, t) <= tier[t].quantity
        /\ tier[t].sold + tier[t].reserved + Qty({o}, t) <= AreaCapacity[t]
    BY RoomForBasket DEF Holds, Stock, Shape
  <1>7. tier[t].quantity \in Nat /\ tier[t].reserved \in Nat /\ tier[t].sold \in Nat /\ Qty({o}, t) \in Nat
    BY TierFacts, LinesFinite DEF Stock, Shape
  <1>8. AreaCapacity[t] \in Nat
    BY SalesAssumption
  <1> QED
    BY <1>1, <1>3, <1>4, <1>5, <1>6, <1>7, <1>8

LEMMA ClosesStockStep ==
  ASSUME Stock, NEW S \in SUBSET Orders, NEW status \in Closed, Closes(S, status)
  PROVE  NoOversell' /\ StockMatchesOrders'
  <1>1. Pending' = Pending \ S /\ Paid' = Paid /\ S \in SUBSET Pending
    BY DEF Closes, Becomes, Pending, Paid, HoldsStock, Closed
  <1>2. Pending \in SUBSET Orders
    BY DEF Pending
  <1> SUFFICES ASSUME NEW t \in Tiers
               PROVE  /\ tier'[t].sold + tier'[t].reserved <= tier'[t].quantity
                      /\ tier'[t].sold + tier'[t].reserved <= AreaCapacity[t]
                      /\ tier'[t].reserved = Qty(Pending', t)
                      /\ tier'[t].sold = Qty(Paid', t)
    BY DEF NoOversell, StockMatchesOrders, Qty, Lines
  <1>3. /\ tier'[t].quantity = tier[t].quantity
        /\ tier'[t].reserved = tier[t].reserved - Qty(S, t)
        /\ tier'[t].sold = tier[t].sold
    BY ReleaseTypes DEF Closes, Stock, Shape
  <1>4. Qty(Pending', t) = Qty(Pending, t) - Qty(S, t)
    BY <1>1, <1>2, QtySubtracts
  <1>5. /\ tier[t].reserved = Qty(Pending, t) /\ tier[t].sold = Qty(Paid, t)
        /\ tier[t].sold + tier[t].reserved <= tier[t].quantity
        /\ tier[t].sold + tier[t].reserved <= AreaCapacity[t]
    BY DEF Stock, StockMatchesOrders, NoOversell
  <1>6. tier[t].quantity \in Nat /\ tier[t].reserved \in Nat /\ tier[t].sold \in Nat /\ Qty(S, t) \in Nat
    BY TierFacts, LinesFinite DEF Stock, Shape
  <1>7. AreaCapacity[t] \in Nat
    BY SalesAssumption
  <1> QED
    BY <1>1, <1>3, <1>4, <1>5, <1>6, <1>7

LEMMA BuysStockStep ==
  ASSUME Stock, NEW o \in Orders, Buys(o)
  PROVE  NoOversell' /\ StockMatchesOrders'
  <1>1. /\ Pending' = Pending \ {o} /\ {o} \in SUBSET Pending
        /\ Paid' = Paid \cup {o} /\ Paid \cap {o} = {}
    BY DEF Buys, Becomes, Pending, Paid, HoldsStock
  <1>2. Pending \in SUBSET Orders /\ Paid \in SUBSET Orders /\ {o} \in SUBSET Orders
    BY DEF Pending, Paid
  <1> SUFFICES ASSUME NEW t \in Tiers
               PROVE  /\ tier'[t].sold + tier'[t].reserved <= tier'[t].quantity
                      /\ tier'[t].sold + tier'[t].reserved <= AreaCapacity[t]
                      /\ tier'[t].reserved = Qty(Pending', t)
                      /\ tier'[t].sold = Qty(Paid', t)
    BY DEF NoOversell, StockMatchesOrders, Qty, Lines
  <1>3. /\ tier'[t].quantity = tier[t].quantity
        /\ tier'[t].reserved = tier[t].reserved - Qty({o}, t)
        /\ tier'[t].sold = tier[t].sold + Qty({o}, t)
    BY CommitTypes DEF Buys, Stock, Shape
  <1>4. /\ Qty(Pending', t) = Qty(Pending, t) - Qty({o}, t)
        /\ Qty(Paid', t) = Qty(Paid, t) + Qty({o}, t)
    BY <1>1, <1>2, QtySubtracts, QtyAdds
  <1>5. /\ tier[t].reserved = Qty(Pending, t) /\ tier[t].sold = Qty(Paid, t)
        /\ tier[t].sold + tier[t].reserved <= tier[t].quantity
        /\ tier[t].sold + tier[t].reserved <= AreaCapacity[t]
    BY DEF Stock, StockMatchesOrders, NoOversell
  <1>6. tier[t].quantity \in Nat /\ tier[t].reserved \in Nat /\ tier[t].sold \in Nat /\ Qty({o}, t) \in Nat
    BY TierFacts, LinesFinite DEF Stock, Shape
  <1>7. AreaCapacity[t] \in Nat
    BY SalesAssumption
  <1> QED
    BY <1>3, <1>4, <1>5, <1>6, <1>7

LEMMA BuysLateStockStep ==
  ASSUME Stock, NEW o \in Orders, BuysLate(o)
  PROVE  NoOversell' /\ StockMatchesOrders'
  <1>1. Pending' = Pending /\ Paid' = Paid \cup {o} /\ Paid \cap {o} = {}
    BY DEF BuysLate, Becomes, Pending, Paid, HoldsStock, Closed
  <1>2. Paid \in SUBSET Orders /\ {o} \in SUBSET Orders
    BY DEF Paid
  <1> SUFFICES ASSUME NEW t \in Tiers
               PROVE  /\ tier'[t].sold + tier'[t].reserved <= tier'[t].quantity
                      /\ tier'[t].sold + tier'[t].reserved <= AreaCapacity[t]
                      /\ tier'[t].reserved = Qty(Pending', t)
                      /\ tier'[t].sold = Qty(Paid', t)
    BY DEF NoOversell, StockMatchesOrders, Qty, Lines
  <1>3. /\ tier'[t].quantity = tier[t].quantity
        /\ tier'[t].reserved = tier[t].reserved
        /\ tier'[t].sold = tier[t].sold + Qty({o}, t)
    BY ReserveAndCommitTypes DEF BuysLate, Stock, Shape
  <1>4. Qty(Paid', t) = Qty(Paid, t) + Qty({o}, t)
    BY <1>1, <1>2, QtyAdds
  <1>5. tier[t].reserved = Qty(Pending, t) /\ tier[t].sold = Qty(Paid, t)
    BY DEF Stock, StockMatchesOrders
  <1>6. /\ tier[t].sold + tier[t].reserved + Qty({o}, t) <= tier[t].quantity
        /\ tier[t].sold + tier[t].reserved + Qty({o}, t) <= AreaCapacity[t]
    BY RoomForBasket DEF BuysLate, CanRetake, Stock, Shape
  <1>7. tier[t].quantity \in Nat /\ tier[t].reserved \in Nat /\ tier[t].sold \in Nat /\ Qty({o}, t) \in Nat
    BY TierFacts, LinesFinite DEF Stock, Shape
  <1>8. AreaCapacity[t] \in Nat
    BY SalesAssumption
  <1> QED
    BY <1>1, <1>3, <1>4, <1>5, <1>6, <1>7, <1>8

LEMMA GivesBackStockStep ==
  ASSUME Stock, NEW o \in Orders, GivesBack(o)
  PROVE  NoOversell' /\ StockMatchesOrders'
  <1>1. Pending' = Pending /\ Paid' = Paid \ {o} /\ {o} \in SUBSET Paid
    BY DEF GivesBack, Becomes, Pending, Paid, HoldsStock
  <1>2. Paid \in SUBSET Orders
    BY DEF Paid
  <1> SUFFICES ASSUME NEW t \in Tiers
               PROVE  /\ tier'[t].sold + tier'[t].reserved <= tier'[t].quantity
                      /\ tier'[t].sold + tier'[t].reserved <= AreaCapacity[t]
                      /\ tier'[t].reserved = Qty(Pending', t)
                      /\ tier'[t].sold = Qty(Paid', t)
    BY DEF NoOversell, StockMatchesOrders, Qty, Lines
  <1>3. /\ tier'[t].quantity = tier[t].quantity
        /\ tier'[t].reserved = tier[t].reserved
        /\ tier'[t].sold = tier[t].sold - Qty({o}, t)
    BY ReleaseSoldTypes DEF GivesBack, Stock, Shape
  <1>4. Qty(Paid', t) = Qty(Paid, t) - Qty({o}, t)
    BY <1>1, <1>2, QtySubtracts
  <1>5. /\ tier[t].reserved = Qty(Pending, t) /\ tier[t].sold = Qty(Paid, t)
        /\ tier[t].sold + tier[t].reserved <= tier[t].quantity
        /\ tier[t].sold + tier[t].reserved <= AreaCapacity[t]
    BY DEF Stock, StockMatchesOrders, NoOversell
  <1>6. tier[t].quantity \in Nat /\ tier[t].reserved \in Nat /\ tier[t].sold \in Nat /\ Qty({o}, t) \in Nat
    BY TierFacts, LinesFinite DEF Stock, Shape
  <1>7. AreaCapacity[t] \in Nat
    BY SalesAssumption
  <1> QED
    BY <1>1, <1>3, <1>4, <1>5, <1>6, <1>7

(* Orders that neither hold nor own anything come and go for free.         *)
LEMMA UntouchedStockStep ==
  ASSUME Stock, UNCHANGED tier, Pending' = Pending, Paid' = Paid
  PROVE  NoOversell' /\ StockMatchesOrders'
  BY DEF Stock, NoOversell, StockMatchesOrders, Qty, Lines

LEMMA EditsStockStep ==
  ASSUME Stock, NEW t \in Tiers, NEW edition \in Editions, EditTier(t, edition), Becomes({}, "none")
  PROVE  NoOversell' /\ StockMatchesOrders'
  <1>1. edition[1] \in Nat
    BY SalesAssumption
  <1>2. /\ tier'[t].quantity = edition[1]
        /\ \A u \in Tiers : /\ tier'[u].reserved = tier[u].reserved
                            /\ tier'[u].sold = tier[u].sold
                            /\ u # t => tier'[u].quantity = tier[u].quantity
    <2>1. tier[t] \in TierRows /\ tier \in [Tiers -> TierRows]
      BY DEF Stock, Shape, TypeOK
    <2>2. tier' = [tier EXCEPT ![t] = [tier[t] EXCEPT !.quantity = edition[1], !.onSale = edition[2]]]
      BY DEF EditTier, Stock, Shape, TypeOK
    <2> QED
      BY <2>1, <2>2 DEF TierRows
  <1>3. tier[t].sold + tier[t].reserved <= edition[1]
    BY DEF EditTier
  <1>4. NoOversell'
    BY <1>2, <1>3 DEF NoOversell, Stock
  <1>5. StockMatchesOrders'
    BY <1>2, SameSale DEF StockMatchesOrders, Stock, Qty, Lines
  <1> QED
    BY <1>4, <1>5

LEMMA StepStock == Stock /\ [Next]_vars => Stock'
  <1> SUFFICES ASSUME Stock, [Next]_vars PROVE Stock'
    OBVIOUS
  <1>1. Shape' /\ SaleStep
    BY StepShape, NextIsSaleStep DEF Stock
  <1>2. CASE SaleAlone \/ Rearranges
    BY <1>1, <1>2, SameSale, UntouchedStockStep DEF SaleAlone, Rearranges, inventory, Stock
  <1>3. CASE Edits
    BY <1>1, <1>3, EditsStockStep DEF Edits, Stock
  <1>4. ASSUME NEW o \in Orders, Owes(o) \/ Repays(o) PROVE NoOversell' /\ StockMatchesOrders'
    <2>1. Pending' = Pending /\ Paid' = Paid
      BY <1>4 DEF Owes, Repays, Becomes, Pending, Paid, HoldsStock, Closed
    <2> QED
      BY <1>4, <2>1, UntouchedStockStep DEF Owes, Repays, inventory
  <1>5. ASSUME NEW o \in Orders, Holds(o) \/ Buys(o) \/ BuysLate(o) \/ GivesBack(o)
        PROVE  NoOversell' /\ StockMatchesOrders'
    BY <1>5, HoldsStockStep, BuysStockStep, BuysLateStockStep, GivesBackStockStep
  <1>6. ASSUME NEW S \in SUBSET Orders, NEW status \in Closed, Closes(S, status)
        PROVE  NoOversell' /\ StockMatchesOrders'
    BY <1>6, ClosesStockStep
  <1> QED
    BY <1>1, <1>2, <1>3, <1>4, <1>5, <1>6 DEF SaleStep, Stock

(* No tier is promised beyond its quantity or its area, and the counters   *)
(* always equal what the orders hold and own: every release is paid for by *)
(* a reservation of the same order, whatever answers come late or twice.   *)
LEMMA AlwaysStock == Spec => []Stock
  BY InitStock, StepStock, PTL DEF Spec

(* Reserve's guard, the reservation taken again for a late payment and the *)
(* CHECK constraint on edits never let a tier or an area be oversold.      *)
THEOREM NeverOversold == Spec => []NoOversell
  <1>1. Stock => NoOversell
    BY DEF Stock
  <1> QED
    BY <1>1, AlwaysStock, PTL

(* The counters never drift from the orders, through every order of        *)
(* checkout, confirmation, expiry, late payment, redelivery and refund.    *)
THEOREM CountersMatch == Spec => []StockMatchesOrders
  <1>1. Stock => StockMatchesOrders
    BY DEF Stock
  <1> QED
    BY <1>1, AlwaysStock, PTL
=============================================================================
