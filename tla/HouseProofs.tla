----------------------------- MODULE HouseProofs -----------------------------
(***************************************************************************)
(* The house's promises, for any number of callers, orders, events,        *)
(* pictures, chairs and tiers: one inductive invariant a part, and their   *)
(* composition at the end.                                                 *)
(***************************************************************************)
EXTENDS House, TLAPS, FiniteSetTheorems, WellFoundedInduction

(* The parts count finite sets as everyone does.                           *)
LEMMA CountedAlike ==
  /\ \A S : Pictures!IsFiniteSet(S) <=> IsFiniteSet(S)
  /\ \A S : Pictures!Cardinality(S) = Cardinality(S)
  /\ \A S : Feed!IsFiniteSet(S) <=> IsFiniteSet(S)
  /\ \A S : Feed!Cardinality(S) = Cardinality(S)
  /\ \A S : Counter!IsFiniteSet(S) <=> IsFiniteSet(S)
  /\ \A S : Counter!Cardinality(S) = Cardinality(S)
  <1>1. ASSUME NEW S
        PROVE  /\ Pictures!IsFiniteSet(S) <=> IsFiniteSet(S)
               /\ Feed!IsFiniteSet(S) <=> IsFiniteSet(S)
               /\ Counter!IsFiniteSet(S) <=> IsFiniteSet(S)
    BY DEF Pictures!IsFiniteSet, Feed!IsFiniteSet, Counter!IsFiniteSet, IsFiniteSet
  <1>2. ASSUME NEW S PROVE Pictures!Cardinality(S) = Cardinality(S)
    BY DEF Pictures!Cardinality, Cardinality
  <1>3. ASSUME NEW S PROVE Feed!Cardinality(S) = Cardinality(S)
    BY DEF Feed!Cardinality, Cardinality
  <1>4. ASSUME NEW S PROVE Counter!Cardinality(S) = Cardinality(S)
    BY DEF Counter!Cardinality, Cardinality
  <1> QED
    BY <1>1, <1>2, <1>3, <1>4

-----------------------------------------------------------------------------
(* The door.  Entries are counted where the row leaves "issued", and no    *)
(* step brings a row back to it; a row is live only while its order is     *)
(* paid, because the refund voids in its own transaction.                  *)
RowOK(t) ==
    /\ row[t].status \in {"none", "issued"} => row[t].by = Nobody /\ entries[t] = 0
    /\ entries[t] <= 1
    /\ row[t].status \in {"issued", "admitted"} => order[OrderOf[t]] = "paid"
    /\ row[t].status = "void" => order[OrderOf[t]] = "refunded"
    /\ row[t].status = "admitted" => row[t].by # Nobody

RowsOK == \A t \in Tickets : RowOK(t)

ScanOK(d) ==
    LET s == scan[d] IN
    /\ s.stage \in {"check", "claim", "reread"} =>
          s.by = Nobody /\ row[s.ticket].status # "none"
    /\ s.stage = "reread" => row[s.ticket].status # "issued"
    /\ s.stage = "admitted" => row[s.ticket].by = d
    /\ s.stage = "already_admitted" /\ s.by # Nobody => row[s.ticket].by = s.by
    /\ s.stage = "void" => order[OrderOf[s.ticket]] = "refunded"

ScansOK == \A d \in Doors : ScanOK(d)

DoorInv == TypeOK /\ RowsOK /\ ScansOK

-----------------------------------------------------------------------------
LEMMA InitDoor == Init => DoorInv
  BY DoorAssumption DEF Init, DoorInv, TypeOK, RowsOK, RowOK, ScansOK, ScanOK, Blank,
     OrderStatuses, Statuses, Stages, Answers, Refusals

(* A step of a scanner that leaves the tables alone.                       *)
LEMMA Looking ==
  ASSUME DoorInv, NEW d \in Doors, NEW s \in [stage : Stages, ticket : Tickets, by : Doors \cup {Nobody}],
         scan' = [scan EXCEPT ![d] = s], UNCHANGED <<order, copy, row, entries>>,
         s.stage \in {"check", "claim", "reread"} => s.by = Nobody /\ row[s.ticket].status # "none",
         s.stage = "reread" => row[s.ticket].status # "issued",
         s.stage = "admitted" => row[s.ticket].by = d,
         s.stage = "already_admitted" /\ s.by # Nobody => row[s.ticket].by = s.by,
         s.stage = "void" => order[OrderOf[s.ticket]] = "refunded"
  PROVE  DoorInv'
<1>1. TypeOK'
  BY DEF DoorInv, TypeOK
<1>2. RowsOK'
  BY DEF DoorInv, RowsOK, RowOK
<1>3. ScansOK'
  <2> SUFFICES ASSUME NEW e \in Doors PROVE ScanOK(e)'
    BY DEF ScansOK
  <2>1. CASE e = d
    <3>1. scan'[e] = s
      BY <2>1 DEF DoorInv, TypeOK
    <3> QED BY <3>1, <2>1 DEF ScanOK
  <2>2. CASE e # d
    <3>1. scan'[e] = scan[e]
      BY <2>2 DEF DoorInv, TypeOK
    <3> QED BY <3>1 DEF DoorInv, ScansOK, ScanOK
  <2> QED BY <2>1, <2>2
<1> QED BY <1>1, <1>2, <1>3 DEF DoorInv

(* Showing an answer is such a step.                                       *)
LEMMA AnswerShown ==
  ASSUME DoorInv, NEW d \in Doors, NEW a, NEW b, Show(d, a, b)
  PROVE  scan' = [scan EXCEPT ![d] = [stage |-> a, ticket |-> scan[d].ticket, by |-> b]]
  BY DEF Show, DoorInv, TypeOK

LEMMA SettleStep == ASSUME DoorInv, NEW o \in Orders, Settle(o) PROVE DoorInv'
<1> USE DoorAssumption
<1>1. \A t \in Tickets : row'[t].by = row[t].by
                         /\ (OrderOf[t] # o => row'[t] = row[t])
                         /\ (row[t].status # "none" => row'[t] = row[t])
                         /\ row'[t].status \in {row[t].status, "issued"}
  BY DEF Settle, DoorInv, TypeOK, TicketsOf, Blank
<1>2. \A t \in Tickets : row[t].status = "none" /\ OrderOf[t] # o => row'[t] = row[t]
  BY <1>1
<1>3. TypeOK'
  <2>1. \A t \in Tickets : row'[t] \in [status : Statuses, by : Doors \cup {Nobody}]
    BY SMTT(30) DEF Settle, DoorInv, TypeOK, Statuses
  <2> QED BY <2>1 DEF Settle, DoorInv, TypeOK, OrderStatuses
<1>4. RowsOK'
  BY <1>1 DEF DoorInv, RowsOK, RowOK, Settle, TypeOK
<1>5. ScansOK'
  <2> SUFFICES ASSUME NEW d \in Doors PROVE ScanOK(d)'
    BY DEF ScansOK
  <2>1. scan[d].ticket \in Tickets /\ scan'[d] = scan[d]
    BY DEF DoorInv, TypeOK, Settle
  <2>2. ScanOK(d) /\ RowOK(scan[d].ticket)
    BY <2>1 DEF DoorInv, ScansOK, RowsOK
  <2>3. row[scan[d].ticket].status # "none" => row'[scan[d].ticket] = row[scan[d].ticket]
    BY <1>1, <2>1
  <2>4. row'[scan[d].ticket].by = row[scan[d].ticket].by
    BY <1>1, <2>1
  <2>5. order[OrderOf[scan[d].ticket]] = "refunded" => order'[OrderOf[scan[d].ticket]] = "refunded"
    BY <2>1 DEF Settle, DoorInv, TypeOK
  <2> QED BY <2>1, <2>2, <2>3, <2>4, <2>5 DEF ScanOK
<1> QED BY <1>3, <1>4, <1>5 DEF DoorInv

LEMMA RefundStep == ASSUME DoorInv, NEW o \in Orders, Refund(o) PROVE DoorInv'
<1> USE DoorAssumption
<1>1. \A t \in Tickets : row'[t].by = row[t].by
                         /\ (OrderOf[t] # o => row'[t] = row[t])
                         /\ (OrderOf[t] = o => row'[t].status = "void")
  BY DEF Refund, VoidForOrder, DoorInv, TypeOK, TicketsOf
<1>2. TypeOK'
  <2>1. \A t \in Tickets : row'[t] \in [status : Statuses, by : Doors \cup {Nobody}]
    BY SMTT(30) DEF Refund, VoidForOrder, DoorInv, TypeOK, Statuses
  <2> QED BY <2>1 DEF Refund, VoidForOrder, DoorInv, TypeOK, OrderStatuses
<1>3. RowsOK'
  BY <1>1 DEF DoorInv, RowsOK, RowOK, Refund, TypeOK
<1>4. ScansOK'
  <2> SUFFICES ASSUME NEW d \in Doors PROVE ScanOK(d)'
    BY DEF ScansOK
  <2>1. scan[d].ticket \in Tickets /\ scan'[d] = scan[d]
    BY DEF DoorInv, TypeOK, Refund
  <2>2. ScanOK(d)
    BY DEF DoorInv, ScansOK
  <2>3. row'[scan[d].ticket].by = row[scan[d].ticket].by
        /\ row'[scan[d].ticket].status \in {row[scan[d].ticket].status, "void"}
    BY <1>1, <2>1
  <2>4. order[OrderOf[scan[d].ticket]] = "refunded" => order'[OrderOf[scan[d].ticket]] = "refunded"
    BY <2>1 DEF Refund, DoorInv, TypeOK
  <2> QED BY <2>1, <2>2, <2>3, <2>4 DEF ScanOK
<1> QED BY <1>2, <1>3, <1>4 DEF DoorInv

(* An admission is spent: with the answer shown, or with the answer lost.  *)
LEMMA SpendStep ==
  ASSUME DoorInv, NEW d \in Doors, scan[d].stage = "claim", MayAdmit(scan[d].ticket),
         Admit(d, scan[d].ticket), UNCHANGED <<order, copy>>,
         \/ Show(d, "admitted", d) /\ entries' = [entries EXCEPT ![scan[d].ticket] = @ + 1]
         \/ Show(d, "fault", Nobody) /\ UNCHANGED entries
  PROVE  DoorInv'
<1> USE DoorAssumption
<1> DEFINE t == scan[d].ticket
<1>0. t \in Tickets /\ RowOK(t) /\ row[t].status = "issued"
  BY DEF DoorInv, TypeOK, RowsOK, MayAdmit
<1>1. row'[t] = [status |-> "admitted", by |-> d] /\ \A u \in Tickets \ {t} : row'[u] = row[u]
  BY <1>0 DEF Admit, DoorInv, TypeOK
<1>2. /\ entries'[t] \in {0, 1} /\ \A u \in Tickets \ {t} : entries'[u] = entries[u]
      /\ entries' \in [Tickets -> Nat]
  BY <1>0 DEF RowOK, DoorInv, TypeOK
<1>3. /\ scan'[d].ticket = t /\ \A e \in Doors \ {d} : scan'[e] = scan[e]
      /\ scan'[d].stage \in {"admitted", "fault"}
      /\ scan' \in [Doors -> [stage : Stages, ticket : Tickets, by : Doors \cup {Nobody}]]
  <2> DEFINE Scans == [stage : Stages, ticket : Tickets, by : Doors \cup {Nobody}]
  <2>1. PICK s \in Scans : /\ scan' = [scan EXCEPT ![d] = s]
                           /\ s.ticket = t /\ s.stage \in {"admitted", "fault"}
    <3>1. CASE Show(d, "admitted", d)
      <4> DEFINE s == [stage |-> "admitted", ticket |-> t, by |-> d]
      <4>1. s \in Scans
        BY <1>0 DEF Stages, Answers
      <4>2. scan' = [scan EXCEPT ![d] = s]
        BY <3>1, AnswerShown
      <4> QED BY <4>1, <4>2
    <3>2. CASE Show(d, "fault", Nobody)
      <4> DEFINE s == [stage |-> "fault", ticket |-> t, by |-> Nobody]
      <4>1. s \in Scans
        BY <1>0 DEF Stages, Answers
      <4>2. scan' = [scan EXCEPT ![d] = s]
        BY <3>2, AnswerShown
      <4> QED BY <4>1, <4>2
    <3> QED BY <3>1, <3>2
  <2>2. scan \in [Doors -> Scans]
    BY DEF DoorInv, TypeOK
  <2> QED BY <2>1, <2>2
<1>4. TypeOK'
  <2>1. row' \in [Tickets -> [status : Statuses, by : Doors \cup {Nobody}]]
    BY <1>0 DEF Admit, DoorInv, TypeOK, Statuses
  <2> QED BY <1>2, <1>3, <2>1 DEF DoorInv, TypeOK
<1>5. RowsOK'
  <2> SUFFICES ASSUME NEW u \in Tickets PROVE RowOK(u)'
    BY DEF RowsOK
  <2>1. CASE u = t
    BY <1>0, <1>1, <1>2, <2>1 DEF RowOK
  <2>2. CASE u # t
    BY <1>1, <1>2, <2>2 DEF RowOK, DoorInv, RowsOK
  <2> QED BY <2>1, <2>2
<1>6. ScansOK'
  <2> SUFFICES ASSUME NEW e \in Doors PROVE ScanOK(e)'
    BY DEF ScansOK
  <2>1. CASE e = d
    BY <1>1, <1>3, <2>1 DEF ScanOK
  <2>2. CASE e # d
    <3>1. ScanOK(e) /\ scan'[e] = scan[e] /\ scan[e].ticket \in Tickets
      BY <1>3, <2>2 DEF DoorInv, ScansOK, TypeOK
    <3>2. CASE scan[e].ticket = t
      BY <1>0, <1>1, <3>1, <3>2 DEF ScanOK, RowOK
    <3>3. CASE scan[e].ticket # t
      BY <1>1, <3>1, <3>3 DEF ScanOK
    <3> QED BY <3>2, <3>3
  <2> QED BY <2>1, <2>2
<1> QED BY <1>4, <1>5, <1>6 DEF DoorInv

LEMMA ScannerStep ==
  ASSUME DoorInv, NEW d \in Doors,
         \/ \E t \in Tickets : Present(d, t)
         \/ CheckOrder(d) \/ ClaimLoses(d) \/ ScanFails(d)
         \/ Reread(d) \/ RereadFails(d) \/ NextHolder(d)
  PROVE  DoorInv'
<1> USE DoorAssumption
<1> DEFINE u == scan[d].ticket
<1>0. u \in Tickets /\ scan[d].by \in Doors \cup {Nobody} /\ ScanOK(d) /\ RowOK(u)
      /\ row[u].by \in Doors \cup {Nobody}
      /\ order[OrderOf[u]] \in OrderStatuses
  BY DEF DoorInv, TypeOK, ScansOK, RowsOK
<1>1. ASSUME NEW t \in Tickets, Present(d, t) PROVE DoorInv'
  <2> DEFINE s == [stage |-> FirstAnswer(d, t), ticket |-> t, by |-> row[t].by]
  <2>1. RowOK(t) /\ row[t].by \in Doors \cup {Nobody} /\ row[t].status \in Statuses
    BY DEF DoorInv, TypeOK, RowsOK
  <2>2. /\ s.stage \in {"unknown", "wrong_event", "void", "already_admitted", "check"}
        /\ s.stage = "check" => row[t].status = "issued"
        /\ s.stage = "void" => row[t].status = "void"
    BY <2>1 DEF FirstAnswer, Statuses
  <2>3. s \in [stage : Stages, ticket : Tickets, by : Doors \cup {Nobody}]
    BY <2>1, <2>2 DEF Stages, Answers, Refusals
  <2> HIDE DEF s
  <2>4. s.ticket = t /\ s.by = row[t].by
    BY DEF s
  <2>5. scan' = [scan EXCEPT ![d] = s] /\ UNCHANGED <<order, copy, row, entries>>
    BY <1>1 DEF Present, s
  <2> QED BY <2>1, <2>2, <2>3, <2>4, <2>5, Looking DEF RowOK
<1>2. CASE CheckOrder(d)
  <2> DEFINE a == IF Seen(OrderOf[u]) = "paid" THEN "claim" ELSE "not_paid"
  <2> DEFINE s == [stage |-> a, ticket |-> u, by |-> scan[d].by]
  <2>1. scan' = [scan EXCEPT ![d] = s] /\ UNCHANGED <<order, copy, row, entries>>
    BY <1>2, AnswerShown DEF CheckOrder
  <2>2. s.by = Nobody /\ row[u].status # "none" /\ s \in [stage : Stages, ticket : Tickets, by : Doors \cup {Nobody}]
    BY <1>0, <1>2 DEF CheckOrder, ScanOK, Stages, Answers, Refusals
  <2>3. a \in {"claim", "not_paid"}
    OBVIOUS
  <2> QED BY <2>1, <2>2, <2>3, Looking
<1>3. CASE ClaimLoses(d)
  <2> DEFINE s == [stage |-> "reread", ticket |-> u, by |-> scan[d].by]
  <2>1. scan' = [scan EXCEPT ![d] = s] /\ UNCHANGED <<order, copy, row, entries>>
    BY <1>3, AnswerShown DEF ClaimLoses
  <2>2. s.by = Nobody /\ row[u].status # "none" /\ row[u].status # "issued"
    BY <1>0, <1>3 DEF ClaimLoses, ScanOK, MayAdmit
  <2>3. s \in [stage : Stages, ticket : Tickets, by : Doors \cup {Nobody}]
    BY <1>0, <2>2 DEF Stages
  <2> QED BY <2>1, <2>2, <2>3, Looking
<1>4. CASE ScanFails(d)
  <2> DEFINE s == [stage |-> "fault", ticket |-> u, by |-> Nobody]
  <2>1. scan' = [scan EXCEPT ![d] = s] /\ UNCHANGED <<order, copy, row, entries>>
    BY <1>4, AnswerShown DEF ScanFails
  <2>2. s \in [stage : Stages, ticket : Tickets, by : Doors \cup {Nobody}]
    BY <1>0 DEF Stages, Answers
  <2> QED BY <2>1, <2>2, Looking
<1>5. CASE Reread(d)
  <2> DEFINE s == [stage |-> IF row[u].status = "void" THEN "void" ELSE "already_admitted",
                   ticket |-> u, by |-> row[u].by]
  <2>1. scan' = [scan EXCEPT ![d] = s] /\ UNCHANGED <<order, copy, row, entries>>
    BY <1>5, AnswerShown DEF Reread
  <2>2. s \in [stage : Stages, ticket : Tickets, by : Doors \cup {Nobody}]
    BY <1>0 DEF Stages, Answers, Refusals
  <2>3. s.stage = "void" => order[OrderOf[u]] = "refunded"
    BY <1>0 DEF RowOK
  <2> QED BY <2>1, <2>2, <2>3, Looking
<1>6. CASE RereadFails(d)
  <2> DEFINE s == [stage |-> "already_admitted", ticket |-> u, by |-> scan[d].by]
  <2>1. scan' = [scan EXCEPT ![d] = s] /\ UNCHANGED <<order, copy, row, entries>>
    BY <1>6, AnswerShown DEF RereadFails
  <2>2. s.by = Nobody
    BY <1>0, <1>6 DEF RereadFails, ScanOK
  <2>3. s \in [stage : Stages, ticket : Tickets, by : Doors \cup {Nobody}]
    BY <1>0 DEF Stages, Answers, Refusals
  <2> QED BY <2>1, <2>2, <2>3, Looking
<1>7. CASE NextHolder(d)
  <2> DEFINE s == [stage |-> "idle", ticket |-> u, by |-> Nobody]
  <2>1. scan' = [scan EXCEPT ![d] = s] /\ UNCHANGED <<order, copy, row, entries>>
    BY <1>7, AnswerShown DEF NextHolder
  <2>2. s \in [stage : Stages, ticket : Tickets, by : Doors \cup {Nobody}]
    BY <1>0 DEF Stages
  <2> QED BY <2>1, <2>2, Looking
<1> QED BY <1>1, <1>2, <1>3, <1>4, <1>5, <1>6, <1>7

LEMMA DoorStep == DoorInv /\ [Next]_vars => DoorInv'
<1> SUFFICES ASSUME DoorInv, [Next]_vars PROVE DoorInv'
  OBVIOUS
<1>1. ASSUME NEW o \in Orders, Settle(o) PROVE DoorInv'
  BY <1>1, SettleStep
<1>2. ASSUME NEW o \in Orders, Refund(o) PROVE DoorInv'
  BY <1>2, RefundStep
<1>3. ASSUME NEW d \in Doors, ClaimWins(d) \/ ClaimUnanswered(d) PROVE DoorInv'
  BY <1>3, SpendStep DEF ClaimWins, ClaimUnanswered
<1>4. ASSUME NEW d \in Doors,
             \/ \E t \in Tickets : Present(d, t)
             \/ CheckOrder(d) \/ ClaimLoses(d) \/ ScanFails(d)
             \/ Reread(d) \/ RereadFails(d) \/ NextHolder(d)
      PROVE DoorInv'
  BY <1>4, ScannerStep
<1>5. CASE UNCHANGED <<order, row, scan, entries>> /\ copy' \in [Orders -> OrderStatuses \cup {"none"}]
  BY <1>5 DEF DoorInv, TypeOK, RowsOK, RowOK, ScansOK, ScanOK
<1>6. ASSUME NEW o \in Orders, Poll(o) \/ CopyExpires(o) PROVE DoorInv'
  <2>1. copy' \in [Orders -> OrderStatuses \cup {"none"}]
    BY <1>6 DEF Poll, CopyExpires, DoorInv, TypeOK
  <2> QED BY <1>5, <1>6, <2>1 DEF Poll, CopyExpires
<1>7. CASE UNCHANGED vars
  BY <1>5, <1>7 DEF vars, DoorInv, TypeOK
<1> QED BY <1>1, <1>2, <1>3, <1>4, <1>6, <1>7 DEF Next

LEMMA DoorAlways == Spec => []DoorInv
  BY InitDoor, DoorStep, PTL DEF Spec

-----------------------------------------------------------------------------
(* However many scanners hold a copy of an unused ticket, one opens.       *)
THEOREM OneEntry == Spec => []OneEntryPerTicket
<1>1. DoorInv => OneEntryPerTicket
  BY DEF DoorInv, RowsOK, RowOK, OneEntryPerTicket
<1> QED BY <1>1, DoorAlways, PTL

(* Every answer a scanner shows is borne out by the tables.                *)
THEOREM ScreensTellTruth == Spec => []AnswersTrue
<1>1. DoorInv => AnswersTrue
  BY DEF DoorInv, ScansOK, ScanOK, AnswersTrue
<1> QED BY <1>1, DoorAlways, PTL

(* No interleaving lets a holder in on a refunded order.                   *)
THEOREM RefundShutsTheDoor == Spec => NoEntryOnceRefunded
<1> DEFINE A == \A t \in Tickets : entries'[t] # entries[t] => order[OrderOf[t]] = "paid"
<1>1. DoorInv /\ [Next]_vars => [A]_vars
  <2> SUFFICES ASSUME DoorInv, Next PROVE A
    OBVIOUS
  <2>1. ASSUME NEW d \in Doors, ClaimWins(d) PROVE A
    <3>1. scan[d].ticket \in Tickets /\ row[scan[d].ticket].status = "issued"
      BY <2>1 DEF ClaimWins, MayAdmit, DoorInv, TypeOK
    <3>2. order[OrderOf[scan[d].ticket]] = "paid"
      BY <3>1 DEF DoorInv, RowsOK, RowOK
    <3>3. \A t \in Tickets : t # scan[d].ticket => entries'[t] = entries[t]
      BY <2>1 DEF ClaimWins, DoorInv, TypeOK
    <3> QED BY <3>2, <3>3
  <2>2. CASE UNCHANGED entries
    BY <2>2
  <2> QED BY <2>1, <2>2 DEF Next, Settle, Refund, Poll, CopyExpires, Present, CheckOrder, ClaimLoses,
             ClaimUnanswered, ScanFails, Reread, RereadFails, NextHolder
<1> QED BY <1>1, DoorAlways, PTL DEF Spec, NoEntryOnceRefunded

(* Attendance is never rewritten.                                          *)
THEOREM AttendanceStands == Spec => AttendanceKept
<1> DEFINE A == \A t \in Tickets : row[t].by # Nobody => row'[t].by = row[t].by
<1>1. DoorInv /\ [Next]_vars => [A]_vars
  <2> SUFFICES ASSUME DoorInv, Next PROVE A
    OBVIOUS
  <2>1. ASSUME NEW d \in Doors, ClaimWins(d) \/ ClaimUnanswered(d) PROVE A
    <3>1. scan[d].ticket \in Tickets /\ row[scan[d].ticket].status = "issued"
      BY <2>1 DEF ClaimWins, ClaimUnanswered, MayAdmit, DoorInv, TypeOK
    <3>2. row[scan[d].ticket].by = Nobody
      BY <3>1 DEF DoorInv, RowsOK, RowOK
    <3>3. \A t \in Tickets : t # scan[d].ticket => row'[t] = row[t]
      BY <2>1 DEF ClaimWins, ClaimUnanswered, Admit, DoorInv, TypeOK
    <3> QED BY <3>2, <3>3
  <2>2. ASSUME NEW o \in Orders, Settle(o) \/ Refund(o) PROVE A
    BY <2>2 DEF Settle, Refund, VoidForOrder, DoorInv, TypeOK
  <2>3. CASE UNCHANGED row
    BY <2>3
  <2> QED BY <2>1, <2>2, <2>3 DEF Next, Poll, CopyExpires, Present, CheckOrder, ClaimLoses,
             ScanFails, Reread, RereadFails, NextHolder
<1> QED BY <1>1, DoorAlways, PTL DEF Spec, AttendanceKept

-----------------------------------------------------------------------------
(* Events.  An index keeps addresses apart, and an event that has tiers is *)
(* never dropped, so no more than the shape of the rows is needed.         *)
ShowRows == [status : Shows!Statuses, slug : EventIds \cup {"name"}, pin : Shows!Pins]
ShowHands ==
    [stage : {"free"}] \cup [stage : {"insert"}, event : EventIds, row : ShowRows]
    \cup [stage : Shows!Intents, event : EventIds, row : [status : Shows!Statuses, pin : Shows!Pins]]
ShowsShape ==
    /\ events \in [EventIds -> ShowRows \cup {Shows!Absent}] /\ tiers \in SUBSET EventIds
    /\ eventDesk \in [Callers -> ShowHands]
ShowsInv == ShowsShape /\ Shows!AddressesStand

LEMMA ShowsStart == Shows!Init => ShowsInv
  <1> SUFFICES ASSUME Shows!Init PROVE ShowsInv
    OBVIOUS
  <1>1. [stage |-> "free"] \in ShowHands
    BY DEF ShowHands
  <1>2. ShowsShape
    BY <1>1 DEF Shows!Init, ShowsShape, Shows!Free
  <1>3. Shows!AddressesStand
    BY DEF Shows!Init, Shows!AddressesStand
  <1> QED
    BY <1>2, <1>3 DEF ShowsInv

LEMMA RowsArePresent == \A r \in ShowRows : r # Shows!Absent
  <1> SUFFICES ASSUME NEW r \in ShowRows, r = Shows!Absent PROVE FALSE
    OBVIOUS
  <1>1. r.status \in Shows!Statuses /\ r.status = "absent"
    BY DEF ShowRows, Shows!Absent
  <1> QED
    BY <1>1 DEF Shows!Statuses

(* One row is written, under an address that no other event has.           *)
LEMMA RowWritten ==
  ASSUME ShowsInv, NEW e \in EventIds, NEW r \in ShowRows,
         events' = [events EXCEPT ![e] = r], tiers' = tiers,
         \A f \in EventIds : f # e /\ events[f] # Shows!Absent => events[f].slug # r.slug
  PROVE  events' \in [EventIds -> ShowRows \cup {Shows!Absent}] /\ Shows!AddressesStand'
  <1>1. events' \in [EventIds -> ShowRows \cup {Shows!Absent}]
    BY DEF ShowsInv, ShowsShape
  <1>2. events'[e] = r /\ r # Shows!Absent /\ \A f \in EventIds : f # e => events'[f] = events[f]
    BY RowsArePresent DEF ShowsInv, ShowsShape
  <1>3. Shows!Absent' = Shows!Absent
    BY DEF Shows!Absent
  <1>4. ASSUME NEW f \in EventIds, NEW g \in EventIds, events'[f] # Shows!Absent, events'[g] # Shows!Absent,
               events'[f].slug = events'[g].slug, f # g
        PROVE  FALSE
    <2>1. CASE f = e
      BY <1>2, <1>4, <2>1
    <2>2. CASE g = e
      BY <1>2, <1>4, <2>2
    <2>3. CASE f # e /\ g # e
      BY <1>2, <1>4, <2>3 DEF ShowsInv, Shows!AddressesStand
    <2> QED
      BY <2>1, <2>2, <2>3
  <1>5. \A f \in tiers' : events'[f] # Shows!Absent
    BY <1>2 DEF ShowsInv, ShowsShape, Shows!AddressesStand
  <1> QED
    BY <1>1, <1>3, <1>4, <1>5 DEF Shows!AddressesStand

LEMMA HandTaken ==
  ASSUME ShowsShape, NEW c \in Callers, NEW h \in ShowHands, eventDesk' = [eventDesk EXCEPT ![c] = h]
  PROVE  eventDesk' \in [Callers -> ShowHands]
  BY DEF ShowsShape

LEMMA AnswerIsShaped == ShowsShape => \A c \in Callers : Shows!Answer(c) => eventDesk' \in [Callers -> ShowHands]
  <1>1. Shows!Free \in ShowHands
    BY DEF ShowHands, Shows!Free
  <1> QED
    BY <1>1, HandTaken DEF Shows!Answer, Shows!InHand

(* The rows stand, and a hand is taken or put down.                        *)
LEMMA RowsStand ==
  ASSUME ShowsInv, UNCHANGED <<events, tiers>>, eventDesk' \in [Callers -> ShowHands]
  PROVE  ShowsInv'
  <1>1. ShowsShape'
    BY DEF ShowsInv, ShowsShape, Shows!Absent
  <1>2. Shows!AddressesStand'
    BY DEF ShowsInv, Shows!AddressesStand, Shows!Absent
  <1> QED
    BY <1>1, <1>2 DEF ShowsInv

LEMMA LocatedIsPin ==
  ASSUME NEW draft \in Drafts, NEW p \in Shows!Pins PROVE Shows!Located(draft, p) \subseteq Shows!Pins
  BY DEF Shows!Located, Shows!Pins

LEMMA AppliedIsStatus ==
  ASSUME NEW draft \in Drafts, NEW s \in Shows!Statuses PROVE Shows!Applied(draft, s) \in Shows!Statuses
  <1>1. draft.status \in Shows!Statuses \cup {""}
    BY HouseAssumption DEF Shows!DraftsAssumption
  <1> QED
    BY <1>1 DEF Shows!Applied

LEMMA WrittenFromCopy ==
  ASSUME ShowsInv, NEW c \in Callers, NEW line \in [status : Shows!Statuses, pin : Shows!Pins],
         eventDesk[c].event \in EventIds, Shows!Write(c, line)
  PROVE  ShowsInv'
  <1> DEFINE e == eventDesk[c].event
  <1>1. eventDesk' \in [Callers -> ShowHands] /\ tiers' = tiers
    BY AnswerIsShaped DEF ShowsInv, Shows!Write
  <1>2. CASE events[e] = Shows!Absent
    <2>1. events' = events
      BY <1>2 DEF Shows!Write
    <2> QED
      BY <1>1, <2>1, RowsStand
  <1>3. CASE events[e] # Shows!Absent
    <2>1. events[e] \in ShowRows
      BY <1>3 DEF ShowsInv, ShowsShape
    <2>2. PICK r \in ShowRows : r = [slug |-> events[e].slug, status |-> line.status, pin |-> line.pin]
      BY <2>1 DEF ShowRows
    <2>3. events' = [events EXCEPT ![e] = r]
      BY <1>3, <2>2 DEF Shows!Write
    <2>4. r.slug = events[e].slug
      BY <2>2
    <2>5. \A f \in EventIds : f # e /\ events[f] # Shows!Absent => events[f].slug # r.slug
      BY <1>3, <2>4 DEF ShowsInv, Shows!AddressesStand
    <2>6. events' \in [EventIds -> ShowRows \cup {Shows!Absent}] /\ Shows!AddressesStand'
      BY <1>1, <2>3, <2>5, RowWritten
    <2> QED
      BY <1>1, <2>6 DEF ShowsInv, ShowsShape, Shows!Absent
  <1> QED
    BY <1>2, <1>3

LEMMA ShowCreated ==
  ASSUME ShowsInv, NEW c \in Callers, NEW e \in EventIds, NEW draft \in Drafts, Shows!Create(c, e, draft)
  PROVE  ShowsInv'
  <1>1. CASE draft.valid
    <2>1. PICK pin \in Shows!Located(draft, "none") :
            Shows!InHand(c, [stage |-> "insert", event |-> e,
                row |-> [status |-> Shows!Applied(draft, "draft"), slug |-> Shows!AvailableSlug(e), pin |-> pin]])
      BY <1>1 DEF Shows!Create
    <2>2. pin \in Shows!Pins
      BY <2>1, LocatedIsPin DEF Shows!Pins
    <2>3. Shows!Applied(draft, "draft") \in Shows!Statuses
      BY AppliedIsStatus DEF Shows!Statuses
    <2>4. Shows!AvailableSlug(e) \in EventIds \cup {"name"}
      BY DEF Shows!AvailableSlug
    <2>5. PICK line \in ShowRows :
            line = [status |-> Shows!Applied(draft, "draft"), slug |-> Shows!AvailableSlug(e), pin |-> pin]
      BY <2>2, <2>3, <2>4 DEF ShowRows
    <2>6. PICK h \in ShowHands : h = [stage |-> "insert", event |-> e, row |-> line]
      BY DEF ShowHands
    <2>7. eventDesk' = [eventDesk EXCEPT ![c] = h]
      BY <2>1, <2>5, <2>6 DEF Shows!InHand
    <2>8. eventDesk' \in [Callers -> ShowHands]
      BY <2>7, HandTaken DEF ShowsInv
    <2> QED
      BY <2>8, RowsStand DEF Shows!Create
  <1>2. CASE ~draft.valid
    BY <1>2, AnswerIsShaped, RowsStand DEF Shows!Create, ShowsInv
  <1> QED
    BY <1>1, <1>2

LEMMA ShowInserted ==
  ASSUME ShowsInv, NEW c \in Callers, Shows!Insert(c)
  PROVE  ShowsInv'
  <1> DEFINE e == eventDesk[c].event
  <1> DEFINE r == eventDesk[c].row
  <1>1. eventDesk[c] \in ShowHands /\ eventDesk[c].stage = "insert"
    BY DEF ShowsInv, ShowsShape, Shows!Insert
  <1>2. e \in EventIds /\ r \in ShowRows
    BY <1>1 DEF ShowHands, Shows!Intents
  <1>3. eventDesk' \in [Callers -> ShowHands] /\ tiers' = tiers
    BY AnswerIsShaped DEF ShowsInv, Shows!Insert
  <1>4. CASE Shows!SlugFree(r.slug)
    <2>1. events' = [events EXCEPT ![e] = r]
      BY <1>4 DEF Shows!Insert
    <2>2. \A f \in EventIds : f # e /\ events[f] # Shows!Absent => events[f].slug # r.slug
      BY <1>4 DEF Shows!SlugFree, Shows!SlugExists
    <2>3. events' \in [EventIds -> ShowRows \cup {Shows!Absent}] /\ Shows!AddressesStand'
      BY <1>2, <1>3, <2>1, <2>2, RowWritten
    <2> QED
      BY <1>3, <2>3 DEF ShowsInv, ShowsShape, Shows!Absent
  <1>5. CASE ~Shows!SlugFree(r.slug)
    <2>1. events' = events
      BY <1>5 DEF Shows!Insert
    <2> QED
      BY <1>3, <2>1, RowsStand
  <1> QED
    BY <1>4, <1>5

LEMMA ShowRead ==
  ASSUME ShowsInv, NEW c \in Callers, NEW e \in EventIds, NEW mine \in BOOLEAN, NEW intent \in Shows!Intents,
         Shows!Read(c, e, mine, intent)
  PROVE  ShowsInv'
  <1>1. CASE events[e] # Shows!Absent /\ mine
    <2>1. events[e] \in ShowRows
      BY <1>1 DEF ShowsInv, ShowsShape
    <2>2. PICK line \in [status : Shows!Statuses, pin : Shows!Pins] :
            line = [status |-> events[e].status, pin |-> events[e].pin]
      BY <2>1 DEF ShowRows
    <2>3. PICK h \in ShowHands : h = [stage |-> intent, event |-> e, row |-> line]
      BY DEF ShowHands
    <2>4. eventDesk' = [eventDesk EXCEPT ![c] = h]
      BY <1>1, <2>2, <2>3 DEF Shows!Read, Shows!InHand
    <2>5. eventDesk' \in [Callers -> ShowHands]
      BY <2>4, HandTaken DEF ShowsInv
    <2> QED
      BY <2>5, RowsStand DEF Shows!Read
  <1>2. CASE ~(events[e] # Shows!Absent /\ mine)
    BY <1>2, AnswerIsShaped, RowsStand DEF Shows!Read, ShowsInv
  <1> QED
    BY <1>1, <1>2

LEMMA CopyInHand ==
  ASSUME ShowsInv, NEW c \in Callers, eventDesk[c].stage \in Shows!Intents
  PROVE  eventDesk[c].event \in EventIds /\ eventDesk[c].row \in [status : Shows!Statuses, pin : Shows!Pins]
  <1>1. eventDesk[c] \in ShowHands
    BY DEF ShowsInv, ShowsShape
  <1> QED
    BY <1>1 DEF ShowHands, Shows!Intents

LEMMA ShowChanged ==
  ASSUME ShowsInv, NEW c \in Callers,
         (\E draft \in Drafts : Shows!Update(c, draft)) \/ Shows!ChangeStatus(c) \/ Shows!PlacePin(c)
  PROVE  ShowsInv'
  <1> DEFINE Copies == [status : Shows!Statuses, pin : Shows!Pins]
  <1>0. eventDesk[c].stage \in Shows!Intents
    BY DEF Shows!Intents, Shows!Update, Shows!ChangeStatus, Shows!PlacePin
  <1>1. eventDesk[c].event \in EventIds /\ eventDesk[c].row \in Copies
    BY <1>0, CopyInHand
  <1>2. ASSUME NEW draft \in Drafts, Shows!Update(c, draft) PROVE ShowsInv'
    <2>1. CASE draft.valid
      <3>1. PICK pin \in Shows!Located(draft, eventDesk[c].row.pin) :
              Shows!Write(c, [eventDesk[c].row EXCEPT !.status = Shows!Applied(draft, @), !.pin = pin])
        BY <1>2, <2>1 DEF Shows!Update
      <3>2. pin \in Shows!Pins
        BY <1>1, <3>1, LocatedIsPin
      <3>3. Shows!Applied(draft, eventDesk[c].row.status) \in Shows!Statuses
        BY <1>1, AppliedIsStatus
      <3>4. [eventDesk[c].row EXCEPT !.status = Shows!Applied(draft, @), !.pin = pin] \in Copies
        BY <1>1, <3>2, <3>3
      <3> QED
        BY <1>1, <3>1, <3>4, WrittenFromCopy
    <2>2. CASE ~draft.valid
      BY <1>2, <2>2, AnswerIsShaped, RowsStand DEF Shows!Update, ShowsInv
    <2> QED
      BY <2>1, <2>2
  <1>3. CASE Shows!ChangeStatus(c)
    <2>1. [eventDesk[c].row EXCEPT !.status = IF eventDesk[c].stage = "publish" THEN "published" ELSE "draft"] \in Copies
      BY <1>1 DEF Shows!Statuses
    <2> QED
      BY <1>1, <1>3, <2>1, WrittenFromCopy DEF Shows!ChangeStatus
  <1>4. CASE Shows!PlacePin(c)
    <2>1. [eventDesk[c].row EXCEPT !.pin = "hand"] \in Copies
      BY <1>1 DEF Shows!Pins
    <2> QED
      BY <1>1, <1>4, <2>1, WrittenFromCopy DEF Shows!PlacePin
  <1> QED
    BY <1>2, <1>3, <1>4, SMTT(30)

LEMMA ShowDropped ==
  ASSUME ShowsInv, NEW c \in Callers, Shows!Drop(c)
  PROVE  ShowsInv'
  <1> DEFINE e == eventDesk[c].event
  <1>1. e \in EventIds
    BY CopyInHand DEF Shows!Drop, Shows!Intents
  <1>2. eventDesk' \in [Callers -> ShowHands] /\ tiers' = tiers
    BY AnswerIsShaped DEF ShowsInv, Shows!Drop
  <1>3. CASE Shows!MayDrop(e)
    <2>1. events' = [events EXCEPT ![e] = Shows!Absent]
      BY <1>3 DEF Shows!Drop
    <2>2. events'[e] = Shows!Absent /\ \A f \in EventIds : f # e => events'[f] = events[f]
      BY <1>1, <2>1 DEF ShowsInv, ShowsShape
    <2>3. ShowsShape'
      BY <1>2, <2>1 DEF ShowsInv, ShowsShape, Shows!Absent
    <2>4. e \notin tiers
      BY <1>3 DEF Shows!MayDrop
    <2>5. Shows!AddressesStand'
      BY <1>2, <2>2, <2>4 DEF ShowsInv, ShowsShape, Shows!AddressesStand, Shows!Absent
    <2> QED
      BY <2>3, <2>5 DEF ShowsInv
  <1>4. CASE ~Shows!MayDrop(e)
    <2>1. events' = events
      BY <1>4 DEF Shows!Drop
    <2> QED
      BY <1>2, <2>1, RowsStand
  <1> QED
    BY <1>3, <1>4

LEMMA ShowsKept == ShowsInv /\ [Shows!Next]_showsVars => ShowsInv'
  <1> SUFFICES ASSUME ShowsInv, [Shows!Next]_showsVars PROVE ShowsInv'
    OBVIOUS
  <1>1. ASSUME NEW e \in EventIds, Shows!AddTier(e) \/ Shows!DropTier(e) PROVE ShowsInv'
    <2>1. ShowsShape'
      BY <1>1 DEF ShowsInv, ShowsShape, Shows!AddTier, Shows!DropTier, Shows!Absent
    <2>2. Shows!AddressesStand'
      BY <1>1 DEF ShowsInv, Shows!AddTier, Shows!DropTier, Shows!AddressesStand, Shows!Absent
    <2> QED
      BY <2>1, <2>2 DEF ShowsInv
  <1>2. CASE UNCHANGED showsVars
    BY <1>2, RowsStand DEF showsVars, ShowsInv, ShowsShape
  <1> QED
    BY <1>1, <1>2, ShowCreated, ShowRead, ShowInserted, ShowChanged, ShowDropped DEF Shows!Next

-----------------------------------------------------------------------------
(* Pictures.  A picture on its way in is in one request's hands and is no  *)
(* row yet, so what is taken back or discarded is never a row that stands. *)
Uploading == {"queue", "decode", "store", "position", "row"}
Undecided == {"queue", "decode", "store", "position"}
PictureHands ==
    [stage : {"free", "drop"}] \cup [stage : Undecided, id : Nat, derived : BOOLEAN]
    \cup [stage : {"row"}, id : Nat, position : Nat] \cup [stage : {"unlink"}, id : Nat]
    \cup [stage : {"clear"}, ids : SUBSET Nat]
    \cup [stage : {"discard"}, ids : SUBSET Nat, next : {"free", "drop"}]
PicturesShape ==
    /\ eventRow \in {"plain", "tiers", "gone"} /\ named \in 0..MaxPictures
    /\ hands \in [Callers -> PictureHands]

Pending == {u \in Callers : hands[u].stage \in Undecided}
Decoding == {u \in Callers : hands[u].stage = "decode"}

(* What one request has in hand.                                           *)
HandOK(u) ==
    /\ hands[u].stage \in Uploading => hands[u].id \in (1..named) \ Pictures!Rows
    /\ hands[u].stage = "unlink" => hands[u].id \in 1..named
    /\ hands[u].stage \in {"position", "row"} => <<hands[u].id, "original">> \in objects
    /\ hands[u].stage \in {"clear", "discard"} => hands[u].ids \subseteq 1..named
    /\ hands[u].stage = "discard" => hands[u].ids \cap Pictures!Rows = {}
    /\ hands[u].stage = "row" => hands[u].position + 1 + Cardinality(Pending) <= named

(* What one request uploads, no other has.                                 *)
Apart(u, v) ==
    hands[u].stage \in Uploading =>
        /\ hands[v].stage \in Uploading \cup {"unlink"} => hands[v].id # hands[u].id
        /\ hands[v].stage \in {"clear", "discard"} => hands[u].id \notin hands[v].ids

(* Positions never outrun the pictures that were named and decided.        *)
Placed ==
    /\ Cardinality(Pending) <= named
    /\ \A m \in Pictures!Rows :
          m \in 1..named /\ gallery[m] \in Nat /\ gallery[m] + 1 + Cardinality(Pending) <= named

PicturesInv ==
    /\ PicturesShape /\ Placed /\ Pictures!NoBrokenTile
    /\ \A u \in Callers : HandOK(u)
    /\ \A u, v \in Callers : u # v => Apart(u, v)

LEMMA NoRowsAtFirst == DOMAIN <<>> = {}
  OBVIOUS

LEMMA PicturesStart == Pictures!Init => PicturesInv
  <1> SUFFICES ASSUME Pictures!Init PROVE PicturesInv
    OBVIOUS
  <1>0. MaxPictures \in Nat /\ Slots \in Nat
    BY HouseAssumption DEF Pictures!GalleryAssumption
  <1>1. [stage |-> "free"] \in PictureHands
    BY DEF PictureHands
  <1>2. PicturesShape
    BY <1>0, <1>1 DEF Pictures!Init, PicturesShape, Pictures!Free
  <1>3. Pictures!Rows = {}
    BY NoRowsAtFirst DEF Pictures!Init, Pictures!Rows
  <1>4. \A u \in Callers : hands[u].stage = "free"
    BY DEF Pictures!Init, Pictures!Free
  <1>5. Pending = {} /\ Decoding = {}
    BY <1>4 DEF Pending, Decoding, Undecided
  <1>6. Placed
    BY <1>3, <1>5, FS_EmptySet DEF Placed, Pictures!Init
  <1>7. Pictures!NoBrokenTile
    <2>1. Pictures!Cardinality(Decoding) = 0
      BY <1>5, FS_EmptySet, CountedAlike
    <2> QED
      BY <1>0, <1>3, <2>1 DEF Pictures!NoBrokenTile, Decoding
  <1>8. \A u \in Callers : HandOK(u)
    BY <1>4 DEF HandOK, Uploading
  <1>9. \A u, v \in Callers : u # v => Apart(u, v)
    BY <1>4 DEF Apart, Uploading
  <1> QED
    BY <1>2, <1>6, <1>7, <1>8, <1>9 DEF PicturesInv

(* How many decide, once one request has moved on.                         *)
LEMMA PendingCounted ==
  ASSUME PicturesShape, NEW u \in Callers, NEW h \in PictureHands, hands' = [hands EXCEPT ![u] = h]
  PROVE  /\ Cardinality(Pending) \in Nat /\ Cardinality(Pending') \in Nat
         /\ hands[u].stage \in Undecided /\ h.stage \notin Undecided =>
              Cardinality(Pending') = Cardinality(Pending) - 1
         /\ hands[u].stage \notin Undecided /\ h.stage \in Undecided =>
              Cardinality(Pending') = Cardinality(Pending) + 1
         /\ (hands[u].stage \in Undecided <=> h.stage \in Undecided) =>
              Cardinality(Pending') = Cardinality(Pending)
  <1>1. IsFiniteSet(Callers)
    BY HouseAssumption, CountedAlike DEF Pictures!GalleryAssumption
  <1>2. Pending \subseteq Callers /\ Pending' \subseteq Callers
    BY DEF Pending
  <1>3. IsFiniteSet(Pending) /\ IsFiniteSet(Pending')
    BY <1>1, <1>2, FS_Subset
  <1>4. hands'[u] = h /\ \A v \in Callers : v # u => hands'[v] = hands[v]
    BY DEF PicturesShape
  <1>5. hands[u].stage \in Undecided /\ h.stage \notin Undecided => u \in Pending /\ Pending' = Pending \ {u}
    BY <1>4 DEF Pending
  <1>6. hands[u].stage \notin Undecided /\ h.stage \in Undecided => u \notin Pending /\ Pending' = Pending \cup {u}
    BY <1>4 DEF Pending
  <1>7. (hands[u].stage \in Undecided <=> h.stage \in Undecided) => Pending' = Pending
    BY <1>4 DEF Pending
  <1>8. Cardinality(Pending) \in Nat /\ Cardinality(Pending') \in Nat
    BY <1>3, FS_CardinalityType
  <1>9. Cardinality(Pending \ {u}) = IF u \in Pending THEN Cardinality(Pending) - 1 ELSE Cardinality(Pending)
    BY <1>3, FS_RemoveElement
  <1>10. Cardinality(Pending \cup {u}) = IF u \in Pending THEN Cardinality(Pending) ELSE Cardinality(Pending) + 1
    BY <1>3, FS_AddElement
  <1> QED
    BY <1>5, <1>6, <1>7, <1>8, <1>9, <1>10

(* No more are decoded than there are slots, if one was free.              *)
LEMMA SlotsHold ==
  ASSUME PicturesShape, NEW u \in Callers, NEW h \in PictureHands, hands' = [hands EXCEPT ![u] = h],
         Cardinality(Decoding) <= Slots,
         h.stage = "decode" => Cardinality(Decoding) < Slots
  PROVE  Cardinality(Decoding') <= Slots
  <1>1. IsFiniteSet(Callers) /\ Slots \in Nat
    BY HouseAssumption, CountedAlike DEF Pictures!GalleryAssumption
  <1>2. IsFiniteSet(Decoding)
    BY <1>1, FS_Subset DEF Decoding
  <1>3. hands'[u] = h /\ \A v \in Callers : v # u => hands'[v] = hands[v]
    BY DEF PicturesShape
  <1>4. Cardinality(Decoding) \in Nat
    BY <1>2, FS_CardinalityType
  <1>5. CASE h.stage = "decode"
    <2>1. Decoding' = Decoding \cup {u}
      BY <1>3, <1>5 DEF Decoding
    <2>2. Cardinality(Decoding \cup {u}) = IF u \in Decoding THEN Cardinality(Decoding) ELSE Cardinality(Decoding) + 1
      BY <1>2, FS_AddElement
    <2>3. Cardinality(Decoding') \in {Cardinality(Decoding), Cardinality(Decoding) + 1}
      BY <2>1, <2>2
    <2> QED
      BY <1>1, <1>4, <1>5, <2>3
  <1>6. CASE h.stage # "decode"
    <2>1. Decoding' \subseteq Decoding
      BY <1>3, <1>6 DEF Decoding
    <2>2. Cardinality(Decoding') <= Cardinality(Decoding) /\ IsFiniteSet(Decoding')
      BY <1>2, <2>1, FS_Subset
    <2>3. Cardinality(Decoding') \in Nat
      BY <2>2, FS_CardinalityType
    <2> QED
      BY <1>1, <1>4, <2>2, <2>3
  <1> QED
    BY <1>5, <1>6

(* One request moves on: the ids it may name, the rows it may add, and the *)
(* bytes it may take away.                                                 *)
LEMMA PictureMove ==
  ASSUME PicturesInv, NEW u \in Callers, NEW h \in PictureHands, hands' = [hands EXCEPT ![u] = h],
         eventRow' \in {"plain", "tiers", "gone"}, named' \in {named, named + 1}, named' <= MaxPictures,
         \A m \in Pictures!Rows' :
            \/ m \in Pictures!Rows /\ gallery'[m] = gallery[m]
            \/ hands[u].stage = "row" /\ m = hands[u].id /\ gallery'[m] = hands[u].position,
         \A m \in Pictures!Rows' \ doubted' : <<m, "original">> \in objects',
         \A v \in Callers : v # u /\ hands[v].stage \in {"position", "row"} =>
            <<hands[v].id, "original">> \in objects',
         eventRow' = "gone" => Pictures!Rows' = {},
         h.stage = "decode" => Pictures!SlotFree,
         h.stage \in Uploading =>
            /\ h.id \notin Pictures!Rows'
            /\ \/ h.id = named + 1 /\ named' = named + 1
               \/ hands[u].stage \in Uploading /\ h.id = hands[u].id,
         h.stage \in Undecided => hands[u].stage \in Undecided \/ named' = named + 1,
         h.stage \in {"position", "row"} => <<h.id, "original">> \in objects',
         h.stage = "unlink" => h.id \in Pictures!Rows,
         h.stage = "clear" => h.ids \subseteq Pictures!Rows,
         h.stage = "discard" =>
            /\ h.ids \cap Pictures!Rows' = {}
            /\ \/ h.ids \subseteq Pictures!Rows
               \/ hands[u].stage = "clear" /\ h.ids = hands[u].ids,
         h.stage = "row" => hands[u].stage = "position" /\ h.position + Cardinality(Pending) <= named
  PROVE  PicturesInv'
  <1> DEFINE P == Cardinality(Pending)
  <1> DEFINE Q == Cardinality(Pending')
  <1>1. /\ P \in Nat /\ Q \in Nat
        /\ hands[u].stage \in Undecided /\ h.stage \notin Undecided => Q = P - 1
        /\ hands[u].stage \notin Undecided /\ h.stage \in Undecided => Q = P + 1
        /\ (hands[u].stage \in Undecided <=> h.stage \in Undecided) => Q = P
    BY PendingCounted DEF PicturesInv
  <1>2. hands'[u] = h /\ \A v \in Callers : v # u => hands'[v] = hands[v]
    BY DEF PicturesInv, PicturesShape
  <1>3. /\ named \in Nat /\ named' \in Nat /\ named <= named' /\ hands[u] \in PictureHands
        /\ MaxPictures \in Nat
    BY HouseAssumption DEF PicturesInv, PicturesShape, Pictures!GalleryAssumption
  <1>4. Q - named' <= P - named
    BY <1>1, <1>3
  <1>5. PicturesShape'
    BY <1>3 DEF PicturesInv, PicturesShape
  <1>6. hands[u].stage = "row" => hands[u].position \in Nat /\ hands[u].id \in 1..named /\ hands[u].position + 1 + P <= named
    <2>1. hands[u].stage = "row" => hands[u].position \in Nat
      BY <1>3 DEF PictureHands, Undecided
    <2> QED
      BY <2>1 DEF PicturesInv, HandOK, Uploading
  <1>7. Placed'
    <2>1. P <= named
      BY DEF PicturesInv, Placed
    <2>2. ASSUME NEW m \in Pictures!Rows'
          PROVE  m \in 1..named' /\ gallery'[m] \in Nat /\ gallery'[m] + 1 + Q <= named'
      <3>1. m \in 1..named /\ gallery'[m] \in Nat /\ gallery'[m] + 1 + P <= named
        BY <1>6, <2>2 DEF PicturesInv, Placed
      <3> QED
        BY <1>1, <1>3, <1>4, <3>1
    <2> QED
      BY <1>1, <1>3, <1>4, <2>1, <2>2 DEF Placed
  <1>8. Pictures!NoBrokenTile'
    <2>1. Cardinality(Decoding) <= Slots /\ (h.stage = "decode" => Cardinality(Decoding) < Slots)
      BY CountedAlike DEF PicturesInv, Pictures!NoBrokenTile, Pictures!SlotFree, Decoding
    <2>2. Cardinality(Decoding') <= Slots
      BY <2>1, SlotsHold DEF PicturesInv
    <2> QED
      BY <2>2, CountedAlike DEF Pictures!NoBrokenTile, Decoding
  <1>9. ASSUME NEW v \in Callers, v # u PROVE HandOK(v)'
    <2>1. HandOK(v) /\ Apart(u, v) /\ Apart(v, u) /\ hands'[v] = hands[v] /\ hands[v] \in PictureHands
      BY <1>2, <1>9 DEF PicturesInv, PicturesShape
    <2>2. hands[v].stage \in Uploading => hands[v].id \in (1..named') \ Pictures!Rows'
      BY <1>3, <2>1 DEF HandOK, Apart, Uploading
    <2>3. hands[v].stage \in {"clear", "discard"} => hands[v].ids \subseteq 1..named'
      BY <1>3, <2>1 DEF HandOK
    <2>4. hands[v].stage = "discard" => hands[v].ids \cap Pictures!Rows' = {}
      BY <2>1 DEF HandOK, Apart, Uploading
    <2>5. hands[v].stage = "row" => hands[v].position \in Nat
      BY <2>1 DEF PictureHands, Undecided
    <2>6. hands[v].stage = "row" => hands[v].position + 1 + Q <= named'
      BY <1>1, <1>3, <1>4, <2>1, <2>5 DEF HandOK
    <2>7. hands[v].stage = "unlink" => hands[v].id \in 1..named'
      BY <1>3, <2>1 DEF HandOK
    <2>8. hands[v].stage \in {"position", "row"} => <<hands[v].id, "original">> \in objects'
      BY <1>9
    <2> QED
      BY <2>1, <2>2, <2>3, <2>4, <2>6, <2>7, <2>8 DEF HandOK
  <1>10. HandOK(u)'
    <2>1. h.stage \in Uploading => h.id \in (1..named') \ Pictures!Rows'
      BY <1>3 DEF PicturesInv, HandOK
    <2>2. h.stage = "unlink" => h.id \in 1..named'
      BY <1>3 DEF PicturesInv, Placed
    <2>3. h.stage \in {"clear", "discard"} => h.ids \subseteq 1..named'
      <3>1. Pictures!Rows \subseteq 1..named'
        BY <1>3 DEF PicturesInv, Placed
      <3>2. hands[u].stage = "clear" => hands[u].ids \subseteq 1..named'
        <4>1. hands[u].stage = "clear" => hands[u].ids \subseteq 1..named
          BY DEF PicturesInv, HandOK
        <4> QED
          BY <1>3, <4>1
      <3> QED
        BY <3>1, <3>2
    <2>4. h.stage = "row" => h.position + 1 + Q <= named'
      <3>1. h.stage = "row" => h.position \in Nat
        BY DEF PictureHands, Undecided
      <3>2. h.stage = "row" => Q = P - 1
        BY <1>1 DEF Undecided
      <3> QED
        BY <1>1, <1>3, <3>1, <3>2
    <2> QED
      BY <1>2, <2>1, <2>2, <2>3, <2>4 DEF HandOK
  <1>11. ASSUME NEW v \in Callers, v # u PROVE Apart(u, v)' /\ Apart(v, u)'
    <2>1. HandOK(v) /\ HandOK(u) /\ Apart(u, v) /\ Apart(v, u) /\ hands'[v] = hands[v] /\ hands'[u] = h
      BY <1>2, <1>11 DEF PicturesInv
    <2>2. h.stage \in Uploading =>
            /\ hands[v].stage \in Uploading \cup {"unlink"} => hands[v].id # h.id
            /\ hands[v].stage \in {"clear", "discard"} => h.id \notin hands[v].ids
      BY <1>3, <2>1 DEF HandOK, Apart
    <2>3. hands[v].stage \in Uploading =>
            /\ h.stage \in Uploading \cup {"unlink"} => hands[v].id # h.id
            /\ h.stage \in {"clear", "discard"} => hands[v].id \notin h.ids
      BY <1>3, <2>1, <2>2 DEF HandOK, Apart, Uploading
    <2> QED
      BY <2>1, <2>2, <2>3 DEF Apart
  <1>12. ASSUME NEW v \in Callers, NEW w \in Callers, v # w PROVE Apart(v, w)'
    <2>1. CASE v # u /\ w # u
      BY <1>2, <1>12, <2>1 DEF PicturesInv, Apart
    <2> QED
      BY <1>11, <1>12, <2>1
  <1> QED
    BY <1>5, <1>7, <1>8, <1>9, <1>10, <1>12 DEF PicturesInv

(* What a request's stage says of its hand.                                *)
LEMMA HandRead ==
  ASSUME PicturesInv, NEW u \in Callers
  PROVE  /\ hands[u] \in PictureHands /\ HandOK(u)
         /\ hands[u].stage \in Undecided => hands[u].id \in Nat /\ hands[u].derived \in BOOLEAN
         /\ hands[u].stage \in {"row", "unlink"} => hands[u].id \in Nat
         /\ hands[u].stage \in {"clear", "discard"} => hands[u].ids \in SUBSET Nat
         /\ hands[u].stage = "discard" => hands[u].next \in {"free", "drop"}
  <1>1. hands[u] \in PictureHands /\ HandOK(u)
    BY DEF PicturesInv, PicturesShape
  <1> QED
    BY <1>1 DEF PictureHands, Undecided

(* What stands when a step leaves the rows or the bytes alone.             *)
LEMMA StandingTiles ==
  ASSUME PicturesInv
  PROVE  /\ \A m \in Pictures!Rows \ doubted : <<m, "original">> \in objects
         /\ eventRow = "gone" => Pictures!Rows = {}
         /\ \A v \in Callers : hands[v].stage \in {"position", "row"} => <<hands[v].id, "original">> \in objects
         /\ eventRow \in {"plain", "tiers", "gone"} /\ named \in Nat /\ named <= MaxPictures
  <1>1. MaxPictures \in Nat
    BY HouseAssumption DEF Pictures!GalleryAssumption
  <1> QED
    BY <1>1 DEF PicturesInv, PicturesShape, HandOK, Pictures!NoBrokenTile

(* A step that moves a hand and nothing else.                              *)
LEMMA HandMoved ==
  ASSUME PicturesInv, NEW u \in Callers, NEW h \in PictureHands, hands' = [hands EXCEPT ![u] = h],
         UNCHANGED <<eventRow, gallery, named, doubted>>, objects \subseteq objects',
         h.stage = "decode" => Pictures!SlotFree,
         h.stage \in Uploading => hands[u].stage \in Uploading /\ h.id = hands[u].id,
         h.stage \in Undecided => hands[u].stage \in Undecided,
         h.stage \in {"position", "row"} => <<h.id, "original">> \in objects',
         h.stage = "unlink" => h.id \in Pictures!Rows,
         h.stage = "clear" => h.ids \subseteq Pictures!Rows,
         h.stage # "discard",
         h.stage = "row" => hands[u].stage = "position" /\ h.position + Cardinality(Pending) <= named
  PROVE  PicturesInv'
  <1>1. Pictures!Rows' = Pictures!Rows
    BY DEF Pictures!Rows
  <1>2. hands[u].stage \in Uploading => hands[u].id \notin Pictures!Rows
    BY DEF PicturesInv, HandOK
  <1>3. h.stage \in Uploading => h.id \notin Pictures!Rows'
    BY <1>1, <1>2
  <1>4. \A m \in Pictures!Rows' : m \in Pictures!Rows /\ gallery'[m] = gallery[m]
    BY <1>1
  <1>5. \A m \in Pictures!Rows' \ doubted' : <<m, "original">> \in objects'
    BY <1>1, StandingTiles
  <1>6. \A v \in Callers : v # u /\ hands[v].stage \in {"position", "row"} => <<hands[v].id, "original">> \in objects'
    BY StandingTiles
  <1>7. /\ eventRow' \in {"plain", "tiers", "gone"} /\ named' \in {named, named + 1} /\ named' <= MaxPictures
        /\ eventRow' = "gone" => Pictures!Rows' = {}
    BY <1>1, StandingTiles
  <1> QED
    BY <1>3, <1>4, <1>5, <1>6, <1>7, PictureMove

(* A request ends: its bytes may have been taken back, and no row is born. *)
LEMMA HandEnds ==
  ASSUME PicturesInv, NEW u \in Callers, NEW h \in PictureHands, hands' = [hands EXCEPT ![u] = h],
         h.stage \in {"free", "drop"}, UNCHANGED named,
         eventRow' \in {"plain", "tiers", "gone"}, eventRow' = "gone" => Pictures!Rows' = {},
         \A m \in Pictures!Rows' :
            \/ m \in Pictures!Rows /\ gallery'[m] = gallery[m]
            \/ hands[u].stage = "row" /\ m = hands[u].id /\ gallery'[m] = hands[u].position,
         \A m \in Pictures!Rows' \ doubted' : <<m, "original">> \in objects',
         \A v \in Callers : v # u /\ hands[v].stage \in {"position", "row"} =>
            <<hands[v].id, "original">> \in objects'
  PROVE  PicturesInv'
  <1>1. named' \in {named, named + 1} /\ named' <= MaxPictures
    BY StandingTiles
  <1> QED
    BY <1>1, PictureMove DEF Uploading, Undecided

LEMMA PlainHands == [stage |-> "free"] \in PictureHands /\ [stage |-> "drop"] \in PictureHands
  BY DEF PictureHands

LEMMA FreeHand == Pictures!Free \in PictureHands /\ Pictures!Free.stage = "free"
  BY PlainHands DEF Pictures!Free

(* Bytes of ids that are no rows, and in nobody's hands, are taken away.   *)
LEMMA BytesTaken ==
  ASSUME PicturesInv, NEW u \in Callers, NEW ids \in SUBSET Nat,
         objects' = objects \ {<<m, "original">> : m \in ids},
         ids \cap (Pictures!Rows \ doubted) = {},
         \A v \in Callers : v # u /\ hands[v].stage \in {"position", "row"} => hands[v].id \notin ids
  PROVE  /\ \A m \in Pictures!Rows \ doubted : <<m, "original">> \in objects'
         /\ \A v \in Callers : v # u /\ hands[v].stage \in {"position", "row"} => <<hands[v].id, "original">> \in objects'
  BY StandingTiles

(* A request takes its own original back, or fails to.                     *)
LEMMA TakenBack ==
  ASSUME PicturesInv, NEW u \in Callers, hands[u].stage \in {"position", "row"}, Pictures!TakeBack(hands[u].id)
  PROVE  /\ \A m \in Pictures!Rows \ doubted : <<m, "original">> \in objects'
         /\ \A v \in Callers : v # u /\ hands[v].stage \in {"position", "row"} => <<hands[v].id, "original">> \in objects'
  <1> DEFINE id == hands[u].id
  <1>1. id \notin Pictures!Rows
    BY DEF PicturesInv, HandOK, Uploading
  <1>2. \A v \in Callers : v # u /\ hands[v].stage \in {"position", "row"} => hands[v].id # id
    BY DEF PicturesInv, Apart, Uploading
  <1>3. CASE objects' = objects
    BY <1>3, StandingTiles
  <1>4. CASE objects' = objects \ {<<id, "original">>}
    <2>1. \A m : m # id /\ <<m, "original">> \in objects => <<m, "original">> \in objects'
      BY <1>4
    <2> QED
      BY <1>1, <1>2, <2>1, StandingTiles
  <1> QED
    BY <1>3, <1>4 DEF Pictures!TakeBack

LEMMA PictureAdded ==
  ASSUME PicturesInv, NEW u \in Callers, NEW kind \in Pictures!Kinds, Pictures!Add(u, kind)
  PROVE  PicturesInv'
  <1>1. named \in Nat /\ MaxPictures \in Nat /\ named < MaxPictures
    BY StandingTiles, HouseAssumption DEF Pictures!Add, Pictures!GalleryAssumption
  <1>2. CASE kind \in {"image", "video"} /\ ~Pictures!Full
    <2>1. named' = named + 1
      BY <1>2 DEF Pictures!Add
    <2>2. PICK h \in PictureHands :
            h = [stage |-> IF kind = "image" THEN "queue" ELSE "store", id |-> named', derived |-> FALSE]
      <3>1. named' \in Nat /\ (IF kind = "image" THEN "queue" ELSE "store") \in Undecided
        BY <1>1, <2>1 DEF Undecided
      <3>2. [stage |-> IF kind = "image" THEN "queue" ELSE "store", id |-> named', derived |-> FALSE]
              \in [stage : Undecided, id : Nat, derived : BOOLEAN]
        BY <3>1
      <3> QED
        BY <3>2 DEF PictureHands
    <2>3. hands' = [hands EXCEPT ![u] = h]
      BY <1>2, <2>2 DEF Pictures!Add, Pictures!Goes
    <2>4. h.stage \in {"queue", "store"} /\ h.id = named + 1
      BY <2>1, <2>2
    <2>5. UNCHANGED <<eventRow, gallery, objects, doubted>>
      BY DEF Pictures!Add
    <2>6. Pictures!Rows' = Pictures!Rows
      BY <2>5 DEF Pictures!Rows
    <2>7. h.id \notin Pictures!Rows'
      BY <1>1, <2>4, <2>6 DEF PicturesInv, Placed
    <2>8. \A m \in Pictures!Rows' : m \in Pictures!Rows /\ gallery'[m] = gallery[m]
      BY <2>5, <2>6
    <2>9. \A m \in Pictures!Rows' \ doubted' : <<m, "original">> \in objects'
      BY <2>5, <2>6, StandingTiles
    <2>10. \A v \in Callers : v # u /\ hands[v].stage \in {"position", "row"} => <<hands[v].id, "original">> \in objects'
      BY <2>5, StandingTiles
    <2>11. /\ eventRow' \in {"plain", "tiers", "gone"} /\ named' \in {named, named + 1} /\ named' <= MaxPictures
           /\ eventRow' = "gone" => Pictures!Rows' = {}
      BY <1>1, <2>1, <2>5, <2>6, StandingTiles
    <2> QED
      BY <2>1, <2>3, <2>4, <2>7, <2>8, <2>9, <2>10, <2>11, PictureMove
  <1>3. CASE ~(kind \in {"image", "video"} /\ ~Pictures!Full)
    <2>1. hands' = [hands EXCEPT ![u] = Pictures!Free] /\ UNCHANGED <<eventRow, gallery, objects, named, doubted>>
      BY <1>3 DEF Pictures!Add, Pictures!Ends, Pictures!Goes
    <2> QED
      BY <2>1, FreeHand, HandMoved DEF Uploading, Undecided
  <1> QED
    BY <1>2, <1>3

(* The hand of a request that has yet to place its picture.                *)
LEMMA UndecidedHand ==
  ASSUME PicturesInv, NEW u \in Callers, hands[u].stage \in Undecided, NEW s \in Undecided, NEW ok \in BOOLEAN
  PROVE  /\ [hands[u] EXCEPT !.stage = s, !.derived = ok] = [stage |-> s, id |-> hands[u].id, derived |-> ok]
         /\ [hands[u] EXCEPT !.stage = s] = [stage |-> s, id |-> hands[u].id, derived |-> hands[u].derived]
         /\ [stage |-> s, id |-> hands[u].id, derived |-> ok] \in PictureHands
         /\ [stage |-> s, id |-> hands[u].id, derived |-> hands[u].derived] \in PictureHands
  <1>1. hands[u] \in [stage : Undecided, id : Nat, derived : BOOLEAN]
    BY HandRead DEF PictureHands, Undecided
  <1>2. [hands[u] EXCEPT !.stage = s, !.derived = ok] = [stage |-> s, id |-> hands[u].id, derived |-> ok]
    <2>1. PICK k : k = [hands[u] EXCEPT !.stage = s, !.derived = ok]
      OBVIOUS
    <2>2. /\ k \in [stage : Undecided, id : Nat, derived : BOOLEAN]
          /\ k.stage = s /\ k.id = hands[u].id /\ k.derived = ok
      BY <1>1, <2>1
    <2>3. k = [stage |-> s, id |-> hands[u].id, derived |-> ok]
      BY <2>2
    <2> QED
      BY <2>1, <2>3
  <1>3. [hands[u] EXCEPT !.stage = s] = [stage |-> s, id |-> hands[u].id, derived |-> hands[u].derived]
    BY <1>1
  <1>4. [stage |-> s, id |-> hands[u].id, derived |-> ok] \in [stage : Undecided, id : Nat, derived : BOOLEAN]
    BY <1>1
  <1>5. [stage |-> s, id |-> hands[u].id, derived |-> hands[u].derived] \in [stage : Undecided, id : Nat, derived : BOOLEAN]
    BY <1>1
  <1> QED
    BY <1>2, <1>3, <1>4, <1>5 DEF PictureHands

LEMMA PictureDecoded ==
  ASSUME PicturesInv, NEW u \in Callers, Pictures!Inspect(u) \/ Pictures!Process(u)
  PROVE  PicturesInv'
  <1>1. hands[u].stage \in Undecided /\ UNCHANGED <<eventRow, gallery, objects, named, doubted>>
    BY DEF Pictures!Inspect, Pictures!Process, Undecided
  <1>2. hands[u].derived \in BOOLEAN /\ "store" \in Undecided /\ "decode" \in Undecided
    BY <1>1, HandRead DEF Undecided
  <1>3. ASSUME NEW s \in {"store", "decode"}, NEW ok \in BOOLEAN, s = "decode" => Pictures!SlotFree,
               hands' = [hands EXCEPT ![u] = [stage |-> s, id |-> hands[u].id, derived |-> ok]]
        PROVE  PicturesInv'
    <2>1. PICK h \in PictureHands : h = [stage |-> s, id |-> hands[u].id, derived |-> ok]
      BY <1>1, <1>2, UndecidedHand
    <2>2. hands' = [hands EXCEPT ![u] = h] /\ h.stage = s /\ h.id = hands[u].id
      BY <1>3, <2>1
    <2> QED
      BY <1>1, <1>3, <2>2, HandMoved DEF Uploading, Undecided
  <1>4. CASE Pictures!Process(u)
    <2>1. PICK ok \in BOOLEAN : hands' = [hands EXCEPT ![u] = [hands[u] EXCEPT !.stage = "store", !.derived = ok]]
      BY <1>4 DEF Pictures!Process, Pictures!Goes
    <2>2. hands' = [hands EXCEPT ![u] = [stage |-> "store", id |-> hands[u].id, derived |-> ok]]
      <3>1. [hands[u] EXCEPT !.stage = "store", !.derived = ok] = [stage |-> "store", id |-> hands[u].id, derived |-> ok]
        BY <1>1, <1>2, UndecidedHand, ZenonT(60)
      <3> QED
        BY <2>1, <3>1
    <2> QED
      BY <1>3, <2>2
  <1>5. CASE Pictures!Inspect(u)
    <2>1. CASE Pictures!SlotFree /\ hands' = [hands EXCEPT ![u] = [hands[u] EXCEPT !.stage = "decode"]]
      <3>1. hands' = [hands EXCEPT ![u] = [stage |-> "decode", id |-> hands[u].id, derived |-> hands[u].derived]]
        BY <1>1, <1>2, <2>1, UndecidedHand
      <3> QED
        BY <1>2, <1>3, <2>1, <3>1
    <2>2. CASE hands' = [hands EXCEPT ![u] = [hands[u] EXCEPT !.stage = "store"]]
      <3>1. hands' = [hands EXCEPT ![u] = [stage |-> "store", id |-> hands[u].id, derived |-> hands[u].derived]]
        BY <1>1, <1>2, <2>2, UndecidedHand
      <3> QED
        BY <1>2, <1>3, <3>1
    <2> QED
      BY <1>5, <2>1, <2>2 DEF Pictures!Inspect, Pictures!Goes
  <1> QED
    BY <1>4, <1>5

LEMMA PictureStored ==
  ASSUME PicturesInv, NEW u \in Callers, Pictures!Store(u)
  PROVE  PicturesInv'
  <1> DEFINE id == hands[u].id
  <1>1. hands[u].stage = "store" /\ UNCHANGED <<eventRow, gallery, named, doubted>>
    BY DEF Pictures!Store
  <1>2. hands[u] \in PictureHands /\ id \in Nat /\ hands[u].derived \in BOOLEAN
    BY <1>1, HandRead DEF Undecided
  <1>3. CASE Pictures!Ends(u) /\ UNCHANGED objects
    <2>1. hands' = [hands EXCEPT ![u] = Pictures!Free]
      BY <1>3 DEF Pictures!Ends, Pictures!Goes
    <2> QED
      BY <1>1, <1>3, <2>1, FreeHand, HandMoved DEF Uploading, Undecided
  <1>4. CASE ~(Pictures!Ends(u) /\ UNCHANGED objects)
    <2>1. /\ objects \cup {<<id, "original">>} \subseteq objects'
          /\ hands' = [hands EXCEPT ![u] = [hands[u] EXCEPT !.stage = "position"]]
      BY <1>4 DEF Pictures!Store, Pictures!Goes
    <2>2. [hands[u] EXCEPT !.stage = "position"] = [stage |-> "position", id |-> id, derived |-> hands[u].derived]
      BY <1>1, <1>2, UndecidedHand DEF Undecided
    <2>3. PICK h \in PictureHands : h = [stage |-> "position", id |-> id, derived |-> hands[u].derived]
      BY <1>1, <1>2, UndecidedHand DEF Undecided
    <2>4. hands' = [hands EXCEPT ![u] = h] /\ h.stage = "position" /\ h.id = id
      BY <2>1, <2>2, <2>3
    <2> QED
      BY <1>1, <2>1, <2>4, HandMoved DEF Uploading, Undecided
  <1> QED
    BY <1>3, <1>4

LEMMA FirstNumbers == ASSUME NEW k \in Nat PROVE IsFiniteSet(0..(k - 1)) /\ Cardinality(0..(k - 1)) = k
  <1>1. Cardinality(0..(k - 1)) = IF 0 > k - 1 THEN 0 ELSE k - 1 - 0 + 1
    BY FS_Interval
  <1> QED
    BY <1>1, FS_Interval

(* The next position is one past the last, which the count bounds.         *)
LEMMA PositionBounded ==
  ASSUME PicturesInv, NEW u \in Callers, hands[u].stage = "position"
  PROVE  LET n == Pictures!Cardinality({p \in 0..MaxPictures : \E m \in Pictures!Rows : gallery[m] >= p})
         IN  n \in Nat /\ n + Cardinality(Pending) <= named
  <1> DEFINE S == {p \in 0..MaxPictures : \E m \in Pictures!Rows : gallery[m] >= p}
  <1> DEFINE P == Cardinality(Pending)
  <1>1. IsFiniteSet(Pending) /\ P \in Nat /\ named \in Nat /\ P <= named /\ MaxPictures \in Nat
    <2>1. IsFiniteSet(Callers) /\ MaxPictures \in Nat
      BY HouseAssumption, CountedAlike DEF Pictures!GalleryAssumption
    <2>2. IsFiniteSet(Pending)
      BY <2>1, FS_Subset DEF Pending
    <2> QED
      BY <2>1, <2>2, FS_CardinalityType, StandingTiles DEF PicturesInv, Placed
  <1> HIDE DEF P
  <1>2. PICK k \in Nat : k = named - P
    BY <1>1
  <1>3. S \subseteq 0..(k - 1)
    BY <1>1, <1>2 DEF PicturesInv, Placed, P
  <1>4. IsFiniteSet(S) /\ Cardinality(S) <= k
    <2>1. IsFiniteSet(0..(k - 1)) /\ Cardinality(0..(k - 1)) = k
      BY FirstNumbers
    <2>2. PICK T : T = 0..(k - 1)
      OBVIOUS
    <2> HIDE DEF S
    <2>3. S \in SUBSET T /\ IsFiniteSet(T) /\ Cardinality(T) = k
      BY <1>3, <2>1, <2>2
    <2> QED
      BY <2>3, FS_Subset
  <1>5. Cardinality(S) \in Nat
    BY <1>4, FS_CardinalityType
  <1>6. Pictures!Cardinality(S) = Cardinality(S)
    BY CountedAlike
  <1> QED
    BY <1>1, <1>2, <1>4, <1>5, <1>6 DEF P

LEMMA PicturePlaced ==
  ASSUME PicturesInv, NEW u \in Callers, Pictures!NextPosition(u)
  PROVE  PicturesInv'
  <1> DEFINE n == Pictures!Cardinality({p \in 0..MaxPictures : \E m \in Pictures!Rows : gallery[m] >= p})
  <1>1. hands[u].stage = "position" /\ UNCHANGED <<eventRow, gallery, named, doubted>>
    BY DEF Pictures!NextPosition
  <1>2. hands[u].id \in Nat /\ <<hands[u].id, "original">> \in objects
    BY <1>1, HandRead DEF Undecided, HandOK
  <1>3. CASE Pictures!TakeBack(hands[u].id) /\ Pictures!Ends(u)
    <2>1. hands' = [hands EXCEPT ![u] = Pictures!Free]
      BY <1>3 DEF Pictures!Ends, Pictures!Goes
    <2>2. Pictures!Rows' = Pictures!Rows
      BY <1>1 DEF Pictures!Rows
    <2>3. /\ \A m \in Pictures!Rows \ doubted : <<m, "original">> \in objects'
          /\ \A v \in Callers : v # u /\ hands[v].stage \in {"position", "row"} => <<hands[v].id, "original">> \in objects'
      BY <1>1, <1>3, TakenBack
    <2> QED
      BY <1>1, <2>1, <2>2, <2>3, FreeHand, StandingTiles, HandEnds
  <1>4. CASE ~(Pictures!TakeBack(hands[u].id) /\ Pictures!Ends(u))
    <2>1. n \in Nat /\ n + Cardinality(Pending) <= named
      BY <1>1, PositionBounded
    <2> HIDE DEF n
    <2>2. objects' = objects /\ hands' = [hands EXCEPT ![u] = [stage |-> "row", id |-> hands[u].id, position |-> n]]
      BY <1>4 DEF Pictures!NextPosition, Pictures!Goes, n
    <2>3. PICK h \in PictureHands : h = [stage |-> "row", id |-> hands[u].id, position |-> n]
      BY <1>2, <2>1 DEF PictureHands
    <2>4. hands' = [hands EXCEPT ![u] = h] /\ h.stage = "row" /\ h.id = hands[u].id /\ h.position = n
      BY <2>2, <2>3
    <2> QED
      BY <1>1, <1>2, <2>1, <2>2, <2>4, HandMoved DEF Uploading, Undecided
  <1> QED
    BY <1>3, <1>4

LEMMA PictureCreated ==
  ASSUME PicturesInv, NEW u \in Callers, Pictures!Create(u)
  PROVE  PicturesInv'
  <1> DEFINE id == hands[u].id
  <1> DEFINE added == [m \in Pictures!Rows \cup {id} |-> IF m = id THEN hands[u].position ELSE gallery[m]]
  <1>1. /\ hands[u].stage = "row" /\ hands' = [hands EXCEPT ![u] = Pictures!Free]
        /\ UNCHANGED <<eventRow, named>>
    BY DEF Pictures!Create, Pictures!Ends, Pictures!Goes
  <1>2. id \in Nat /\ <<id, "original">> \in objects /\ id \notin Pictures!Rows
    BY <1>1, HandRead DEF HandOK, Uploading
  <1>3. CASE eventRow # "gone" /\ gallery' = added /\ UNCHANGED <<objects, doubted>>
    <2>1. Pictures!Rows' = Pictures!Rows \cup {id}
      BY <1>3 DEF Pictures!Rows
    <2>2. \A m \in Pictures!Rows' :
            \/ m \in Pictures!Rows /\ gallery'[m] = gallery[m]
            \/ m = id /\ gallery'[m] = hands[u].position
      BY <1>2, <1>3, <2>1
    <2>3. \A m \in Pictures!Rows' \ doubted' : <<m, "original">> \in objects'
      BY <1>2, <1>3, <2>1, StandingTiles
    <2> QED
      BY <1>1, <1>3, <2>2, <2>3, FreeHand, StandingTiles, HandEnds
  <1>4. CASE Pictures!TakeBack(id) /\ UNCHANGED <<gallery, doubted>>
    <2>1. Pictures!Rows' = Pictures!Rows
      BY <1>4 DEF Pictures!Rows
    <2>2. /\ \A m \in Pictures!Rows \ doubted : <<m, "original">> \in objects'
          /\ \A v \in Callers : v # u /\ hands[v].stage \in {"position", "row"} => <<hands[v].id, "original">> \in objects'
      BY <1>1, <1>4, TakenBack
    <2> QED
      BY <1>1, <1>4, <2>1, <2>2, FreeHand, StandingTiles, HandEnds
  <1>5. CASE eventRow # "gone" /\ gallery' = added /\ Pictures!TakeBack(id) /\ doubted' = doubted \cup {id}
    <2>1. Pictures!Rows' = Pictures!Rows \cup {id}
      BY <1>5 DEF Pictures!Rows
    <2>2. \A m \in Pictures!Rows' :
            \/ m \in Pictures!Rows /\ gallery'[m] = gallery[m]
            \/ m = id /\ gallery'[m] = hands[u].position
      BY <1>2, <1>5, <2>1
    <2>3. /\ \A m \in Pictures!Rows \ doubted : <<m, "original">> \in objects'
          /\ \A v \in Callers : v # u /\ hands[v].stage \in {"position", "row"} => <<hands[v].id, "original">> \in objects'
      BY <1>1, <1>5, TakenBack
    <2>4. \A m \in Pictures!Rows' \ doubted' : <<m, "original">> \in objects'
      BY <1>5, <2>1, <2>3
    <2> QED
      BY <1>1, <1>5, <2>2, <2>3, <2>4, FreeHand, StandingTiles, HandEnds
  <1> QED
    BY <1>3, <1>4, <1>5 DEF Pictures!Create

LEMMA PictureRemoved ==
  ASSUME PicturesInv, NEW u \in Callers, NEW m \in Pictures!Rows, Pictures!Remove(u, m)
  PROVE  PicturesInv'
  <1>1. m \in Nat
    BY StandingTiles DEF PicturesInv, Placed
  <1>2. PICK h \in PictureHands : h = [stage |-> "unlink", id |-> m]
    BY <1>1 DEF PictureHands
  <1>3. hands' = [hands EXCEPT ![u] = h] /\ h.stage = "unlink" /\ h.id = m
    BY <1>2 DEF Pictures!Remove, Pictures!Goes
  <1> QED
    BY <1>3, HandMoved DEF Pictures!Remove, Uploading, Undecided

(* Rows are taken away: by one removal, or with the event's.               *)
LEMMA RowsTaken ==
  ASSUME PicturesInv, NEW u \in Callers, NEW h \in PictureHands, hands' = [hands EXCEPT ![u] = h],
         UNCHANGED <<objects, named, doubted>>, eventRow' \in {"plain", "tiers", "gone"},
         eventRow' = "gone" => Pictures!Rows' = {},
         \A m \in Pictures!Rows' : m \in Pictures!Rows /\ gallery'[m] = gallery[m],
         h.stage \in {"free", "drop", "discard"},
         h.stage = "discard" =>
            /\ h.ids \cap Pictures!Rows' = {}
            /\ \/ h.ids \subseteq Pictures!Rows
               \/ hands[u].stage = "clear" /\ h.ids = hands[u].ids
  PROVE  PicturesInv'
  <1>1. \A m \in Pictures!Rows' \ doubted' : <<m, "original">> \in objects'
    BY StandingTiles
  <1>2. \A v \in Callers : v # u /\ hands[v].stage \in {"position", "row"} => <<hands[v].id, "original">> \in objects'
    BY StandingTiles
  <1>3. named' \in {named, named + 1} /\ named' <= MaxPictures
    BY StandingTiles
  <1> QED
    BY <1>1, <1>2, <1>3, PictureMove DEF Uploading, Undecided

LEMMA PictureUnlinked ==
  ASSUME PicturesInv, NEW u \in Callers, Pictures!RemoveRow(u)
  PROVE  PicturesInv'
  <1> DEFINE m == hands[u].id
  <1>1. hands[u].stage = "unlink" /\ UNCHANGED <<eventRow, objects, named, doubted>>
    BY DEF Pictures!RemoveRow
  <1>2. gallery' = [k \in Pictures!Rows \ {m} |-> gallery[k]]
    BY DEF Pictures!RemoveRow, Pictures!Without
  <1>3. /\ Pictures!Rows' = Pictures!Rows \ {m}
        /\ \A k \in Pictures!Rows' : k \in Pictures!Rows /\ gallery'[k] = gallery[k]
    BY <1>2 DEF Pictures!Rows
  <1>4. /\ eventRow' \in {"plain", "tiers", "gone"}
        /\ eventRow' = "gone" => Pictures!Rows' = {}
    BY <1>1, <1>3, StandingTiles
  <1>5. m \in Nat
    BY <1>1, HandRead
  <1>6. CASE m \in Pictures!Rows
    <2>1. PICK h \in PictureHands : h = [stage |-> "discard", ids |-> {m}, next |-> "free"]
      <3>1. {m} \in SUBSET Nat
        BY <1>5
      <3>2. [stage |-> "discard", ids |-> {m}, next |-> "free"] \in [stage : {"discard"}, ids : SUBSET Nat, next : {"free", "drop"}]
        BY <3>1
      <3> QED
        BY <3>2 DEF PictureHands
    <2>2. hands' = [hands EXCEPT ![u] = h]
      BY <1>6, <2>1 DEF Pictures!RemoveRow, Pictures!Goes
    <2>3. h.stage = "discard" /\ h.ids = {m}
      BY <2>1
    <2> QED
      BY <1>1, <1>3, <1>4, <1>6, <2>2, <2>3, RowsTaken
  <1>7. CASE m \notin Pictures!Rows
    <2>1. hands' = [hands EXCEPT ![u] = Pictures!Free]
      BY <1>7 DEF Pictures!RemoveRow, Pictures!Ends, Pictures!Goes
    <2> QED
      BY <1>1, <1>3, <1>4, <2>1, FreeHand, RowsTaken
  <1> QED
    BY <1>6, <1>7

LEMMA PicturesCleared ==
  ASSUME PicturesInv, NEW u \in Callers, Pictures!DeleteByEventID(u) \/ Pictures!Drop(u)
  PROVE  PicturesInv'
  <1>1. CASE Pictures!DeleteByEventID(u)
    <2>1. hands[u].stage = "clear" /\ UNCHANGED <<eventRow, objects, named, doubted>> /\ gallery' = <<>>
      BY <1>1 DEF Pictures!DeleteByEventID, Pictures!ClearRows
    <2>2. Pictures!Rows' = {}
      BY <2>1, NoRowsAtFirst DEF Pictures!Rows
    <2>3. hands[u].ids \in SUBSET Nat
      BY <2>1, HandRead
    <2>4. PICK h \in PictureHands : h = [stage |-> "discard", ids |-> hands[u].ids, next |-> "drop"]
      BY <2>3 DEF PictureHands
    <2>5. hands' = [hands EXCEPT ![u] = h] /\ h.stage = "discard" /\ h.ids = hands[u].ids
      BY <1>1, <2>4 DEF Pictures!DeleteByEventID, Pictures!Goes
    <2> QED
      BY <2>1, <2>2, <2>5, StandingTiles, RowsTaken
  <1>2. CASE Pictures!Drop(u)
    <2>1. hands' = [hands EXCEPT ![u] = Pictures!Free] /\ UNCHANGED <<objects, named, doubted>>
      BY <1>2 DEF Pictures!Drop, Pictures!Ends, Pictures!Goes
    <2>2. CASE eventRow = "plain"
      <3>1. eventRow' = "gone" /\ gallery' = <<>>
        BY <1>2, <2>2 DEF Pictures!Drop
      <3>2. Pictures!Rows' = {}
        BY <3>1, NoRowsAtFirst DEF Pictures!Rows
      <3> QED
        BY <2>1, <3>1, <3>2, FreeHand, RowsTaken
    <2>3. CASE eventRow # "plain"
      <3>1. eventRow' = eventRow /\ gallery' = gallery
        BY <1>2, <2>3 DEF Pictures!Drop
      <3>2. Pictures!Rows' = Pictures!Rows
        BY <3>1 DEF Pictures!Rows
      <3> QED
        BY <2>1, <3>1, <3>2, FreeHand, StandingTiles, RowsTaken
    <2> QED
      BY <2>2, <2>3
  <1> QED
    BY <1>1, <1>2

LEMMA PictureDiscarded ==
  ASSUME PicturesInv, NEW u \in Callers, Pictures!Discard(u)
  PROVE  PicturesInv'
  <1>1. hands[u].stage = "discard" /\ UNCHANGED <<eventRow, gallery, named, doubted>>
    BY DEF Pictures!Discard
  <1>2. /\ hands[u].ids \in SUBSET Nat /\ hands[u].next \in {"free", "drop"}
        /\ hands[u].ids \cap Pictures!Rows = {}
    BY <1>1, HandRead DEF HandOK
  <1>3. PICK ids \in SUBSET hands[u].ids : objects' = objects \ {<<m, "original">> : m \in ids}
    BY DEF Pictures!Discard
  <1>4. ids \in SUBSET Nat /\ ids \cap (Pictures!Rows \ doubted) = {}
    BY <1>2
  <1>5. \A v \in Callers : v # u /\ hands[v].stage \in {"position", "row"} => hands[v].id \notin ids
    BY <1>1 DEF PicturesInv, Apart, Uploading
  <1>6. /\ \A m \in Pictures!Rows \ doubted : <<m, "original">> \in objects'
        /\ \A v \in Callers : v # u /\ hands[v].stage \in {"position", "row"} => <<hands[v].id, "original">> \in objects'
    BY <1>3, <1>4, <1>5, BytesTaken
  <1>7. Pictures!Rows' = Pictures!Rows
    BY <1>1 DEF Pictures!Rows
  <1>8. PICK h \in PictureHands : h = [stage |-> hands[u].next]
    BY <1>2, PlainHands
  <1>9. hands' = [hands EXCEPT ![u] = h] /\ h.stage \in {"free", "drop"}
    BY <1>2, <1>8 DEF Pictures!Discard, Pictures!Goes
  <1> QED
    BY <1>1, <1>6, <1>7, <1>9, StandingTiles, HandEnds

LEMMA EventDeleted ==
  ASSUME PicturesInv, NEW u \in Callers, Pictures!DeleteEvent(u)
  PROVE  PicturesInv'
  <1>1. UNCHANGED <<eventRow, gallery, objects, named, doubted>>
    BY DEF Pictures!DeleteEvent
  <1>2. Pictures!Rows \in SUBSET Nat
    BY StandingTiles DEF PicturesInv, Placed
  <1>3. PICK h \in PictureHands : h = IF Pictures!Rows = {} THEN [stage |-> "drop"] ELSE [stage |-> "clear", ids |-> Pictures!Rows]
    <2>1. [stage |-> "clear", ids |-> Pictures!Rows] \in PictureHands
      BY <1>2 DEF PictureHands
    <2> QED
      BY <2>1, PlainHands
  <1>4. hands' = [hands EXCEPT ![u] = h]
    BY <1>3 DEF Pictures!DeleteEvent, Pictures!Goes
  <1>5. h.stage \in {"drop", "clear"} /\ (h.stage = "clear" => h.ids = Pictures!Rows)
    BY <1>3
  <1> QED
    BY <1>1, <1>4, <1>5, HandMoved DEF Uploading, Undecided

LEMMA RequestDied ==
  ASSUME PicturesInv, NEW u \in Callers, Pictures!Dies(u)
  PROVE  PicturesInv'
  <1>1. hands' = [hands EXCEPT ![u] = Pictures!Free] /\ UNCHANGED <<eventRow, gallery, objects, named, doubted>>
    BY DEF Pictures!Dies, Pictures!Ends, Pictures!Goes
  <1> QED
    BY <1>1, FreeHand, HandMoved DEF Uploading, Undecided

LEMMA PicturesKept == PicturesInv /\ [Pictures!Next]_picturesVars => PicturesInv'
  <1> SUFFICES ASSUME PicturesInv, [Pictures!Next]_picturesVars PROVE PicturesInv'
    OBVIOUS
  <1>1. ASSUME UNCHANGED <<gallery, objects, hands, named, doubted>>, eventRow' \in {"plain", "tiers", "gone"},
               eventRow' = "gone" => eventRow = "gone"
        PROVE  PicturesInv'
    <2>1. Pictures!Rows' = Pictures!Rows /\ Pending' = Pending
      BY <1>1 DEF Pictures!Rows, Pending
    <2>2. PicturesShape' /\ Placed' /\ Pictures!NoBrokenTile'
      BY <1>1, <2>1 DEF PicturesInv, PicturesShape, Placed, Pictures!NoBrokenTile
    <2>3. \A u \in Callers : HandOK(u)'
      BY <1>1, <2>1 DEF PicturesInv, HandOK
    <2>4. \A u, v \in Callers : u # v => Apart(u, v)'
      BY <1>1 DEF PicturesInv, Apart
    <2> QED
      BY <2>2, <2>3, <2>4 DEF PicturesInv
  <1>2. CASE UNCHANGED picturesVars
    BY <1>1, <1>2, StandingTiles DEF picturesVars
  <1>3. CASE Pictures!Tiers
    BY <1>1, <1>3 DEF Pictures!Tiers
  <1> QED
    BY <1>2, <1>3, PictureAdded, PictureRemoved, PictureDecoded, PictureStored, PicturePlaced, PictureCreated,
       PictureUnlinked, PictureDiscarded, EventDeleted, PicturesCleared, RequestDied DEF Pictures!Next

-----------------------------------------------------------------------------
(* Tiers.  Whatever shows a tier that has left the sale was read while it  *)
(* had not: an answer in hand in this very second, a kept listing within   *)
(* its lifetime.                                                           *)
TierRows == [status : TierStatuses, quantity : 1..MaxQuantity, taken : Nat]
TierHands ==
    [stage : {"free"}] \cup [stage : {"show"}, event : Box!Shows, tiers : SUBSET Box!Tiers]
    \cup [stage : {"apply"}, tier : Box!Tiers, copy : TierRows]
    \cup [stage : {"forget", "take"}, tier : Box!Tiers]
BoxShape ==
    /\ clock \in Nat /\ event \in [Box!Shows -> {"published", "cancelled"}]
    /\ tier \in [Box!Tiers -> TierRows] /\ left \in [Box!Tiers -> Nat]
    /\ tierDesk \in [Callers -> TierHands]
    /\ copies \in [Box!Tiers -> [tier : TierRows, until : Nat] \cup {idle}]
    /\ list \in [tiers : SUBSET Box!Tiers, until : Nat] \cup {idle}
    /\ panel \in [event : Box!Shows, tiers : SUBSET Box!Tiers] \cup {idle}
StockCovers == \A t \in Box!Tiers : tier[t].taken <= tier[t].quantity

(* A tier is on sale, or left it no longer than this ago.                  *)
OnSaleUntil(t, moment) == tier[t].status = "on_sale" \/ moment <= left[t] + 3
ListFresh ==
    list # idle => list.until <= clock + 3 /\ \A t \in list.tiers : OnSaleUntil(t, list.until)
PanelFresh == panel # idle => \A t \in panel.tiers : OnSaleUntil(t, clock)
InHandFresh ==
    \A c \in Callers : tierDesk[c].stage = "show" =>
        \A t \in tierDesk[c].tiers : tier[t].status = "on_sale" \/ left[t] = clock
BoxInv == BoxShape /\ StockCovers /\ ListFresh /\ PanelFresh /\ InHandFresh

LEMMA BoxConstants ==
  /\ Moments \subseteq Nat /\ MaxQuantity \in Nat \ {0} /\ "draft" \in TierStatuses /\ "on_sale" \in TierStatuses
  BY HouseAssumption DEF Box!TierAssumption

LEMMA BoxStart == Box!Init => BoxInv
  <1> SUFFICES ASSUME Box!Init PROVE BoxInv
    OBVIOUS
  <1>1. [stage |-> "free"] \in TierHands
    BY DEF TierHands
  <1>2. 0 \in Nat /\ 1 \in 1..MaxQuantity
    BY BoxConstants
  <1>3. [status : {"draft", "on_sale"}, quantity : {1}, taken : {0}] \subseteq TierRows
    BY <1>2, BoxConstants DEF TierRows
  <1>4. tier \in [Box!Tiers -> TierRows]
    BY <1>3 DEF Box!Init
  <1>5. BoxShape
    BY <1>1, <1>2, <1>4 DEF Box!Init, BoxShape, Box!Free
  <1>6. StockCovers
    BY DEF Box!Init, StockCovers
  <1>7. ListFresh /\ PanelFresh /\ InHandFresh
    BY DEF Box!Init, ListFresh, PanelFresh, InHandFresh, Box!Free
  <1> QED
    BY <1>5, <1>6, <1>7 DEF BoxInv

(* A hand is taken or put down; what it shows is fresh.                    *)
LEMMA TierHand ==
  ASSUME BoxInv, NEW c \in Callers, NEW h \in TierHands, tierDesk' = [tierDesk EXCEPT ![c] = h],
         UNCHANGED <<clock, tier, left>>,
         h.stage = "show" => \A t \in h.tiers : tier[t].status = "on_sale" \/ left[t] = clock
  PROVE  tierDesk' \in [Callers -> TierHands] /\ InHandFresh'
  <1>1. tierDesk' \in [Callers -> TierHands]
    BY DEF BoxInv, BoxShape
  <1>2. ASSUME NEW d \in Callers, tierDesk'[d].stage = "show", NEW t \in tierDesk'[d].tiers
        PROVE  tier[t].status = "on_sale" \/ left[t] = clock
    <2>1. CASE d = c
      BY <1>2, <2>1 DEF BoxInv, BoxShape
    <2>2. CASE d # c
      BY <1>2, <2>2 DEF BoxInv, BoxShape, InHandFresh
    <2> QED
      BY <2>1, <2>2
  <1> QED
    BY <1>1, <1>2 DEF InHandFresh

LEMMA FreeTierHand == Box!Free \in TierHands /\ Box!Free.stage = "free"
  BY DEF TierHands, Box!Free

LEMMA ListShown ==
  ASSUME BoxInv, NEW c \in Callers, NEW e \in Box!Shows, Box!OnSaleTiers(c, e)
  PROVE  BoxInv'
  <1>1. UNCHANGED <<clock, event, tier, copies, list, left>>
    BY DEF Box!OnSaleTiers
  <1>2. CASE Box!Alive(list)
    <2>1. panel' = [event |-> e, tiers |-> list.tiers] /\ tierDesk' = tierDesk
      BY <1>2 DEF Box!OnSaleTiers
    <2>2. /\ list # idle /\ clock < list.until /\ list \in [tiers : SUBSET Box!Tiers, until : Nat]
          /\ clock \in Nat /\ left \in [Box!Tiers -> Nat]
      BY <1>2 DEF Box!Alive, BoxInv, BoxShape
    <2>3. PICK p \in [event : Box!Shows, tiers : SUBSET Box!Tiers] : p = [event |-> e, tiers |-> list.tiers]
      BY <2>2
    <2>4. panel' = p /\ p.tiers = list.tiers
      BY <2>1, <2>3
    <2>5. BoxShape'
      BY <1>1, <2>1, <2>4 DEF BoxInv, BoxShape
    <2>6. \A t \in list.tiers : OnSaleUntil(t, clock)
      BY <2>2 DEF BoxInv, ListFresh, OnSaleUntil
    <2>7. PanelFresh'
      BY <1>1, <2>4, <2>6 DEF PanelFresh, OnSaleUntil
    <2>8. StockCovers' /\ ListFresh' /\ InHandFresh'
      BY <1>1, <2>1 DEF BoxInv, StockCovers, ListFresh, InHandFresh, OnSaleUntil
    <2> QED
      BY <2>5, <2>7, <2>8 DEF BoxInv
  <1>3. CASE ~Box!Alive(list)
    <2>1. panel' = panel /\ tierDesk' = [tierDesk EXCEPT ![c] = [stage |-> "show", event |-> e, tiers |-> Box!OnSale(e)]]
      BY <1>3 DEF Box!OnSaleTiers, Box!Hand
    <2>2. Box!OnSale(e) \in SUBSET Box!Tiers /\ \A t \in Box!OnSale(e) : tier[t].status = "on_sale"
      BY DEF Box!OnSale
    <2>3. PICK h \in TierHands : h = [stage |-> "show", event |-> e, tiers |-> Box!OnSale(e)]
      BY <2>2 DEF TierHands
    <2>4. tierDesk' = [tierDesk EXCEPT ![c] = h] /\ h.tiers = Box!OnSale(e)
      BY <2>1, <2>3
    <2>5. tierDesk' \in [Callers -> TierHands] /\ InHandFresh'
      BY <1>1, <2>2, <2>4, TierHand
    <2>6. BoxShape'
      BY <1>1, <2>1, <2>5 DEF BoxInv, BoxShape
    <2>7. StockCovers' /\ ListFresh' /\ PanelFresh'
      BY <1>1, <2>1 DEF BoxInv, StockCovers, ListFresh, PanelFresh, OnSaleUntil
    <2> QED
      BY <2>5, <2>6, <2>7 DEF BoxInv
  <1> QED
    BY <1>2, <1>3

LEMMA ListStored ==
  ASSUME BoxInv, NEW c \in Callers, Box!StoreList(c)
  PROVE  BoxInv'
  <1> DEFINE k == tierDesk[c]
  <1>1. UNCHANGED <<clock, event, tier, copies, left>> /\ k.stage = "show"
    BY DEF Box!StoreList
  <1>2. k \in [stage : {"show"}, event : Box!Shows, tiers : SUBSET Box!Tiers]
    BY <1>1 DEF BoxInv, BoxShape, TierHands
  <1>3. /\ clock \in Nat /\ left \in [Box!Tiers -> Nat]
        /\ \A t \in k.tiers : t \in Box!Tiers /\ (tier[t].status = "on_sale" \/ left[t] = clock)
    BY <1>1, <1>2 DEF BoxInv, BoxShape, InHandFresh
  <1>4. PICK p \in [event : Box!Shows, tiers : SUBSET Box!Tiers] : p = [event |-> k.event, tiers |-> k.tiers]
    BY <1>2
  <1>5. panel' = p /\ p.tiers = k.tiers
    BY <1>4 DEF Box!StoreList
  <1>6. tierDesk' \in [Callers -> TierHands] /\ InHandFresh'
    <2>1. tierDesk' = [tierDesk EXCEPT ![c] = Box!Free]
      BY DEF Box!StoreList, Box!Hand
    <2> QED
      BY <1>1, <2>1, FreeTierHand, TierHand
  <1>7. PanelFresh'
    BY <1>1, <1>3, <1>5 DEF PanelFresh, OnSaleUntil
  <1>8. list' \in [tiers : SUBSET Box!Tiers, until : Nat] \cup {idle} /\ ListFresh'
    <2>1. CASE list' = list
      BY <1>1, <2>1 DEF BoxInv, BoxShape, ListFresh, OnSaleUntil
    <2>2. CASE list' = [tiers |-> k.tiers, until |-> Box!Until]
      <3>1. Box!Until = clock + 3
        BY DEF Box!Until, Box!TicketTTL
      <3>2. PICK l \in [tiers : SUBSET Box!Tiers, until : Nat] : l = [tiers |-> k.tiers, until |-> clock + 3]
        <4>1. k.tiers \in SUBSET Box!Tiers /\ clock + 3 \in Nat
          BY <1>2, <1>3
        <4> QED
          BY <4>1
      <3>3. list' = l /\ l.tiers = k.tiers /\ l.until = clock + 3
        BY <2>2, <3>1, <3>2
      <3> QED
        BY <1>1, <1>3, <3>3 DEF ListFresh, OnSaleUntil
    <2> QED
      BY <2>1, <2>2 DEF Box!StoreList
  <1>9. BoxShape'
    BY <1>1, <1>5, <1>6, <1>8 DEF BoxInv, BoxShape
  <1>10. StockCovers'
    BY <1>1 DEF BoxInv, StockCovers
  <1> QED
    BY <1>6, <1>7, <1>8, <1>9, <1>10 DEF BoxInv

LEMMA TierCopied ==
  ASSUME BoxInv, NEW c \in Callers, NEW t \in Box!Tiers, Box!GetByID(c, t)
  PROVE  BoxInv'
  <1>1. UNCHANGED <<clock, event, tier, list, panel, left>>
    BY DEF Box!GetByID
  <1>2. /\ clock \in Nat /\ tier[t] \in TierRows
        /\ copies \in [Box!Tiers -> [tier : TierRows, until : Nat] \cup {idle}]
    BY DEF BoxInv, BoxShape
  <1>3. Box!Copy(t) \in TierRows
    BY <1>2 DEF Box!Copy, Box!Alive
  <1>4. PICK h \in TierHands : h = [stage |-> "apply", tier |-> t, copy |-> Box!Copy(t)]
    BY <1>3 DEF TierHands
  <1>5. tierDesk' = [tierDesk EXCEPT ![c] = h] /\ h.stage = "apply"
    BY <1>4 DEF Box!GetByID, Box!Hand
  <1>6. tierDesk' \in [Callers -> TierHands] /\ InHandFresh'
    BY <1>1, <1>5, TierHand
  <1>7. copies' \in [Box!Tiers -> [tier : TierRows, until : Nat] \cup {idle}]
    <2>1. Box!Until \in Nat
      BY <1>2 DEF Box!Until, Box!TicketTTL
    <2>2. PICK k \in [tier : TierRows, until : Nat] : k = [tier |-> tier[t], until |-> Box!Until]
      BY <1>2, <2>1
    <2>3. copies' = copies \/ copies' = [copies EXCEPT ![t] = k]
      BY <2>2 DEF Box!GetByID
    <2> QED
      BY <1>2, <2>3
  <1>8. BoxShape'
    BY <1>1, <1>6, <1>7 DEF BoxInv, BoxShape
  <1>9. StockCovers' /\ ListFresh' /\ PanelFresh'
    BY <1>1 DEF BoxInv, StockCovers, ListFresh, PanelFresh, OnSaleUntil
  <1> QED
    BY <1>6, <1>8, <1>9 DEF BoxInv

(* One row is written: one that takes a tier off the sale says when.       *)
LEMMA TierWritten ==
  ASSUME BoxInv, NEW c \in Callers, NEW h \in TierHands, tierDesk' = [tierDesk EXCEPT ![c] = h],
         h.stage # "show", NEW t \in Box!Tiers, NEW r \in TierRows, tier' = [tier EXCEPT ![t] = r],
         r.taken <= r.quantity, UNCHANGED <<clock, event, copies, list, panel>>,
         left' \in [Box!Tiers -> Nat], \A s \in Box!Tiers : left'[s] # left[s] => left'[s] = clock,
         tier[t].status = "on_sale" => r.status = "on_sale" \/ left'[t] = clock
  PROVE  BoxInv'
  <1>1. /\ tier'[t] = r /\ \A s \in Box!Tiers : s # t => tier'[s] = tier[s]
        /\ tier' \in [Box!Tiers -> TierRows] /\ clock \in Nat /\ left \in [Box!Tiers -> Nat]
        /\ tierDesk' \in [Callers -> TierHands]
    BY DEF BoxInv, BoxShape
  <1>2. BoxShape'
    BY <1>1 DEF BoxInv, BoxShape
  <1>3. StockCovers'
    BY <1>1 DEF BoxInv, StockCovers
  <1>4. ASSUME NEW s \in Box!Tiers, NEW moment \in Nat, moment <= clock + 3, OnSaleUntil(s, moment)
        PROVE  OnSaleUntil(s, moment)'
    <2>1. CASE tier[s].status = "on_sale"
      BY <1>1, <1>4, <2>1 DEF OnSaleUntil
    <2>2. CASE moment <= left[s] + 3 /\ left'[s] = left[s]
      BY <2>2 DEF OnSaleUntil
    <2>3. CASE left'[s] # left[s]
      BY <1>1, <1>4, <2>3 DEF OnSaleUntil
    <2> QED
      BY <1>4, <2>1, <2>2, <2>3 DEF OnSaleUntil
  <1>5. ListFresh'
    <2>1. CASE list # idle
      <3>1. list.until \in Nat /\ list.tiers \subseteq Box!Tiers /\ list.until <= clock + 3
        BY <2>1 DEF BoxInv, BoxShape, ListFresh
      <3>2. \A s \in list.tiers : OnSaleUntil(s, list.until)'
        BY <1>4, <2>1, <3>1 DEF BoxInv, ListFresh
      <3> QED
        BY <3>1, <3>2 DEF ListFresh, OnSaleUntil
    <2> QED
      BY <2>1 DEF ListFresh
  <1>6. PanelFresh'
    <2>1. CASE panel # idle
      <3>1. panel.tiers \subseteq Box!Tiers /\ clock <= clock + 3
        BY <1>1, <2>1 DEF BoxInv, BoxShape
      <3>2. \A s \in panel.tiers : OnSaleUntil(s, clock)'
        BY <1>1, <1>4, <2>1, <3>1 DEF BoxInv, PanelFresh, OnSaleUntil
      <3> QED
        BY <3>2 DEF PanelFresh, OnSaleUntil
    <2> QED
      BY <2>1 DEF PanelFresh
  <1>7. InHandFresh'
    <2> SUFFICES ASSUME NEW d \in Callers, tierDesk'[d].stage = "show", NEW s \in tierDesk'[d].tiers
                 PROVE  tier'[s].status = "on_sale" \/ left'[s] = clock
      BY DEF InHandFresh
    <2>1. d # c /\ tierDesk'[d] = tierDesk[d]
      BY DEF BoxInv, BoxShape
    <2>2. tierDesk[d].stage = "show" /\ s \in tierDesk[d].tiers
      BY <2>1
    <2>3. tierDesk[d] \in TierHands
      BY DEF BoxInv, BoxShape
    <2>4. s \in Box!Tiers
      BY <2>2, <2>3 DEF TierHands
    <2>5. tier[s].status = "on_sale" \/ left[s] = clock
      BY <2>2 DEF BoxInv, InHandFresh
    <2> QED
      BY <1>1, <2>4, <2>5
  <1> QED
    BY <1>2, <1>3, <1>5, <1>6, <1>7 DEF BoxInv

(* A step that moves a hand and leaves tiers, listing and panel alone.     *)
LEMMA TierHandMoved ==
  ASSUME BoxInv, NEW c \in Callers, NEW h \in TierHands, tierDesk' = [tierDesk EXCEPT ![c] = h],
         h.stage # "show", UNCHANGED <<clock, event, tier, left, panel>>,
         copies' \in [Box!Tiers -> [tier : TierRows, until : Nat] \cup {idle}], list' \in {list, idle}
  PROVE  BoxInv'
  <1>1. tierDesk' \in [Callers -> TierHands] /\ InHandFresh'
    BY TierHand
  <1>2. BoxShape'
    BY <1>1 DEF BoxInv, BoxShape
  <1>3. StockCovers' /\ ListFresh' /\ PanelFresh'
    BY DEF BoxInv, StockCovers, ListFresh, PanelFresh, OnSaleUntil
  <1> QED
    BY <1>1, <1>2, <1>3 DEF BoxInv

LEMMA TierUpdated ==
  ASSUME BoxInv, NEW c \in Callers, Box!Update(c)
  PROVE  BoxInv'
  <1> DEFINE k == tierDesk[c]
  <1> DEFINE t == k.tier
  <1>1. k.stage = "apply" /\ UNCHANGED <<clock, event, copies, list, panel>>
    BY DEF Box!Update
  <1>2. t \in Box!Tiers /\ k.copy \in TierRows
    <2>1. k \in TierHands
      BY DEF BoxInv, BoxShape
    <2> QED
      BY <1>1, <2>1 DEF TierHands
  <1>3. PICK draft \in (UNION {Box!Apply(k.copy, q) : q \in 1..MaxQuantity})
                       \cup (UNION {Box!ChangeStatus(k.copy, s) : s \in TierStatuses}) :
          IF Box!StockHolds(tier[t].taken, draft.quantity)
          THEN /\ tier' = [tier EXCEPT ![t] = [draft EXCEPT !.taken = tier[t].taken]]
               /\ left' = IF tier[t].status = "on_sale" /\ draft.status # "on_sale"
                          THEN [left EXCEPT ![t] = clock] ELSE left
               /\ Box!Hand(c, [stage |-> "forget", tier |-> t])
          ELSE Box!Hand(c, Box!Free) /\ UNCHANGED <<tier, left>>
    BY DEF Box!Update
  <1>4. draft \in TierRows
    <2>1. CASE \E q \in 1..MaxQuantity : draft \in Box!Apply(k.copy, q)
      BY <1>2, <2>1 DEF Box!Apply, TierRows
    <2>2. CASE \E s \in TierStatuses : draft \in Box!ChangeStatus(k.copy, s)
      BY <1>2, <2>2 DEF Box!ChangeStatus, TierRows
    <2> QED
      BY <1>3, <2>1, <2>2
  <1>5. /\ tier[t] \in TierRows /\ clock \in Nat /\ left \in [Box!Tiers -> Nat]
        /\ copies \in [Box!Tiers -> [tier : TierRows, until : Nat] \cup {idle}]
    BY <1>2 DEF BoxInv, BoxShape
  <1>6. CASE Box!StockHolds(tier[t].taken, draft.quantity)
    <2>1. PICK r : r = [draft EXCEPT !.taken = tier[t].taken]
      OBVIOUS
    <2>2. r \in TierRows /\ r.taken = tier[t].taken /\ r.quantity = draft.quantity /\ r.status = draft.status
      BY <1>4, <1>5, <2>1 DEF TierRows
    <2>3. r.taken <= r.quantity
      BY <1>6, <2>2 DEF Box!StockHolds
    <2>4. tier' = [tier EXCEPT ![t] = r]
      BY <1>3, <1>6, <2>1
    <2>5. left' = IF tier[t].status = "on_sale" /\ r.status # "on_sale" THEN [left EXCEPT ![t] = clock] ELSE left
      BY <1>3, <1>6, <2>2
    <2>6. /\ left' \in [Box!Tiers -> Nat] /\ \A s \in Box!Tiers : left'[s] # left[s] => left'[s] = clock
          /\ tier[t].status = "on_sale" => r.status = "on_sale" \/ left'[t] = clock
      BY <1>2, <1>5, <2>5
    <2>7. PICK h \in TierHands : h = [stage |-> "forget", tier |-> t]
      BY <1>2 DEF TierHands
    <2>8. tierDesk' = [tierDesk EXCEPT ![c] = h] /\ h.stage # "show"
      BY <1>3, <1>6, <2>7 DEF Box!Hand
    <2> QED
      BY <1>1, <1>2, <2>2, <2>3, <2>4, <2>6, <2>8, TierWritten
  <1>7. CASE ~Box!StockHolds(tier[t].taken, draft.quantity)
    <2>1. tierDesk' = [tierDesk EXCEPT ![c] = Box!Free] /\ UNCHANGED <<tier, left>>
      BY <1>3, <1>7 DEF Box!Hand
    <2> QED
      BY <1>1, <1>5, <2>1, FreeTierHand, TierHandMoved
  <1> QED
    BY <1>6, <1>7

LEMMA TierForgotten ==
  ASSUME BoxInv, NEW c \in Callers, Box!Invalidate(c)
  PROVE  BoxInv'
  <1>1. tierDesk' = [tierDesk EXCEPT ![c] = Box!Free] /\ UNCHANGED <<clock, event, tier, panel, left>>
    BY DEF Box!Invalidate, Box!Hand
  <1>2. copies' \in [Box!Tiers -> [tier : TierRows, until : Nat] \cup {idle}] /\ list' \in {list, idle}
    BY DEF Box!Invalidate, BoxInv, BoxShape
  <1> QED
    BY <1>1, <1>2, FreeTierHand, TierHandMoved

LEMMA TierChosen ==
  ASSUME BoxInv, NEW c \in Callers, NEW t \in Box!Tiers, Box!Start(c, t)
  PROVE  BoxInv'
  <1>1. UNCHANGED <<clock, event, tier, copies, list, panel, left>>
    BY DEF Box!Start
  <1>2. PICK h \in TierHands : h = [stage |-> "take", tier |-> t]
    BY DEF TierHands
  <1>3. tierDesk' = [tierDesk EXCEPT ![c] = h] /\ h.stage # "show"
    BY <1>2 DEF Box!Start, Box!Hand
  <1>4. copies' \in [Box!Tiers -> [tier : TierRows, until : Nat] \cup {idle}]
    BY <1>1 DEF BoxInv, BoxShape
  <1> QED
    BY <1>1, <1>3, <1>4, TierHandMoved

(* Stock is taken or given back, and the tier then forgotten.              *)
LEMMA StockMoved ==
  ASSUME BoxInv, NEW c \in Callers, NEW t \in Box!Tiers, NEW n \in Nat, n <= tier[t].quantity,
         tier' = [tier EXCEPT ![t].taken = n], tierDesk' = [tierDesk EXCEPT ![c] = [stage |-> "forget", tier |-> t]],
         UNCHANGED <<clock, event, copies, list, panel, left>>
  PROVE  BoxInv'
  <1>1. tier \in [Box!Tiers -> TierRows] /\ tier[t] \in TierRows /\ left \in [Box!Tiers -> Nat]
    BY DEF BoxInv, BoxShape
  <1>2. PICK r : r = [tier[t] EXCEPT !.taken = n]
    OBVIOUS
  <1>3. r \in TierRows /\ r.taken = n /\ r.quantity = tier[t].quantity /\ r.status = tier[t].status
    BY <1>1, <1>2 DEF TierRows
  <1>4. tier' = [tier EXCEPT ![t] = r]
    BY <1>2
  <1>5. PICK h \in TierHands : h = [stage |-> "forget", tier |-> t]
    BY DEF TierHands
  <1>6. tierDesk' = [tierDesk EXCEPT ![c] = h] /\ h.stage # "show"
    BY <1>5
  <1>7. /\ r.taken <= r.quantity /\ left' \in [Box!Tiers -> Nat]
        /\ \A s \in Box!Tiers : left'[s] # left[s] => left'[s] = clock
        /\ tier[t].status = "on_sale" => r.status = "on_sale" \/ left'[t] = clock
    BY <1>1, <1>3
  <1> HIDE <1>5
  <1> QED
    BY <1>3, <1>4, <1>6, <1>7, TierWritten

LEMMA StockTaken ==
  ASSUME BoxInv, NEW c \in Callers, Box!Reserve(c)
  PROVE  BoxInv'
  <1> DEFINE t == tierDesk[c].tier
  <1>1. tierDesk[c].stage = "take" /\ UNCHANGED <<clock, event, copies, list, panel, left>>
    BY DEF Box!Reserve
  <1>2. t \in Box!Tiers
    <2>1. tierDesk[c] \in TierHands
      BY DEF BoxInv, BoxShape
    <2> QED
      BY <1>1, <2>1 DEF TierHands
  <1>3. tier[t] \in TierRows /\ copies \in [Box!Tiers -> [tier : TierRows, until : Nat] \cup {idle}]
    BY <1>2 DEF BoxInv, BoxShape
  <1>4. CASE tier[t].status = "on_sale" /\ tier[t].taken + 1 <= tier[t].quantity
    <2>1. tier' = [tier EXCEPT ![t].taken = tier[t].taken + 1]
      BY <1>2, <1>4 DEF Box!Reserve, BoxInv, BoxShape
    <2>2. tierDesk' = [tierDesk EXCEPT ![c] = [stage |-> "forget", tier |-> t]]
      BY <1>4 DEF Box!Reserve, Box!Hand
    <2>3. tier[t].taken + 1 \in Nat /\ tier[t].taken + 1 <= tier[t].quantity
      BY <1>3, <1>4 DEF TierRows
    <2> QED
      BY <1>1, <1>2, <2>1, <2>2, <2>3, StockMoved
  <1>5. CASE ~(tier[t].status = "on_sale" /\ tier[t].taken + 1 <= tier[t].quantity)
    <2>1. tierDesk' = [tierDesk EXCEPT ![c] = Box!Free] /\ UNCHANGED tier
      BY <1>5 DEF Box!Reserve, Box!Hand
    <2> QED
      BY <1>1, <1>3, <2>1, FreeTierHand, TierHandMoved
  <1> QED
    BY <1>4, <1>5

LEMMA StockGivenBack ==
  ASSUME BoxInv, NEW c \in Callers, NEW t \in Box!Tiers, Box!Release(c, t)
  PROVE  BoxInv'
  <1>1. tier[t] \in TierRows /\ tier[t].taken <= tier[t].quantity
    BY DEF BoxInv, BoxShape, StockCovers
  <1>2. tier[t].taken - 1 \in Nat /\ tier[t].taken - 1 <= tier[t].quantity
    BY <1>1 DEF Box!Release, TierRows
  <1>3. tier' = [tier EXCEPT ![t].taken = tier[t].taken - 1]
    BY DEF Box!Release
  <1>4. /\ tierDesk' = [tierDesk EXCEPT ![c] = [stage |-> "forget", tier |-> t]]
        /\ UNCHANGED <<clock, event, copies, list, panel, left>>
    BY DEF Box!Release, Box!Hand
  <1> QED
    BY <1>2, <1>3, <1>4, StockMoved

LEMMA TimePassed ==
  ASSUME BoxInv, Box!Tick
  PROVE  BoxInv'
  <1>1. /\ \A c \in Callers : tierDesk[c].stage = "free"
        /\ UNCHANGED <<event, tier, copies, list, tierDesk, left>> /\ panel' = idle
        /\ clock' \in Moments /\ clock' > clock
    BY DEF Box!Tick, Box!Free
  <1>2. clock \in Nat /\ clock' \in Nat
    BY <1>1, BoxConstants DEF BoxInv, BoxShape
  <1>3. BoxShape'
    BY <1>1, <1>2 DEF BoxInv, BoxShape
  <1>4. ListFresh'
    <2>1. list # idle => list.until \in Nat
      BY DEF BoxInv, BoxShape
    <2> QED
      BY <1>1, <1>2, <2>1 DEF BoxInv, ListFresh, OnSaleUntil
  <1>5. PanelFresh' /\ InHandFresh' /\ StockCovers'
    BY <1>1 DEF PanelFresh, InHandFresh, BoxInv, StockCovers
  <1> QED
    BY <1>3, <1>4, <1>5 DEF BoxInv

LEMMA BoxKept == BoxInv /\ [Box!Next]_boxVars => BoxInv'
  <1> SUFFICES ASSUME BoxInv, [Box!Next]_boxVars PROVE BoxInv'
    OBVIOUS
  <1>1. ASSUME NEW e \in Box!Shows, Box!CancelEvent(e) PROVE BoxInv'
    <2>1. event' \in [Box!Shows -> {"published", "cancelled"}] /\ UNCHANGED <<clock, tier, copies, list, tierDesk, panel, left>>
      BY <1>1 DEF Box!CancelEvent, BoxInv, BoxShape
    <2>2. BoxShape'
      BY <2>1 DEF BoxInv, BoxShape
    <2> QED
      BY <2>1, <2>2 DEF BoxInv, StockCovers, ListFresh, PanelFresh, InHandFresh, OnSaleUntil
  <1>2. CASE UNCHANGED boxVars
    <2>1. BoxShape'
      BY <1>2 DEF boxVars, BoxInv, BoxShape
    <2> QED
      BY <1>2, <2>1 DEF boxVars, BoxInv, StockCovers, ListFresh, PanelFresh, InHandFresh, OnSaleUntil
  <1> QED
    BY <1>1, <1>2, TimePassed, ListStored, TierUpdated, TierForgotten, StockTaken, ListShown, TierCopied,
       TierChosen, StockGivenBack DEF Box!Next

LEMMA BoxSafe == BoxInv => Box!TypeOK /\ Box!TierSound
  <1> SUFFICES ASSUME BoxInv PROVE Box!TypeOK /\ Box!TierSound
    OBVIOUS
  <1>1. Box!TypeOK
    BY DEF BoxInv, BoxShape, TierRows, Box!TypeOK
  <1>2. \A t \in Box!Tiers : tier[t].taken \in 0..tier[t].quantity
    BY DEF BoxInv, BoxShape, StockCovers, TierRows
  <1>3. ASSUME panel # idle, NEW t \in panel.tiers PROVE tier[t].status = "on_sale" \/ clock - left[t] <= 3
    <2>1. t \in Box!Tiers
      BY <1>3 DEF BoxInv, BoxShape
    <2>2. clock \in Nat /\ left[t] \in Nat
      BY <2>1 DEF BoxInv, BoxShape
    <2>3. tier[t].status = "on_sale" \/ clock <= left[t] + 3
      BY <1>3 DEF BoxInv, PanelFresh, OnSaleUntil
    <2> QED
      BY <2>2, <2>3
  <1> QED
    BY <1>1, <1>2, <1>3 DEF Box!TierSound, Box!TicketTTL

(* A set of numbers that ends has a last one: of the stretches from each   *)
(* of them to the end, one holds no other.                                 *)
LEMMA GreatestOf ==
  ASSUME NEW n \in Nat, NEW T \in SUBSET (0..n), T # {}
  PROVE  \E x \in T : \A y \in T : y <= x
  <1> DEFINE N == 0..n
             U == {x..n : x \in T}
  <1>1. IsFiniteSet(N)
    BY FS_Interval
  <1>2. U \subseteq SUBSET N /\ U # {}
    <2>1. \A x \in T : (x..n) \in SUBSET N
      OBVIOUS
    <2>2. PICK x \in T : TRUE
      OBVIOUS
    <2>3. (x..n) \in U
      OBVIOUS
    <2>4. ASSUME NEW u \in U PROVE u \in SUBSET N
      <3>1. PICK z \in T : u = z..n
        OBVIOUS
      <3> HIDE DEF N
      <3> QED
        BY <2>1, <3>1
    <2> QED
      <3> HIDE DEF U, N
      <3> QED
        BY <2>3, <2>4
  <1>3. IsWellFoundedOn(StrictSubsetOrdering(N), SUBSET N)
    BY <1>1, FS_StrictSubsetOrderingWellFounded, FS_FiniteSubsetsOfFinite
  <1>4. PICK u \in U : \A w \in U : ~ (<<w, u>> \in StrictSubsetOrdering(N))
    <2> HIDE DEF U, N
    <2> QED
      BY <1>2, <1>3, WFMin
  <1>5. PICK x \in T : u = x..n
    OBVIOUS
  <1>6. ASSUME NEW y \in T PROVE y <= x
    <2>1. (y..n) \in U /\ (y..n) \subseteq N /\ (x..n) \subseteq N
      OBVIOUS
    <2>2. ~((y..n) \subseteq (x..n) /\ (y..n) # (x..n))
      <3>1. <<y..n, x..n>> \notin StrictSubsetOrdering(N)
        BY <1>4, <1>5, <2>1
      <3> HIDE DEF N
      <3> QED
        BY <2>1, <3>1 DEF StrictSubsetOrdering
    <2>3. CASE y > x
      <3>1. (y..n) \subseteq (x..n) /\ x \in (x..n) /\ x \notin (y..n)
        BY <2>3
      <3> QED
        BY <2>2, <3>1
    <2> QED
      BY <2>3
  <1> QED
    BY <1>6

-----------------------------------------------------------------------------
(* The map a crowd polls.  A number is given once, so a chair's next       *)
(* number is above its last; a chair in a change is its order's alone      *)
(* until the change ends, so who holds it does not change on the way; and  *)
(* a screen shows of a chair what it was, never what it will be.           *)
Standings == {"available", "held", "sold"}
Chairs == [status : Standings, order : Callers \cup {idle}, version : Nat]
ChairSets == UNION {[w -> Chairs] : w \in SUBSET Seats}
Changes ==
    [kind : {"none"}] \cup [kind : {"claim", "release", "commit", "return"}, rows : ChairSets]
Shown == [status : Standings, version : Nat] \cup {idle}
FeedShape ==
    /\ sequence \in 1..MaxVersion /\ seat \in [Seats -> Chairs] /\ change \in [Callers -> Changes]
    /\ screen \in [Clients -> [cursor : Nat, shows : [Seats -> Shown]]]
    /\ \A c \in Clients : screen[c].cursor <= sequence
NumberedOnce ==
    /\ \A s \in Seats : seat[s].version \in 1..sequence
    /\ \A s, t \in Seats : s # t /\ seat[s].version # 1 => seat[s].version # seat[t].version
NumbersKept ==
    \A o \in Callers : \A s \in Feed!Written(o) :
        /\ change[o].rows[s].version \in 2..sequence /\ change[o].rows[s].version > seat[s].version
        /\ \A t \in Seats : change[o].rows[s].version # seat[t].version
        /\ \A p \in Callers : \A t \in Feed!Written(p) :
              (o # p \/ s # t) => change[o].rows[s].version # change[p].rows[t].version
OneHolder ==
    /\ \A s \in Seats : seat[s].status = "available" => seat[s].order = idle
    /\ \A o \in Callers : \A s \in Feed!Written(o) :
          /\ seat[s].order \in {idle, o} /\ change[o].rows[s].order \in {idle, o}
          /\ change[o].rows[s].status = "available" => change[o].rows[s].order = idle
    /\ \A o, p \in Callers : o # p => Feed!Written(o) \cap Feed!Written(p) = {}
ScreensBehind ==
    \A c \in Clients, s \in Seats : screen[c].shows[s] # idle => screen[c].shows[s].version <= seat[s].version
FeedInv == FeedShape /\ NumberedOnce /\ NumbersKept /\ OneHolder /\ ScreensBehind

LEMMA FeedAsked == IsFiniteSet(Seats) /\ MaxVersion \in Nat \ {0} /\ idle \notin Callers
  BY HouseAssumption, CountedAlike DEF Feed!FeedAssumption

(* What a change in hand has written is rows of chairs.                    *)
LEMMA WrittenRows ==
  ASSUME FeedShape, NEW o \in Callers
  PROVE  /\ change[o] = Feed!NoChange => Feed!Written(o) = {}
         /\ change[o] # Feed!NoChange => Feed!Written(o) = DOMAIN change[o].rows /\ change[o].rows \in ChairSets
         /\ Feed!Written(o) \subseteq Seats
         /\ \A s \in Feed!Written(o) : change[o].rows[s] \in Chairs
  <1>1. change[o] \in Changes
    BY DEF FeedShape
  <1>2. CASE change[o] = Feed!NoChange
    BY <1>2 DEF Feed!Written
  <1>3. CASE change[o] # Feed!NoChange
    <2>1. change[o].rows \in ChairSets
      BY <1>1, <1>3 DEF Changes, Feed!NoChange
    <2>2. PICK w \in SUBSET Seats : change[o].rows \in [w -> Chairs]
      BY <2>1 DEF ChairSets
    <2>3. Feed!Written(o) = DOMAIN change[o].rows
      BY <1>3 DEF Feed!Written
    <2> QED
      BY <1>3, <2>1, <2>2, <2>3
  <1> QED
    BY <1>2, <1>3

LEMMA FeedStart == Feed!Init => FeedInv
  <1> SUFFICES ASSUME Feed!Init PROVE FeedInv
    OBVIOUS
  <1>1. \A s \in Seats : seat[s] = [status |-> "available", order |-> idle, version |-> 1]
    BY DEF Feed!Init, Feed!Free
  <1>2. \A o \in Callers : change[o] = Feed!NoChange
    BY DEF Feed!Init
  <1>3. \A o \in Callers : Feed!Written(o) = {}
    BY <1>2 DEF Feed!Written
  <1>4. seat \in [Seats -> Chairs]
    BY DEF Feed!Init, Feed!Free, Chairs, Standings
  <1>5. change \in [Callers -> Changes]
    BY DEF Feed!Init, Feed!NoChange, Changes
  <1>6. screen \in [Clients -> [cursor : Nat, shows : [Seats -> Shown]]]
    BY DEF Feed!Init, Shown
  <1>7. \A c \in Clients : screen[c].cursor = 0 /\ \A s \in Seats : screen[c].shows[s] = idle
    BY DEF Feed!Init
  <1>8. sequence = 1 /\ sequence \in 1..MaxVersion
    BY FeedAsked DEF Feed!Init
  <1>9. FeedShape
    BY <1>4, <1>5, <1>6, <1>7, <1>8 DEF FeedShape
  <1>10. NumberedOnce
    BY <1>1, <1>8 DEF NumberedOnce
  <1>11. NumbersKept /\ OneHolder
    BY <1>1, <1>3 DEF NumbersKept, OneHolder
  <1>12. ScreensBehind
    BY <1>7 DEF ScreensBehind
  <1> QED
    BY <1>9, <1>10, <1>11, <1>12 DEF FeedInv

(* One statement's rows, stamped above everything given before.            *)
LEMMA FeedStamped ==
  ASSUME FeedInv, NEW o \in Callers, change[o] = Feed!NoChange, NEW rows \in SUBSET Seats,
         \A p \in Callers : rows \cap Feed!Written(p) = {}, NEW top \in Nat, top <= MaxVersion, top >= sequence,
         NEW standing \in Standings, NEW holder \in Callers \cup {idle}, holder \in {idle, o}, standing = "available" => holder = idle,
         \A s \in rows : seat[s].order \in {idle, o}, NEW f,
         f \in [rows -> [status : {standing}, order : {holder}, version : (sequence + 1)..top]],
         \A s, t \in rows : s # t => f[s].version # f[t].version,
         NEW kind \in {"claim", "release", "commit", "return"},
         change' = [change EXCEPT ![o] = [kind |-> kind, rows |-> f]], sequence' = top, UNCHANGED <<seat, screen>>
  PROVE  FeedInv'
  <1>1. FeedShape /\ sequence \in Nat /\ sequence >= 1 /\ MaxVersion \in Nat
    BY FeedAsked DEF FeedInv, FeedShape
  <1>2. PICK v : v = [kind |-> kind, rows |-> f]
    OBVIOUS
  <1>3. v.rows = f /\ v # Feed!NoChange /\ change' = [change EXCEPT ![o] = v]
    BY <1>2 DEF Feed!NoChange
  <1>4. \A s \in rows : f[s] \in Chairs /\ f[s].status = standing /\ f[s].order = holder /\ f[s].version \in (sequence + 1)..top
    BY <1>1 DEF Chairs
  <1>5. f \in ChairSets
    <2>1. f \in [rows -> Chairs]
      BY <1>4
    <2> QED
      BY <2>1 DEF ChairSets
  <1>6. change' \in [Callers -> Changes] /\ change'[o] = v /\ \A p \in Callers : p # o => change'[p] = change[p]
    BY <1>1, <1>2, <1>3, <1>5 DEF FeedShape, Changes
  <1>7. Feed!Written(o)' = rows /\ \A p \in Callers : p # o => Feed!Written(p)' = Feed!Written(p)
    BY <1>3, <1>6 DEF Feed!Written
  <1>8. FeedShape'
    BY <1>1, <1>6 DEF FeedShape
  <1>9. NumberedOnce'
    BY <1>1 DEF FeedInv, NumberedOnce
  <1>10. \A s \in rows, t \in Seats : f[s].version > seat[t].version /\ f[s].version \in 2..top
    BY <1>1, <1>4 DEF FeedInv, NumberedOnce
  <1>11. \A p \in Callers : \A s \in Feed!Written(p) : change[p].rows[s].version \in 2..sequence
    BY DEF FeedInv, NumbersKept
  <1>12. NumbersKept'
    <2> SUFFICES ASSUME NEW p \in Callers, NEW s \in Feed!Written(p)'
                 PROVE  /\ change'[p].rows[s].version \in 2..top /\ change'[p].rows[s].version > seat[s].version
                        /\ \A t \in Seats : change'[p].rows[s].version # seat[t].version
                        /\ \A q \in Callers : \A t \in Feed!Written(q)' :
                              (p # q \/ s # t) => change'[p].rows[s].version # change'[q].rows[t].version
      BY DEF NumbersKept
    <2>1. CASE p = o
      <3>1. s \in rows /\ change'[p].rows = f /\ s \in Seats
        BY <1>3, <1>6, <1>7, <2>1
      <3>2. f[s].version \in 2..top /\ f[s].version > seat[s].version /\ f[s].version > sequence
        BY <1>1, <1>4, <1>10, <3>1
      <3>3. \A t \in Seats : f[s].version # seat[t].version
        BY <1>1, <1>10, <3>1 DEF FeedShape, Chairs
      <3>4. ASSUME NEW q \in Callers, NEW t \in Feed!Written(q)', p # q \/ s # t
            PROVE  f[s].version # change'[q].rows[t].version
        <4>1. CASE q = o
          BY <1>3, <1>6, <1>7, <2>1, <3>1, <3>4, <4>1
        <4>2. CASE q # o
          <5>1. change'[q].rows[t].version \in 2..sequence
            BY <1>6, <1>7, <1>11, <4>2, SMTT(30)
          <5> QED
            BY <1>1, <3>2, <5>1
        <4> QED
          BY <4>1, <4>2
      <3> QED
        BY <3>1, <3>2, <3>3, <3>4
    <2>2. CASE p # o
      <3>1. s \in Feed!Written(p) /\ change'[p] = change[p]
        BY <1>6, <1>7, <2>2
      <3>2. /\ change[p].rows[s].version \in 2..sequence /\ change[p].rows[s].version > seat[s].version
            /\ \A t \in Seats : change[p].rows[s].version # seat[t].version
            /\ \A q \in Callers : \A t \in Feed!Written(q) :
                  (p # q \/ s # t) => change[p].rows[s].version # change[q].rows[t].version
        BY <3>1 DEF FeedInv, NumbersKept
      <3>3. change[p].rows[s].version \in 2..top
        BY <1>1, <3>2
      <3>4. ASSUME NEW q \in Callers, NEW t \in Feed!Written(q)', p # q \/ s # t
            PROVE  change[p].rows[s].version # change'[q].rows[t].version
        <4>1. CASE q = o
          <5>1. t \in rows /\ change'[q].rows = f
            BY <1>3, <1>6, <1>7, <4>1
          <5>2. f[t].version > sequence /\ f[t].version \in Nat
            BY <1>1, <1>4, <5>1
          <5> QED
            BY <1>1, <3>2, <5>1, <5>2
        <4>2. CASE q # o
          BY <1>6, <1>7, <3>2, <3>4, <4>2
        <4> QED
          BY <4>1, <4>2
      <3> QED
        BY <3>1, <3>2, <3>3, <3>4
    <2> QED
      BY <2>1, <2>2
  <1>13. OneHolder'
    <2>1. \A s \in Seats : seat[s].status = "available" => seat[s].order = idle
      BY DEF FeedInv, OneHolder
    <2>2. ASSUME NEW p \in Callers, NEW s \in Feed!Written(p)'
          PROVE  /\ seat[s].order \in {idle, p} /\ change'[p].rows[s].order \in {idle, p}
                 /\ change'[p].rows[s].status = "available" => change'[p].rows[s].order = idle
      <3>1. CASE p = o
        BY <1>3, <1>4, <1>6, <1>7, <3>1
      <3>2. CASE p # o
        BY <1>6, <1>7, <3>2 DEF FeedInv, OneHolder
      <3> QED
        BY <3>1, <3>2
    <2>3. \A p, q \in Callers : p # q => Feed!Written(p)' \cap Feed!Written(q)' = {}
      <3>1. \A p, q \in Callers : p # q => Feed!Written(p) \cap Feed!Written(q) = {}
        BY DEF FeedInv, OneHolder
      <3> QED
        BY <1>7, <3>1
    <2> QED
      BY <2>1, <2>2, <2>3 DEF OneHolder
  <1>14. ScreensBehind'
    BY DEF FeedInv, ScreensBehind
  <1> QED
    BY <1>8, <1>9, <1>12, <1>13, <1>14 DEF FeedInv

(* Every statement of an order is one of these.                            *)
LEMMA FeedChanged ==
  ASSUME FeedInv, NEW o \in Callers, NEW rows \in SUBSET Seats, NEW standing \in Standings, NEW holder \in Callers \cup {idle}, holder \in {idle, o},
         standing = "available" => holder = idle, \A s \in rows : seat[s].order \in {idle, o},
         NEW kind \in {"claim", "release", "commit", "return"}, Feed!Change(o, rows, standing, holder, kind)
  PROVE  FeedInv'
  <1> DEFINE top == sequence + Cardinality(rows)
  <1>1. IsFiniteSet(rows) /\ Cardinality(rows) \in Nat /\ Feed!Cardinality(rows) = Cardinality(rows)
    BY FeedAsked, CountedAlike, FS_Subset, FS_CardinalityType
  <1>2. sequence \in Nat /\ MaxVersion \in Nat
    BY FeedAsked DEF FeedInv, FeedShape
  <1>3. change[o] = Feed!NoChange /\ rows \cap Feed!Locked = {} /\ UNCHANGED <<seat, screen>>
    BY DEF Feed!Change
  <1>4. sequence' = top /\ top <= MaxVersion /\ top \in Nat /\ top >= sequence
    BY <1>1, <1>2 DEF Feed!Change
  <1>5. PICK f \in Feed!Stamp(rows, standing, holder) : change' = [change EXCEPT ![o] = [kind |-> kind, rows |-> f]]
    BY DEF Feed!Change
  <1>6. /\ f \in [rows -> [status : {standing}, order : {holder}, version : (sequence + 1)..top]]
        /\ \A s, t \in rows : s # t => f[s].version # f[t].version
    BY <1>1, <1>5 DEF Feed!Stamp
  <1>7. \A p \in Callers : rows \cap Feed!Written(p) = {}
    BY <1>3 DEF Feed!Locked
  <1> HIDE DEF top
  <1> QED
    BY <1>3, <1>4, <1>5, <1>6, <1>7, FeedStamped, ZenonT(60)

LEMMA FeedAsksStand ==
  ASSUME FeedInv, NEW o \in Callers,
         \/ \E wanted \in SUBSET Seats : Feed!Claim(o, wanted)
         \/ Feed!ReleaseForOrder(o) \/ Feed!CommitForOrder(o) \/ Feed!ReleaseSoldForOrder(o)
  PROVE  FeedInv'
  <1>1. ASSUME NEW wanted \in SUBSET Seats, Feed!Claim(o, wanted) PROVE FeedInv'
    <2>1. Feed!Change(o, wanted, "held", o, "claim") /\ \A s \in wanted : seat[s].order \in {idle, o}
      BY <1>1 DEF Feed!Claim, Feed!Claimable, FeedInv, OneHolder
    <2> QED
      BY <2>1, FeedChanged DEF Standings
  <1>2. CASE Feed!ReleaseForOrder(o)
    <2>1. PICK rows \in SUBSET Seats : rows = Feed!Mine(o, "held")
      BY DEF Feed!Mine
    <2>2. Feed!Change(o, rows, "available", idle, "release") /\ \A s \in rows : seat[s].order \in {idle, o}
      BY <1>2, <2>1 DEF Feed!ReleaseForOrder, Feed!Mine
    <2> QED
      BY <2>2, FeedChanged DEF Standings
  <1>3. CASE Feed!CommitForOrder(o)
    <2>1. PICK rows \in SUBSET Seats : rows = Feed!Mine(o, "held")
      BY DEF Feed!Mine
    <2>2. Feed!Change(o, rows, "sold", o, "commit") /\ \A s \in rows : seat[s].order \in {idle, o}
      BY <1>3, <2>1 DEF Feed!CommitForOrder, Feed!Mine
    <2> QED
      BY <2>2, FeedChanged DEF Standings
  <1>4. CASE Feed!ReleaseSoldForOrder(o)
    <2>1. PICK rows \in SUBSET Seats : rows = Feed!Mine(o, "sold")
      BY DEF Feed!Mine
    <2>2. Feed!Change(o, rows, "available", idle, "return") /\ \A s \in rows : seat[s].order \in {idle, o}
      BY <1>4, <2>1 DEF Feed!ReleaseSoldForOrder, Feed!Mine
    <2> QED
      BY <2>2, FeedChanged DEF Standings
  <1> QED
    BY <1>1, <1>2, <1>3, <1>4

LEMMA FeedCommitted ==
  ASSUME FeedInv, NEW o \in Callers, Feed!Commits(o)
  PROVE  FeedInv' /\ Feed!OldMapSellsNothing
  <1> DEFINE W == Feed!Written(o)
  <1>1. FeedShape /\ change[o] # Feed!NoChange /\ UNCHANGED <<sequence, screen>>
    BY DEF FeedInv, Feed!Commits
  <1>2. /\ seat' = [s \in Seats |-> IF s \in W THEN change[o].rows[s] ELSE seat[s]]
        /\ change' = [change EXCEPT ![o] = Feed!NoChange]
    BY DEF Feed!Commits
  <1>3. W \subseteq Seats /\ \A s \in W : change[o].rows[s] \in Chairs
    BY <1>1, WrittenRows
  <1>4. change' \in [Callers -> Changes] /\ change'[o] = Feed!NoChange /\ \A p \in Callers : p # o => change'[p] = change[p]
    BY <1>1, <1>2 DEF FeedShape, Changes, Feed!NoChange
  <1>5. Feed!Written(o)' = {} /\ \A p \in Callers : p # o => Feed!Written(p)' = Feed!Written(p)
    BY <1>4 DEF Feed!Written
  <1>6. /\ \A s \in Seats : s \in W => seat'[s] = change[o].rows[s]
        /\ \A s \in Seats : s \notin W => seat'[s] = seat[s]
        /\ seat' \in [Seats -> Chairs]
    BY <1>1, <1>2, <1>3 DEF FeedShape
  <1>7. /\ \A s \in W : /\ change[o].rows[s].version \in 2..sequence /\ change[o].rows[s].version > seat[s].version
                        /\ \A t \in Seats : change[o].rows[s].version # seat[t].version
                        /\ \A p \in Callers : \A t \in Feed!Written(p) :
                              (o # p \/ s # t) => change[o].rows[s].version # change[p].rows[t].version
        /\ sequence \in Nat
    BY FeedAsked DEF FeedInv, FeedShape, NumbersKept
  <1>8. /\ \A s \in Seats : seat[s].version \in 1..sequence
        /\ \A s, t \in Seats : s # t /\ seat[s].version # 1 => seat[s].version # seat[t].version
    BY DEF FeedInv, NumberedOnce
  <1> HIDE DEF W
  <1>9. FeedShape'
    BY <1>1, <1>4, <1>6 DEF FeedShape
  <1>10. NumberedOnce'
    <2>1. \A s \in Seats : seat'[s].version \in 1..sequence
      BY <1>6, <1>7, <1>8
    <2>2. ASSUME NEW s \in Seats, NEW t \in Seats, s # t, seat'[s].version # 1
          PROVE  seat'[s].version # seat'[t].version
      <3>1. CASE s \in W /\ t \in W
        BY <1>6, <1>7, <2>2, <3>1 DEF W
      <3>2. CASE s \in W /\ t \notin W
        BY <1>6, <1>7, <3>2
      <3>3. CASE s \notin W /\ t \in W
        BY <1>6, <1>7, <3>3
      <3>4. CASE s \notin W /\ t \notin W
        BY <1>6, <1>8, <2>2, <3>4
      <3> QED
        BY <3>1, <3>2, <3>3, <3>4
    <2> QED
      BY <1>1, <2>1, <2>2 DEF NumberedOnce
  <1>11. NumbersKept'
    <2> SUFFICES ASSUME NEW p \in Callers, NEW s \in Feed!Written(p)'
                 PROVE  /\ change'[p].rows[s].version \in 2..sequence /\ change'[p].rows[s].version > seat'[s].version
                        /\ \A t \in Seats : change'[p].rows[s].version # seat'[t].version
                        /\ \A q \in Callers : \A t \in Feed!Written(q)' :
                              (p # q \/ s # t) => change'[p].rows[s].version # change'[q].rows[t].version
      BY <1>1 DEF NumbersKept
    <2>1. p # o /\ s \in Feed!Written(p) /\ change'[p] = change[p]
      BY <1>4, <1>5
    <2>2. /\ change[p].rows[s].version \in 2..sequence /\ change[p].rows[s].version > seat[s].version
          /\ \A t \in Seats : change[p].rows[s].version # seat[t].version
          /\ \A q \in Callers : \A t \in Feed!Written(q) :
                (p # q \/ s # t) => change[p].rows[s].version # change[q].rows[t].version
      BY <2>1 DEF FeedInv, NumbersKept
    <2>3. s \in Seats /\ s \notin W
      <3>1. Feed!Written(p) \cap W = {}
        BY <2>1 DEF FeedInv, OneHolder, W
      <3> QED
        BY <1>1, <2>1, <3>1, WrittenRows
    <2>4. \A t \in Seats : change[p].rows[s].version # seat'[t].version
      <3> TAKE t \in Seats
      <3>1. CASE t \in W
        BY <1>6, <1>7, <2>1, <2>2, <3>1 DEF W
      <3>2. CASE t \notin W
        BY <1>6, <2>2, <3>2
      <3> QED
        BY <3>1, <3>2
    <2>5. \A q \in Callers : \A t \in Feed!Written(q)' :
              (p # q \/ s # t) => change[p].rows[s].version # change'[q].rows[t].version
      BY <1>4, <1>5, <2>2
    <2> QED
      BY <1>6, <2>1, <2>2, <2>3, <2>4, <2>5
  <1>12. OneHolder'
    <2>1. /\ \A s \in Seats : seat[s].status = "available" => seat[s].order = idle
          /\ \A s \in W : change[o].rows[s].status = "available" => change[o].rows[s].order = idle
          /\ \A p \in Callers : \A s \in Feed!Written(p) :
                /\ seat[s].order \in {idle, p} /\ change[p].rows[s].order \in {idle, p}
                /\ change[p].rows[s].status = "available" => change[p].rows[s].order = idle
          /\ \A p, q \in Callers : p # q => Feed!Written(p) \cap Feed!Written(q) = {}
      BY DEF FeedInv, OneHolder, W
    <2>2. \A s \in Seats : seat'[s].status = "available" => seat'[s].order = idle
      BY <1>6, <2>1
    <2>3. ASSUME NEW p \in Callers, NEW s \in Feed!Written(p)'
          PROVE  /\ seat'[s].order \in {idle, p} /\ change'[p].rows[s].order \in {idle, p}
                 /\ change'[p].rows[s].status = "available" => change'[p].rows[s].order = idle
      <3>1. p # o /\ s \in Feed!Written(p) /\ change'[p] = change[p]
        BY <1>4, <1>5, <2>3
      <3>2. s \in Seats /\ s \notin W
        BY <1>1, <2>1, <3>1, WrittenRows DEF W
      <3> QED
        BY <1>6, <2>1, <3>1, <3>2
    <2>4. \A p, q \in Callers : p # q => Feed!Written(p)' \cap Feed!Written(q)' = {}
      <3> TAKE p, q \in Callers
      <3>1. CASE p = o \/ q = o
        BY <1>5, <3>1
      <3>2. CASE p # o /\ q # o
        BY <1>5, <2>1, <3>2
      <3> QED
        BY <3>1, <3>2
    <2> QED
      BY <2>2, <2>3, <2>4 DEF OneHolder
  <1>13. \A s \in Seats : seat'[s].version >= seat[s].version /\ (seat'[s] # seat[s] => seat'[s].version > seat[s].version)
    <2> TAKE s \in Seats
    <2>1. CASE s \in W
      BY <1>6, <1>7, <1>8, <2>1
    <2>2. CASE s \notin W
      BY <1>6, <1>8, <2>2
    <2> QED
      BY <2>1, <2>2
  <1>14. ScreensBehind'
    <2> SUFFICES ASSUME NEW c \in Clients, NEW s \in Seats, screen[c].shows[s] # idle
                 PROVE  screen[c].shows[s].version <= seat'[s].version
      BY <1>1 DEF ScreensBehind
    <2>1. screen[c].shows[s].version <= seat[s].version
      BY DEF FeedInv, ScreensBehind
    <2>2. screen[c].shows[s].version \in Nat
      BY <1>1 DEF FeedShape, Shown
    <2>3. seat[s].version \in Nat /\ seat'[s].version \in Nat
      BY <1>1, <1>6 DEF FeedShape, Chairs
    <2> QED
      BY <1>13, <2>1, <2>2, <2>3
  <1>15. FeedInv'
    BY <1>9, <1>10, <1>11, <1>12, <1>14 DEF FeedInv
  <1>16. \A s \in Seats : seat[s].order # idle /\ seat'[s].order # idle => seat'[s].order = seat[s].order
    <2> TAKE s \in Seats
    <2>1. CASE s \in W
      BY <1>6, <2>1 DEF FeedInv, OneHolder, W
    <2>2. CASE s \notin W
      BY <1>6, <2>2
    <2> QED
      BY <2>1, <2>2
  <1>17. \A c \in Clients, s \in Seats : screen[c].shows[s] # idle =>
            screen'[c].shows[s].version >= screen[c].shows[s].version
    <2> SUFFICES ASSUME NEW c \in Clients, NEW s \in Seats, screen[c].shows[s] # idle
                 PROVE  screen[c].shows[s].version >= screen[c].shows[s].version
      BY <1>1
    <2>1. screen[c].shows[s].version \in Nat
      BY <1>1 DEF FeedShape, Shown
    <2> QED
      BY <2>1
  <1> QED
    BY <1>10, <1>13, <1>15, <1>16, <1>17 DEF Feed!OldMapSellsNothing, NumberedOnce

LEMMA FeedUndone ==
  ASSUME FeedInv, NEW o \in Callers, Feed!RollsBack(o)
  PROVE  FeedInv'
  <1>1. UNCHANGED <<sequence, seat, screen>> /\ change' = [change EXCEPT ![o] = Feed!NoChange] /\ FeedShape
    BY DEF Feed!RollsBack, FeedInv
  <1>2. change' \in [Callers -> Changes] /\ change'[o] = Feed!NoChange /\ \A p \in Callers : p # o => change'[p] = change[p]
    BY <1>1 DEF FeedShape, Changes, Feed!NoChange
  <1>3. Feed!Written(o)' = {} /\ \A p \in Callers : p # o => Feed!Written(p)' = Feed!Written(p)
    BY <1>2 DEF Feed!Written
  <1>4. FeedShape' /\ NumberedOnce' /\ ScreensBehind'
    BY <1>1, <1>2 DEF FeedInv, FeedShape, NumberedOnce, ScreensBehind
  <1>5. NumbersKept'
    <2> SUFFICES ASSUME NEW p \in Callers, NEW s \in Feed!Written(p)'
                 PROVE  /\ change'[p].rows[s].version \in 2..sequence /\ change'[p].rows[s].version > seat[s].version
                        /\ \A t \in Seats : change'[p].rows[s].version # seat[t].version
                        /\ \A q \in Callers : \A t \in Feed!Written(q)' :
                              (p # q \/ s # t) => change'[p].rows[s].version # change'[q].rows[t].version
      BY <1>1 DEF NumbersKept
    <2>1. p # o /\ s \in Feed!Written(p) /\ change'[p] = change[p]
      BY <1>2, <1>3
    <2>2. /\ change[p].rows[s].version \in 2..sequence /\ change[p].rows[s].version > seat[s].version
          /\ \A t \in Seats : change[p].rows[s].version # seat[t].version
          /\ \A q \in Callers : \A t \in Feed!Written(q) :
                (p # q \/ s # t) => change[p].rows[s].version # change[q].rows[t].version
      BY <2>1 DEF FeedInv, NumbersKept
    <2> QED
      BY <1>2, <1>3, <2>1, <2>2
  <1>6. OneHolder'
    <2>1. /\ \A s \in Seats : seat[s].status = "available" => seat[s].order = idle
          /\ \A p \in Callers : \A s \in Feed!Written(p) :
                /\ seat[s].order \in {idle, p} /\ change[p].rows[s].order \in {idle, p}
                /\ change[p].rows[s].status = "available" => change[p].rows[s].order = idle
          /\ \A p, q \in Callers : p # q => Feed!Written(p) \cap Feed!Written(q) = {}
      BY DEF FeedInv, OneHolder
    <2>2. ASSUME NEW p \in Callers, NEW s \in Feed!Written(p)'
          PROVE  /\ seat[s].order \in {idle, p} /\ change'[p].rows[s].order \in {idle, p}
                 /\ change'[p].rows[s].status = "available" => change'[p].rows[s].order = idle
      BY <1>2, <1>3, <2>1, <2>2
    <2>3. \A p, q \in Callers : p # q => Feed!Written(p)' \cap Feed!Written(q)' = {}
      <3> TAKE p, q \in Callers
      <3>1. CASE p = o \/ q = o
        BY <1>3, <3>1
      <3>2. CASE p # o /\ q # o
        BY <1>3, <2>1, <3>2
      <3> QED
        BY <3>1, <3>2
    <2> QED
      BY <1>1, <2>1, <2>2, <2>3 DEF OneHolder
  <1> QED
    BY <1>4, <1>5, <1>6 DEF FeedInv

(* The screen alone moves.                                                 *)
LEMMA FeedSeen ==
  ASSUME FeedInv, NEW c \in Clients, NEW view, view \in [cursor : 0..sequence, shows : [Seats -> Shown]],
         \A s \in Seats : view.shows[s] # idle => view.shows[s].version <= seat[s].version,
         screen' = [screen EXCEPT ![c] = view], UNCHANGED <<sequence, seat, change>>
  PROVE  FeedInv'
  <1>1. FeedShape /\ sequence \in Nat
    BY FeedAsked DEF FeedInv, FeedShape
  <1>2. /\ screen'[c] = view /\ \A d \in Clients : d # c => screen'[d] = screen[d]
        /\ screen' \in [Clients -> [cursor : Nat, shows : [Seats -> Shown]]]
    BY <1>1 DEF FeedShape
  <1>3. FeedShape'
    BY <1>1, <1>2, SMTT(30) DEF FeedShape
  <1>4. NumberedOnce' /\ NumbersKept' /\ OneHolder'
    BY DEF FeedInv, NumberedOnce, NumbersKept, OneHolder, Feed!Written
  <1>5. ScreensBehind'
    BY <1>2 DEF FeedInv, ScreensBehind
  <1> QED
    BY <1>3, <1>4, <1>5 DEF FeedInv

LEMMA FeedPolled ==
  ASSUME FeedInv, NEW c \in Clients, Feed!Map(c)
  PROVE  FeedInv' /\ Feed!OldMapSellsNothing
  <1> DEFINE rows == Feed!ListByEvent(screen[c].cursor)
  <1>1. UNCHANGED <<sequence, seat, change>> /\ FeedShape /\ sequence \in Nat
    BY FeedAsked DEF Feed!Map, FeedInv, FeedShape
  <1>2. screen[c] \in [cursor : Nat, shows : [Seats -> Shown]] /\ screen[c].cursor \in 0..sequence
    BY <1>1 DEF FeedShape
  <1>3. PICK view : view = [cursor |-> Feed!Newest(rows, screen[c].cursor),
                            shows |-> [s \in Seats |-> IF s \in rows THEN [status |-> seat[s].status, version |-> seat[s].version]
                                                       ELSE screen[c].shows[s]]]
    OBVIOUS
  <1>4. screen' = [screen EXCEPT ![c] = view]
    BY <1>3 DEF Feed!Map
  <1>5. rows \subseteq Seats
    BY DEF Feed!ListByEvent
  <1> HIDE DEF rows
  <1>6. Feed!Newest(rows, screen[c].cursor) \in 0..sequence
    <2> DEFINE V == {seat[s].version : s \in rows} \cup {screen[c].cursor}
    <2>1. V \in SUBSET (0..sequence) /\ V # {}
      <3>1. \A s \in rows : seat[s].version \in 0..sequence
        BY <1>1, <1>5 DEF FeedInv, NumberedOnce
      <3> QED
        BY <1>2, <3>1
    <2>2. Feed!Newest(rows, screen[c].cursor) = CHOOSE v \in V : \A w \in V : w <= v
      BY DEF Feed!Newest
    <2> HIDE DEF V
    <2>3. \E v \in V : \A w \in V : w <= v
      BY <1>1, <2>1, GreatestOf
    <2>4. Feed!Newest(rows, screen[c].cursor) \in V
      BY <2>2, <2>3
    <2> QED
      BY <2>1, <2>4
  <1>7. ASSUME NEW s \in Seats
        PROVE  /\ view.shows[s] \in Shown
               /\ view.shows[s] # idle => view.shows[s].version <= seat[s].version
               /\ screen[c].shows[s] # idle => view.shows[s].version >= screen[c].shows[s].version
    <2>1. seat[s] \in Chairs /\ screen[c].shows[s] \in Shown
      BY <1>1, <1>2 DEF FeedShape
    <2>2. screen[c].shows[s] # idle => screen[c].shows[s].version <= seat[s].version /\ screen[c].shows[s].version \in Nat
      BY <2>1 DEF FeedInv, ScreensBehind, Shown
    <2>3. CASE s \in rows
      <3>1. view.shows[s] = [status |-> seat[s].status, version |-> seat[s].version]
        BY <1>3, <2>3
      <3>2. view.shows[s].version = seat[s].version /\ seat[s].version \in Nat /\ view.shows[s] \in Shown
        BY <2>1, <3>1 DEF Chairs, Shown
      <3> QED
        BY <2>2, <3>2
    <2>4. CASE s \notin rows
      BY <1>3, <2>1, <2>2, <2>4
    <2> QED
      BY <2>3, <2>4
  <1>8. view \in [cursor : 0..sequence, shows : [Seats -> Shown]]
    <2>1. view.shows \in [Seats -> Shown] /\ view.cursor \in 0..sequence
      BY <1>3, <1>6, <1>7
    <2> QED
      BY <1>3, <2>1
  <1>9. FeedInv'
    BY <1>1, <1>4, <1>7, <1>8, FeedSeen
  <1>10. \A d \in Clients, s \in Seats : screen[d].shows[s] # idle =>
            screen'[d].shows[s].version >= screen[d].shows[s].version
    <2> SUFFICES ASSUME NEW d \in Clients, NEW s \in Seats, screen[d].shows[s] # idle
                 PROVE  screen'[d].shows[s].version >= screen[d].shows[s].version
      OBVIOUS
    <2>1. CASE d = c
      BY <1>1, <1>4, <1>7, <2>1 DEF FeedShape
    <2>2. CASE d # c
      <3>1. screen[d].shows[s].version \in Nat
        BY <1>1 DEF FeedShape, Shown
      <3> QED
        BY <1>1, <1>4, <2>2, <3>1 DEF FeedShape
    <2> QED
      BY <2>1, <2>2
  <1> QED
    BY <1>1, <1>9, <1>10 DEF Feed!OldMapSellsNothing, FeedInv, NumberedOnce

(* A step that leaves chairs and screens' rows alone sells nothing.        *)
LEMMA FeedStill ==
  ASSUME FeedInv, seat' = seat, \A c \in Clients : screen'[c].shows = screen[c].shows
  PROVE  Feed!OldMapSellsNothing
  <1>1. \A c \in Clients, s \in Seats : screen[c].shows[s] # idle => screen[c].shows[s].version \in Nat
    BY DEF FeedInv, FeedShape, Shown
  <1>2. \A c \in Clients, s \in Seats : screen[c].shows[s] # idle =>
            screen'[c].shows[s].version >= screen[c].shows[s].version
    BY <1>1
  <1>3. \A s, t \in Seats : s # t /\ seat[s].version # 1 => seat[s].version # seat[t].version
    BY DEF FeedInv, NumberedOnce
  <1> QED
    BY <1>2, <1>3 DEF Feed!OldMapSellsNothing

LEMMA FeedReloaded ==
  ASSUME FeedInv, NEW c \in Clients, Feed!Reload(c)
  PROVE  FeedInv' /\ Feed!OldMapSellsNothing
  <1>1. screen[c] \in [cursor : Nat, shows : [Seats -> Shown]] /\ sequence \in Nat /\ UNCHANGED <<sequence, seat, change>>
        /\ screen \in [Clients -> [cursor : Nat, shows : [Seats -> Shown]]]
    BY FeedAsked DEF Feed!Reload, FeedInv, FeedShape
  <1>2. PICK view : view = [screen[c] EXCEPT !.cursor = 0]
    OBVIOUS
  <1>3. view \in [cursor : 0..sequence, shows : [Seats -> Shown]] /\ view.shows = screen[c].shows
    BY <1>1, <1>2
  <1>4. screen' = [screen EXCEPT ![c] = view]
    BY <1>1, <1>2 DEF Feed!Reload
  <1>5. FeedInv'
    BY <1>1, <1>3, <1>4, FeedSeen DEF FeedInv, ScreensBehind
  <1>6. \A d \in Clients : screen'[d].shows = screen[d].shows
    BY <1>1, <1>3, <1>4
  <1> QED
    BY <1>1, <1>5, <1>6, FeedStill

(* Every step of the map keeps the invariant, and sells nothing twice.     *)
LEMMA FeedKept ==
  ASSUME FeedInv, [Feed!Next]_feedVars
  PROVE  FeedInv' /\ Feed!OldMapSellsNothing
  <1>1. ASSUME NEW o \in Callers,
               \/ \E wanted \in SUBSET Seats : Feed!Claim(o, wanted)
               \/ Feed!ReleaseForOrder(o) \/ Feed!CommitForOrder(o) \/ Feed!ReleaseSoldForOrder(o)
        PROVE  FeedInv' /\ Feed!OldMapSellsNothing
    <2>1. UNCHANGED <<seat, screen>>
      BY <1>1 DEF Feed!Claim, Feed!ReleaseForOrder, Feed!CommitForOrder, Feed!ReleaseSoldForOrder, Feed!Change
    <2> QED
      BY <1>1, <2>1, FeedAsksStand, FeedStill
  <1>2. ASSUME NEW o \in Callers, Feed!RollsBack(o) PROVE FeedInv' /\ Feed!OldMapSellsNothing
    <2>1. UNCHANGED <<seat, screen>>
      BY <1>2 DEF Feed!RollsBack
    <2> QED
      BY <1>2, <2>1, FeedUndone, FeedStill
  <1>3. CASE UNCHANGED feedVars
    <2>1. UNCHANGED <<sequence, seat, change, screen>>
      BY <1>3, SMTT(30) DEF feedVars
    <2>2. FeedInv'
      BY <2>1 DEF FeedInv, FeedShape, NumberedOnce, NumbersKept, OneHolder, ScreensBehind, Feed!Written
    <2> QED
      BY <2>1, <2>2, FeedStill
  <1> QED
    BY <1>1, <1>2, <1>3, FeedCommitted, FeedPolled, FeedReloaded DEF Feed!Next

-----------------------------------------------------------------------------
(* The night cut from a layout.  Chairs are cut where there was no         *)
(* manifest, from the rows one request carries; a floor's ticket starts    *)
(* untouched and is then held to the floor's own size.                     *)
PlanRows == [section : UNION Drawings, save : 1..MaxSaves]
PlanShape ==
    /\ layout \in [status : {"draft", "published"}, frozen : BOOLEAN]
    /\ stored \subseteq PlanRows /\ saves \in 0..MaxSaves
    /\ manifest \in [areas : SUBSET Plan!Bindings] \cup {idle}
    /\ stock \in [PlanTickets -> [quantity : Quantities, taken : Nat, ordered : BOOLEAN]]
    /\ \A t \in PlanTickets : stock[t].taken <= stock[t].quantity
OneAuthor(c, rows) == \A k, l \in rows : k.by = c /\ l.by = c /\ (k.at = l.at => k = l)
PlanHand(c, h) ==
    /\ h.stage \in {"seats", "sections", "insert"} => h.new \subseteq PlanRows
    /\ h.stage = "cut" => OneAuthor(c, h.rows)
    /\ h.stage = "start" => h.ticket \in PlanTickets
PlanHands == planDesk = [c \in Callers |-> planDesk[c]] /\ \A c \in Callers : PlanHand(c, planDesk[c])
NightCut ==
    /\ manifest = idle => chairs = {}
    /\ chairs # {} => layout.frozen
    /\ \A k, l \in chairs : k.by = l.by /\ (k.at = l.at => k = l)
FloorsCounted ==
    manifest # idle => \A n \in manifest.areas :
        /\ stock[n.ticket].taken <= n.capacity
        /\ \A k \in chairs : k.ticket # n.ticket
        /\ \A m \in manifest.areas : m.ticket = n.ticket => m = n
PlanInv == PlanShape /\ PlanHands /\ NightCut /\ FloorsCounted

LEMMA PlanAsked ==
  /\ Quantities \subseteq Nat /\ MaxSaves \in Nat /\ idle \notin [areas : SUBSET Plan!Bindings]
  /\ \A s \in UNION Drawings : s.capacity \in Nat
  BY HouseAssumption DEF Plan!PlanAssumption

LEMMA PlanSafe == PlanInv => Plan!TypeOK /\ Plan!NightCutOnce
  <1> SUFFICES ASSUME PlanInv PROVE Plan!TypeOK /\ Plan!NightCutOnce
    OBVIOUS
  <1>1. Plan!TypeOK
    <2>1. \A r \in stored : r.save \in 1..MaxSaves
      BY DEF PlanInv, PlanShape, PlanRows
    <2>2. \A t \in PlanTickets : stock[t].quantity \in Quantities /\ stock[t].taken \in 0..stock[t].quantity
      BY PlanAsked DEF PlanInv, PlanShape
    <2> QED
      BY <2>1, <2>2 DEF PlanInv, PlanShape, Plan!TypeOK
  <1>2. Plan!NightCutOnce
    BY DEF PlanInv, NightCut, FloorsCounted, Plan!NightCutOnce
  <1> QED
    BY <1>1, <1>2

LEMMA PlanStart == Plan!Init => PlanInv
  <1> SUFFICES ASSUME Plan!Init PROVE PlanInv
    OBVIOUS
  <1>1. PlanShape
    <2>1. stock \in [PlanTickets -> [quantity : Quantities, taken : Nat, ordered : BOOLEAN]]
      <3>1. stock \in [PlanTickets -> [quantity : Quantities, taken : {0}, ordered : {FALSE}]]
        BY DEF Plan!Init
      <3>2. ASSUME NEW t \in PlanTickets
            PROVE  stock[t] \in [quantity : Quantities, taken : Nat, ordered : BOOLEAN]
        <4>1. PICK k : k = stock[t]
          OBVIOUS
        <4>2. k \in [quantity : Quantities, taken : {0}, ordered : {FALSE}]
          BY <3>1, <4>1
        <4>3. 0 \in Nat /\ FALSE \in BOOLEAN
          OBVIOUS
        <4>4. {0} \subseteq Nat /\ {FALSE} \subseteq BOOLEAN
          BY <4>3, Zenon
        <4>5. k \in [quantity : Quantities, taken : Nat, ordered : BOOLEAN]
          BY <4>2, <4>4, Zenon
        <4> QED
          BY <4>1, <4>5
      <3> QED
        BY <3>1, <3>2
    <2>2. \A t \in PlanTickets : stock[t].taken = 0 /\ stock[t].quantity \in Nat
      BY PlanAsked DEF Plan!Init
    <2>3. layout \in [status : {"draft", "published"}, frozen : BOOLEAN] /\ stored = {} /\ saves = 0 /\ manifest = idle
      BY DEF Plan!Init
    <2> QED
      BY <2>1, <2>2, <2>3, PlanAsked DEF PlanShape
  <1>2. PlanHands
    BY DEF Plan!Init, Plan!Free, PlanHands, PlanHand
  <1>3. NightCut /\ FloorsCounted
    BY DEF Plan!Init, NightCut, FloorsCounted
  <1> QED
    BY <1>1, <1>2, <1>3 DEF PlanInv

LEMMA PlanHandTaken ==
  ASSUME PlanHands, NEW c \in Callers, NEW h, PlanHand(c, h), planDesk' = [planDesk EXCEPT ![c] = h]
  PROVE  PlanHands'
  <1>1. /\ planDesk' = [d \in Callers |-> planDesk'[d]] /\ planDesk'[c] = h
        /\ \A d \in Callers : d # c => planDesk'[d] = planDesk[d]
    BY DEF PlanHands
  <1>2. \A d \in Callers : PlanHand(d, planDesk'[d])
    BY <1>1 DEF PlanHands
  <1> QED
    BY <1>1, <1>2 DEF PlanHands, PlanHand

LEMMA PlanHandFreed ==
  ASSUME PlanHands, NEW c \in Callers, planDesk' = [planDesk EXCEPT ![c] = Plan!Free]
  PROVE  PlanHands'
  <1>1. PICK h : h = [stage |-> "free"]
    OBVIOUS
  <1>2. PlanHand(c, h) /\ planDesk' = [planDesk EXCEPT ![c] = h]
    BY <1>1 DEF PlanHand, Plan!Free
  <1> QED
    BY <1>2, PlanHandTaken

(* A step of the editor, or of a request that only reads.                  *)
LEMMA PlanEdited ==
  ASSUME PlanInv, PlanHands', stored' \subseteq PlanRows, saves' \in 0..MaxSaves, UNCHANGED <<chairs, manifest, stock>>,
         layout' \in [status : {"draft", "published"}, frozen : BOOLEAN], layout'.frozen = layout.frozen
  PROVE  PlanInv'
  <1>1. PlanShape'
    BY DEF PlanInv, PlanShape
  <1>2. NightCut' /\ FloorsCounted'
    BY DEF PlanInv, NightCut, FloorsCounted
  <1> QED
    BY <1>1, <1>2 DEF PlanInv

LEMMA PlanSaved ==
  ASSUME PlanInv, NEW c \in Callers, NEW drawing \in Drawings, Plan!Save(c, drawing)
  PROVE  PlanInv'
  <1>1. UNCHANGED <<layout, stored, chairs, manifest, stock>> /\ saves < MaxSaves /\ saves \in 0..MaxSaves
    BY DEF Plan!Save, PlanInv, PlanShape
  <1>2. CASE UNCHANGED <<saves, planDesk>>
    <2>1. PlanHands'
      BY <1>2 DEF PlanInv, PlanHands, PlanHand
    <2> QED
      BY <1>1, <1>2, <2>1, PlanEdited DEF PlanInv, PlanShape
  <1>3. CASE ~UNCHANGED <<saves, planDesk>>
    <2> DEFINE new == {[section |-> s, save |-> saves'] : s \in drawing}
    <2>1. saves' = saves + 1 /\ planDesk' = [planDesk EXCEPT ![c] = [stage |-> "seats", new |-> new]]
      BY <1>3 DEF Plan!Save, Plan!Hand
    <2>2. saves' \in 1..MaxSaves
      BY <1>1, <2>1, PlanAsked
    <2>3. new \subseteq PlanRows
      BY <2>2 DEF PlanRows
    <2> HIDE DEF new
    <2>4. PICK h : h = [stage |-> "seats", new |-> new]
      OBVIOUS
    <2>5. PlanHand(c, h)
      BY <2>3, <2>4 DEF PlanHand
    <2>6. PlanHands'
      BY <2>1, <2>4, <2>5, PlanHandTaken DEF PlanInv
    <2> QED
      BY <1>1, <2>2, <2>6, PlanEdited DEF PlanInv, PlanShape
  <1> QED
    BY <1>2, <1>3

LEMMA PlanRead ==
  ASSUME PlanInv, NEW c \in Callers, NEW h, PlanHand(c, h), planDesk' = [planDesk EXCEPT ![c] = h],
         UNCHANGED <<layout, stored, saves, chairs, manifest, stock>>
  PROVE  PlanInv'
  <1>1. PlanHands'
    BY PlanHandTaken DEF PlanInv
  <1> QED
    BY <1>1, PlanEdited DEF PlanInv, PlanShape

LEMMA SeatsDeleted ==
  ASSUME PlanInv, NEW c \in Callers, Plan!DeleteSeats(c)
  PROVE  PlanInv'
  <1>1. PICK h : h = [stage |-> "sections", new |-> planDesk[c].new, seats |-> Plan!SeatedOf(stored)]
    OBVIOUS
  <1>2. planDesk' = [planDesk EXCEPT ![c] = h] /\ planDesk[c].stage = "seats"
        /\ UNCHANGED <<layout, stored, saves, chairs, manifest, stock>>
    BY <1>1 DEF Plan!DeleteSeats, Plan!Hand
  <1>3. PlanHand(c, h)
    BY <1>1, <1>2 DEF PlanInv, PlanHands, PlanHand
  <1> QED
    BY <1>2, <1>3, PlanRead

LEMMA SectionsDeleted ==
  ASSUME PlanInv, NEW c \in Callers, Plan!DeleteSections(c)
  PROVE  PlanInv'
  <1>1. PICK h : h = [stage |-> "insert", new |-> planDesk[c].new, seats |-> planDesk[c].seats, doomed |-> stored,
                      first |-> \A d \in Plan!Others(c, {"insert"}) : planDesk[d].doomed \cap stored = {}]
    OBVIOUS
  <1>2. planDesk' = [planDesk EXCEPT ![c] = h] /\ planDesk[c].stage = "sections"
        /\ UNCHANGED <<layout, stored, saves, chairs, manifest, stock>>
    BY <1>1 DEF Plan!DeleteSections, Plan!Hand
  <1>3. h.stage = "insert" /\ h.new = planDesk[c].new
    BY <1>1
  <1>4. PlanHand(c, h)
    BY <1>2, <1>3 DEF PlanInv, PlanHands, PlanHand
  <1> QED
    BY <1>2, <1>4, PlanRead

LEMMA SectionsReplaced ==
  ASSUME PlanInv, NEW c \in Callers, Plan!ReplaceSections(c)
  PROVE  PlanInv'
  <1>1. planDesk[c].stage = "insert" /\ planDesk' = [planDesk EXCEPT ![c] = Plan!Free]
        /\ UNCHANGED <<layout, saves, chairs, manifest, stock>>
    BY DEF Plan!ReplaceSections, Plan!Hand
  <1>2. planDesk[c].new \subseteq PlanRows /\ stored \subseteq PlanRows
    BY <1>1 DEF PlanInv, PlanShape, PlanHands, PlanHand
  <1>3. stored' \subseteq PlanRows
    BY <1>2 DEF Plan!ReplaceSections
  <1>4. PlanHands'
    BY <1>1, PlanHandFreed DEF PlanInv
  <1> QED
    BY <1>1, <1>3, <1>4, PlanEdited DEF PlanInv, PlanShape

LEMMA LayoutPublished == ASSUME PlanInv, Plan!PublishLayout PROVE PlanInv'
  <1>1. UNCHANGED <<stored, saves, planDesk, chairs, manifest, stock>> /\ layout' = [layout EXCEPT !.status = "published"]
    BY DEF Plan!PublishLayout
  <1>2. layout' \in [status : {"draft", "published"}, frozen : BOOLEAN] /\ layout'.frozen = layout.frozen
    BY <1>1 DEF PlanInv, PlanShape
  <1>3. PlanHands'
    BY <1>1 DEF PlanInv, PlanHands, PlanHand
  <1> QED
    BY <1>1, <1>2, <1>3, PlanEdited DEF PlanInv, PlanShape

LEMMA NightRead ==
  ASSUME PlanInv, NEW c \in Callers, NEW prices \in PriceLists, Plan!ReadSections(c, prices)
  PROVE  PlanInv'
  <1>1. PICK h : h = [stage |-> "chairs", sections |-> Plan!SeatedOf(stored), prices |-> prices]
    OBVIOUS
  <1>2. planDesk' = [planDesk EXCEPT ![c] = h] /\ UNCHANGED <<layout, stored, saves, chairs, manifest, stock>>
    BY <1>1 DEF Plan!ReadSections, Plan!Hand
  <1>3. PlanHand(c, h)
    BY <1>1 DEF PlanHand
  <1> QED
    BY <1>2, <1>3, PlanRead

LEMMA ChairsRead ==
  ASSUME PlanInv, NEW c \in Callers, Plan!ReadChairs(c)
  PROVE  PlanInv'
  <1> DEFINE k == planDesk[c]
             rows == {[at |-> r, ticket |-> k.prices[r.section.band], by |-> c] : r \in Plan!Priced(k)}
  <1>1. UNCHANGED <<layout, stored, saves, chairs, manifest, stock>>
    BY DEF Plan!ReadChairs
  <1>2. \/ planDesk' = [planDesk EXCEPT ![c] = [stage |-> "cut", rows |-> rows]]
        \/ planDesk' = [planDesk EXCEPT ![c] = [stage |-> "free"]]
    BY DEF Plan!ReadChairs, Plan!Hand, Plan!Free
  <1>3. OneAuthor(c, rows)
    <2> SUFFICES ASSUME NEW x \in rows, NEW y \in rows
                 PROVE  x.by = c /\ y.by = c /\ (x.at = y.at => x = y)
      BY DEF OneAuthor
    <2>1. PICK r \in Plan!Priced(k) : x = [at |-> r, ticket |-> k.prices[r.section.band], by |-> c]
      OBVIOUS
    <2>2. PICK s \in Plan!Priced(k) : y = [at |-> s, ticket |-> k.prices[s.section.band], by |-> c]
      OBVIOUS
    <2>3. x.at = r /\ y.at = s /\ x.by = c /\ y.by = c
      BY <2>1, <2>2
    <2> QED
      BY <2>1, <2>2, <2>3
  <1> HIDE DEF rows
  <1>4. CASE planDesk' = [planDesk EXCEPT ![c] = [stage |-> "cut", rows |-> rows]]
    <2>1. PICK h : h = [stage |-> "cut", rows |-> rows]
      OBVIOUS
    <2>2. PlanHand(c, h)
      BY <1>3, <2>1 DEF PlanHand
    <2> QED
      BY <1>1, <1>4, <2>1, <2>2, PlanRead
  <1>5. CASE planDesk' = [planDesk EXCEPT ![c] = [stage |-> "free"]]
    <2>1. PICK h : h = [stage |-> "free"]
      OBVIOUS
    <2>2. PlanHand(c, h)
      BY <2>1 DEF PlanHand
    <2> QED
      BY <1>1, <1>5, <2>1, <2>2, PlanRead
  <1> QED
    BY <1>2, <1>4, <1>5

LEMMA NightMaterialised ==
  ASSUME PlanInv, NEW c \in Callers, Plan!Materialise(c)
  PROVE  PlanInv'
  <1>1. /\ planDesk[c].stage = "cut" /\ planDesk' = [planDesk EXCEPT ![c] = Plan!Free]
        /\ UNCHANGED <<stored, saves, stock>>
    BY DEF Plan!Materialise, Plan!Hand
  <1>2. PlanHands'
    BY <1>1, PlanHandFreed DEF PlanInv
  <1>3. CASE manifest # idle
    <2>1. UNCHANGED <<manifest, chairs, layout>>
      BY <1>3 DEF Plan!Materialise, Plan!ManifestFree
    <2> QED
      BY <1>1, <1>2, <2>1, PlanEdited DEF PlanInv, PlanShape
  <1>4. CASE manifest = idle
    <2>1. /\ manifest' = [areas |-> {}] /\ chairs' = chairs \cup planDesk[c].rows
          /\ layout' = [status |-> "published", frozen |-> TRUE]
      BY <1>4 DEF Plan!Materialise, Plan!ManifestFree
    <2>2. chairs' = planDesk[c].rows
      BY <1>4, <2>1 DEF PlanInv, NightCut
    <2>3. OneAuthor(c, chairs')
      BY <1>1, <2>2 DEF PlanInv, PlanHands, PlanHand
    <2>4. manifest' \in [areas : SUBSET Plan!Bindings] /\ manifest' # idle /\ manifest'.areas = {}
      BY <2>1, PlanAsked
    <2>5. PlanShape'
      <3>1. layout' \in [status : {"draft", "published"}, frozen : BOOLEAN]
        BY <2>1
      <3> QED
        BY <1>1, <2>4, <3>1 DEF PlanInv, PlanShape
    <2>6. NightCut'
      BY <2>1, <2>3, <2>4 DEF NightCut, OneAuthor
    <2>7. FloorsCounted'
      BY <2>4 DEF FloorsCounted
    <2> QED
      BY <1>2, <2>5, <2>6, <2>7 DEF PlanInv
  <1> QED
    BY <1>3, <1>4

LEMMA AreasBound ==
  ASSUME PlanInv, NEW areas \in SUBSET {r \in stored : ~r.section.seated}, NEW price \in [areas -> PlanTickets],
         Plan!BindAreas(areas, price)
  PROVE  PlanInv'
  <1> DEFINE next == {[area |-> a, ticket |-> price[a], capacity |-> a.section.capacity] : a \in areas}
  <1>1. /\ manifest # idle /\ \A a, b \in areas : a # b => price[a] # price[b]
        /\ \A n \in next : Plan!MayPrice(n.area, n.ticket) /\ (n \in manifest.areas \/ Plan!Untouched(n.ticket))
        /\ manifest' = [areas |-> next]
        /\ UNCHANGED <<layout, stored, saves, planDesk, chairs, stock>>
    BY DEF Plan!BindAreas
  <1>2. \A a \in areas : a \in PlanRows /\ a.section.capacity \in Nat
    BY PlanAsked DEF PlanInv, PlanShape, PlanRows
  <1>3. next \subseteq Plan!Bindings
    <2> SUFFICES ASSUME NEW a \in areas
                 PROVE  [area |-> a, ticket |-> price[a], capacity |-> a.section.capacity] \in Plan!Bindings
      OBVIOUS
    <2>1. price[a] \in PlanTickets /\ a \in PlanRows /\ a.section.capacity \in Nat
      BY <1>2
    <2> QED
      BY <2>1 DEF Plan!Bindings, PlanRows
  <1>4. manifest' \in [areas : SUBSET Plan!Bindings] /\ manifest' # idle /\ manifest'.areas = next
    <2> HIDE DEF next
    <2> QED
      BY <1>1, <1>3, PlanAsked
  <1>5. ASSUME NEW n \in next
        PROVE  stock[n.ticket].taken <= n.capacity /\ \A k \in chairs : k.ticket # n.ticket
    <2>1. Plan!MayPrice(n.area, n.ticket) /\ (n \in manifest.areas \/ Plan!Untouched(n.ticket))
      BY <1>1
    <2>2. n.capacity \in Nat
      <3>1. n \in Plan!Bindings
        BY <1>3
      <3> HIDE DEF next
      <3> QED
        BY <3>1 DEF Plan!Bindings
    <2>3. CASE n \in manifest.areas
      BY <1>1, <2>1, <2>3 DEF PlanInv, FloorsCounted, Plan!MayPrice
    <2>4. CASE Plan!Untouched(n.ticket)
      BY <2>1, <2>2, <2>4 DEF Plan!Untouched, Plan!MayPrice
    <2> QED
      BY <2>1, <2>3, <2>4
  <1>6. ASSUME NEW n \in next, NEW m \in next, m.ticket = n.ticket
        PROVE  m = n
    <2>1. PICK a \in areas : n = [area |-> a, ticket |-> price[a], capacity |-> a.section.capacity]
      OBVIOUS
    <2>2. PICK b \in areas : m = [area |-> b, ticket |-> price[b], capacity |-> b.section.capacity]
      OBVIOUS
    <2>3. price[a] = price[b]
      BY <1>6, <2>1, <2>2
    <2> QED
      BY <1>1, <2>1, <2>2, <2>3
  <1> HIDE DEF next
  <1>7. PlanShape'
    BY <1>1, <1>4 DEF PlanInv, PlanShape
  <1>8. PlanHands'
    BY <1>1 DEF PlanInv, PlanHands, PlanHand
  <1>9. NightCut'
    BY <1>1, <1>4 DEF PlanInv, NightCut
  <1>10. FloorsCounted'
    BY <1>1, <1>4, <1>5, <1>6 DEF FloorsCounted
  <1> QED
    BY <1>7, <1>8, <1>9, <1>10 DEF PlanInv

LEMMA BuyingStarts ==
  ASSUME PlanInv, NEW c \in Callers, NEW t \in PlanTickets, Plan!StartReads(c, t)
  PROVE  PlanInv'
  <1>1. PICK h : h = [stage |-> "start", ticket |-> t, shares |-> manifest # idle]
    OBVIOUS
  <1>2. planDesk' = [planDesk EXCEPT ![c] = h] /\ UNCHANGED <<layout, stored, saves, chairs, manifest, stock>>
    BY <1>1 DEF Plan!StartReads, Plan!Hand
  <1>3. h.stage = "start" /\ h.ticket = t
    BY <1>1
  <1>4. PlanHand(c, h)
    BY <1>3 DEF PlanHand
  <1> QED
    BY <1>2, <1>4, PlanRead

(* A ticket's stock changes to what its floor, if it prices one, can hold. *)
LEMMA TicketCounted ==
  ASSUME PlanInv, NEW t \in PlanTickets, NEW r \in [quantity : Quantities, taken : Nat, ordered : BOOLEAN],
         stock' = [stock EXCEPT ![t] = r], r.taken <= r.quantity, PlanHands',
         manifest # idle => \A n \in manifest.areas : n.ticket = t => r.taken <= n.capacity,
         UNCHANGED <<layout, stored, saves, chairs, manifest>>
  PROVE  PlanInv'
  <1>1. /\ stock'[t] = r /\ \A s \in PlanTickets : s # t => stock'[s] = stock[s]
        /\ stock' \in [PlanTickets -> [quantity : Quantities, taken : Nat, ordered : BOOLEAN]]
    BY DEF PlanInv, PlanShape
  <1>2. PlanShape'
    BY <1>1 DEF PlanInv, PlanShape
  <1>3. NightCut'
    BY DEF PlanInv, NightCut
  <1>4. FloorsCounted'
    <2>1. ASSUME manifest # idle, NEW n \in manifest.areas
          PROVE  stock'[n.ticket].taken <= n.capacity
      <3>1. n.ticket \in PlanTickets
        BY <2>1 DEF PlanInv, PlanShape, Plan!Bindings
      <3>2. CASE n.ticket = t
        BY <1>1, <2>1, <3>2
      <3>3. CASE n.ticket # t
        BY <1>1, <2>1, <3>1, <3>3 DEF PlanInv, FloorsCounted
      <3> QED
        BY <3>2, <3>3
    <2> QED
      BY <2>1 DEF PlanInv, FloorsCounted
  <1> QED
    BY <1>2, <1>3, <1>4 DEF PlanInv

(* A floor has one ticket, so the size looked up for it is its own.        *)
LEMMA CapIsFloors ==
  ASSUME PlanInv, manifest # idle, NEW n \in manifest.areas
  PROVE  Plan!Cap(n.ticket) = n.capacity
  <1> DEFINE priced == {m \in manifest.areas : m.ticket = n.ticket}
  <1>1. priced = {n}
    BY DEF PlanInv, FloorsCounted
  <1>2. n.capacity \in Nat
    BY DEF PlanInv, PlanShape, Plan!Bindings
  <1>3. {m.capacity : m \in priced} = {n.capacity}
    BY <1>1
  <1>4. Plan!Cap(n.ticket) = CHOOSE q \in {m.capacity : m \in priced} : \A m \in priced : q <= m.capacity
    BY <1>1 DEF Plan!Cap
  <1>5. (CHOOSE q \in {n.capacity} : \A m \in {n} : q <= m.capacity) = n.capacity
    BY <1>2
  <1> HIDE DEF priced
  <1> QED
    BY <1>1, <1>3, <1>4, <1>5

LEMMA PlaceReserved ==
  ASSUME PlanInv, NEW c \in Callers, Plan!Reserve(c)
  PROVE  PlanInv'
  <1> DEFINE t == planDesk[c].ticket
  <1>1. /\ planDesk[c].stage = "start" /\ planDesk' = [planDesk EXCEPT ![c] = Plan!Free]
        /\ UNCHANGED <<layout, stored, saves, chairs, manifest>>
    BY DEF Plan!Reserve, Plan!Hand
  <1>2. PlanHands'
    BY <1>1, PlanHandFreed DEF PlanInv
  <1>3. t \in PlanTickets
    BY <1>1 DEF PlanInv, PlanHands, PlanHand
  <1>4. stock[t] \in [quantity : Quantities, taken : Nat, ordered : BOOLEAN]
    BY <1>3 DEF PlanInv, PlanShape
  <1>5. CASE stock[t].taken < stock[t].quantity /\ stock[t].taken + 1 <= Plan!Cap(t)
    <2>1. stock' = [stock EXCEPT ![t].taken = stock[t].taken + 1, ![t].ordered = TRUE]
      BY <1>3, <1>5 DEF Plan!Reserve, PlanInv, PlanShape
    <2>2. PICK r : r = [stock[t] EXCEPT !.taken = stock[t].taken + 1, !.ordered = TRUE]
      OBVIOUS
    <2>3. r \in [quantity : Quantities, taken : Nat, ordered : BOOLEAN] /\ r.taken = stock[t].taken + 1
          /\ r.quantity = stock[t].quantity
      <3>1. PICK k : k = stock[t]
        OBVIOUS
      <3>2. k \in [quantity : Quantities, taken : Nat, ordered : BOOLEAN] /\ r = [k EXCEPT !.taken = k.taken + 1, !.ordered = TRUE]
        BY <1>4, <2>2, <3>1
      <3>3. r.taken = k.taken + 1 /\ r.quantity = k.quantity
        BY <3>2
      <3>4. r \in [quantity : Quantities, taken : Nat, ordered : BOOLEAN]
        <4>1. k.quantity \in Quantities /\ k.taken + 1 \in Nat /\ TRUE \in BOOLEAN
          BY <3>2
        <4>2. r = [quantity |-> k.quantity, taken |-> k.taken + 1, ordered |-> TRUE]
          BY <3>2
        <4> QED
          BY <4>1, <4>2, Zenon
      <3> QED
        BY <3>1, <3>3, <3>4
    <2>4. stock' = [stock EXCEPT ![t] = r]
      BY <1>3, <2>1, <2>2 DEF PlanInv, PlanShape
    <2>5. r.taken <= r.quantity
      <3>1. stock[t].taken \in Nat /\ stock[t].quantity \in Nat
        BY <1>4, PlanAsked
      <3> QED
        BY <1>5, <2>3, <3>1
    <2>6. manifest # idle => \A n \in manifest.areas : n.ticket = t => r.taken <= n.capacity
      BY <1>5, <2>3, CapIsFloors
    <2> HIDE DEF t
    <2> QED
      BY <1>1, <1>2, <1>3, <2>3, <2>4, <2>5, <2>6, TicketCounted
  <1>6. CASE ~(stock[t].taken < stock[t].quantity /\ stock[t].taken + 1 <= Plan!Cap(t))
    <2>1. UNCHANGED stock
      BY <1>6 DEF Plan!Reserve
    <2> QED
      BY <1>1, <1>2, <2>1, PlanEdited, SMTT(30) DEF PlanInv, PlanShape
  <1> QED
    BY <1>5, <1>6

LEMMA PlaceReleased ==
  ASSUME PlanInv, NEW t \in PlanTickets, Plan!Release(t)
  PROVE  PlanInv'
  <1>1. /\ stock[t].taken > 0 /\ stock' = [stock EXCEPT ![t].taken = stock[t].taken - 1]
        /\ UNCHANGED <<layout, stored, saves, planDesk, chairs, manifest>>
    BY DEF Plan!Release, PlanInv, PlanShape
  <1>2. stock[t] \in [quantity : Quantities, taken : Nat, ordered : BOOLEAN] /\ stock[t].taken <= stock[t].quantity
        /\ stock[t].quantity \in Nat
    BY PlanAsked DEF PlanInv, PlanShape
  <1>3. PICK r : r = [stock[t] EXCEPT !.taken = stock[t].taken - 1]
    OBVIOUS
  <1>4. r \in [quantity : Quantities, taken : Nat, ordered : BOOLEAN] /\ r.taken = stock[t].taken - 1
        /\ r.quantity = stock[t].quantity
    BY <1>1, <1>2, <1>3
  <1>5. stock' = [stock EXCEPT ![t] = r]
    BY <1>1, <1>3
  <1>6. r.taken <= r.quantity
    BY <1>2, <1>4
  <1>7. manifest # idle => \A n \in manifest.areas : n.ticket = t => r.taken <= n.capacity
    <2> SUFFICES ASSUME manifest # idle, NEW n \in manifest.areas, n.ticket = t PROVE r.taken <= n.capacity
      OBVIOUS
    <2>1. stock[t].taken <= n.capacity /\ n.capacity \in Nat
      BY DEF PlanInv, PlanShape, FloorsCounted, Plan!Bindings
    <2> QED
      BY <1>2, <1>4, <2>1
  <1>8. PlanHands'
    BY <1>1 DEF PlanInv, PlanHands, PlanHand
  <1> QED
    BY <1>1, <1>4, <1>5, <1>6, <1>7, <1>8, TicketCounted

LEMMA StockEdited ==
  ASSUME PlanInv, NEW t \in PlanTickets, NEW quantity \in Quantities, Plan!EditTier(t, quantity)
  PROVE  PlanInv'
  <1>1. /\ quantity >= stock[t].taken /\ stock' = [stock EXCEPT ![t].quantity = quantity]
        /\ UNCHANGED <<layout, stored, saves, planDesk, chairs, manifest>>
    BY DEF Plan!EditTier
  <1>2. stock[t] \in [quantity : Quantities, taken : Nat, ordered : BOOLEAN] /\ quantity \in Nat
    BY PlanAsked DEF PlanInv, PlanShape
  <1>3. PICK r : r = [stock[t] EXCEPT !.quantity = quantity]
    OBVIOUS
  <1>4. r \in [quantity : Quantities, taken : Nat, ordered : BOOLEAN] /\ r.taken = stock[t].taken /\ r.quantity = quantity
    BY <1>2, <1>3
  <1>5. stock' = [stock EXCEPT ![t] = r]
    BY <1>1, <1>3
  <1>6. r.taken <= r.quantity
    BY <1>1, <1>2, <1>4
  <1>7. manifest # idle => \A n \in manifest.areas : n.ticket = t => r.taken <= n.capacity
    BY <1>4 DEF PlanInv, FloorsCounted
  <1>8. PlanHands'
    BY <1>1 DEF PlanInv, PlanHands, PlanHand
  <1> QED
    BY <1>1, <1>4, <1>5, <1>6, <1>7, <1>8, TicketCounted

LEMMA PlanKept ==
  ASSUME PlanInv, [Plan!Next]_planVars
  PROVE  PlanInv'
  <1>1. CASE UNCHANGED planVars
    <2>1. UNCHANGED <<layout, stored, saves, planDesk, chairs, manifest, stock>>
      BY <1>1 DEF planVars
    <2> QED
      BY <2>1 DEF PlanInv, PlanShape, PlanHands, PlanHand, NightCut, FloorsCounted
  <1>2. ASSUME NEW c \in Callers,
               \/ \E drawing \in Drawings : Plan!Save(c, drawing)
               \/ Plan!DeleteSeats(c) \/ Plan!DeleteSections(c) \/ Plan!ReplaceSections(c)
               \/ \E prices \in PriceLists : Plan!ReadSections(c, prices)
               \/ Plan!ReadChairs(c) \/ Plan!Materialise(c) \/ Plan!Reserve(c)
               \/ \E t \in PlanTickets : Plan!StartReads(c, t)
        PROVE  PlanInv'
    BY <1>2, PlanSaved, SeatsDeleted, SectionsDeleted, SectionsReplaced, NightRead, ChairsRead, NightMaterialised,
       PlaceReserved, BuyingStarts
  <1> QED
    BY <1>1, <1>2, LayoutPublished, AreasBound, PlaceReleased, StockEdited DEF Plan!Next

-----------------------------------------------------------------------------
(* A buyer's order page.  An order that was made stays made and its        *)
(* owner's; a request knows at each stage what it has seen of it, and      *)
(* what it is answered with follows from the stage it ends in.             *)
Visits ==
    {"none", "audience", "profile", "load", "keep", "turn", "list", "count", "events", "refunds", "done"}
Before == Visits \ {"events", "refunds", "done"}
IsRow(line) ==
    line = [status |-> line.status, owner |-> line.owner, name |-> line.name, city |-> line.city,
           confirmed |-> line.confirmed, since |-> line.since, cart |-> line.cart, hold |-> line.hold,
           charges |-> line.charges, payment |-> line.payment, refunds |-> line.refunds, asked |-> line.asked]
IsVisit(r) ==
    r = [at |-> r.at, ask |-> r.ask, name |-> r.name, city |-> r.city, rows |-> r.rows, total |-> r.total,
         badges |-> r.badges, err |-> r.err, status |-> r.status, code |-> r.code, made |-> r.made,
         unanswered |-> r.unanswered, lost |-> r.lost, always |-> r.always, held |-> r.held]
Absent == Counter!NoOrder

Named(r) == r.name # ""
RowSound(line) ==
    /\ IsRow(line) /\ line.status # "none" /\ line.refunds \in 0..1
    /\ line.since \in Nat /\ line.cart \in Nat /\ line.hold \in Nat /\ line.since <= now
    /\ line.charges = IF line.confirmed THEN 1 ELSE 0
    /\ line.hold = IF line.confirmed THEN Counter!Later(line.cart, line.since + HoldFor) ELSE line.cart
    /\ line.confirmed => Named(line) /\ line.since < line.cart
PurchasesSound ==
    /\ now \in Nat /\ purchase = [o \in PageOrders |-> purchase[o]]
    /\ \A o \in PageOrders : purchase[o] # Absent => RowSound(purchase[o])
CopiesSound ==
    /\ kept = [o \in PageOrders |-> kept[o]]
    /\ \A o \in PageOrders : kept[o] # Absent => purchase[o] # Absent /\ kept[o].owner = purchase[o].owner

(* What the page may show, and what a refusal may say.                     *)
Page(r) ==
    /\ r.ask.who # Root => \A o \in DOMAIN r.rows : r.rows[o].owner = r.ask.who
    /\ r.ask.kind = "list" /\ r.ask.want = {} => r.total >= Cardinality(DOMAIN r.rows)
Nameless(r) == r.ask.sent = "" /\ (r.ask.who \notin DOMAIN Legal \/ "profile" \in r.lost)
Explained(r) ==
    r.ask.kind # "create" =>
        /\ r.err = "ErrForbidden" =>
              /\ r.ask.who # Root
              /\ r.ask.kind = "refund" \/ (r.ask.id \in PageOrders /\ purchase[r.ask.id] # Absent /\ purchase[r.ask.id].owner # r.ask.who)
        /\ r.err \in {"ErrHoldExpired", "ErrInvalidTransition"} => r.held = FALSE
        /\ r.err = "ErrInvalidBuyerName" => Nameless(r)
DoneWell(r) ==
    /\ r.made # FALSE => r.status < 300 \/ r.unanswered = TRUE
    /\ r.lost \subseteq Counter!Dressing => r.err # "fault"
    /\ r.status \in {200, 201} /\ r.ask.kind \in {"list", "get", "confirm", "create"} =>
          Page(r) /\ (r.lost = {} => r.always \cap DOMAIN r.rows \subseteq r.badges)
    /\ Explained(r)
VisitSound(r) ==
    /\ IsVisit(r) /\ r.at \in Visits /\ (r.at # "none" => r.ask \in Asks) /\ r.always \subseteq Counter!OpenRequests
    /\ r.at # "done" => r.err = ""
    /\ r.at \in Before => r.made = FALSE
    /\ r.at = "audience" => r.ask.kind = "create"
    /\ r.at = "profile" => r.ask.kind = "confirm" /\ r.ask.sent = "" /\ r.name = ""
    /\ r.at \in {"load", "keep"} => r.ask.kind \notin {"create", "confirm", "list"}
    /\ r.at = "keep" => purchase[r.ask.id] # Absent /\ r.rows[r.ask.id].owner = purchase[r.ask.id].owner
    /\ r.at = "turn" =>
          /\ r.ask.kind \notin {"list", "get"}
          /\ r.ask.kind \notin {"create", "confirm"} => purchase[r.ask.id] # Absent
          /\ r.ask.kind = "confirm" /\ r.name = "" => Nameless(r)
    /\ r.at \in {"list", "count"} => r.ask.kind = "list"
    /\ r.at = "count" =>
          /\ r.ask.who # Root => \A o \in DOMAIN r.rows : r.rows[o].owner = r.ask.who
          /\ r.ask.want = {} => DOMAIN r.rows \subseteq Counter!Matching(r.ask)
    /\ r.at \in {"events", "refunds"} => r.ask.kind \in {"list", "get", "confirm", "create"} /\ Page(r)
    /\ r.at = "done" => DoneWell(r)
CounterInv ==
    /\ PurchasesSound /\ CopiesSound
    /\ visit = [q \in Callers |-> visit[q]] /\ \A q \in Callers : VisitSound(visit[q])

LEMMA PageAsked ==
  /\ IsFiniteSet(PageOrders) /\ First \in PageOrders /\ CartHoldFor \in Nat \ {0} /\ HoldFor \in Nat \ {0}
  /\ Owner \in DOMAIN Legal /\ \A buyer \in DOMAIN Legal : Legal[buyer] # ""
  /\ BasketRefusals \cap {"", "fault"} = {} /\ \A ask \in Asks : ask.kind # "list" => ask.id \in PageOrders
  BY HouseAssumption, CountedAlike DEF Counter!PageAssumption

LEMMA CounterSafe == CounterInv => Counter!TypeOK /\ Counter!OrderPageSound
  <1> SUFFICES ASSUME CounterInv PROVE Counter!TypeOK /\ Counter!OrderPageSound
    OBVIOUS
  <1>1. \A o \in Counter!Made : RowSound(purchase[o])
    BY DEF CounterInv, PurchasesSound, Counter!Made, Absent
  <1>2. Counter!TypeOK
    <2>1. \A o \in Counter!Made : purchase[o].refunds \in 0..1 /\ purchase[o].since <= now
      BY <1>1 DEF RowSound
    <2>2. \A q \in Callers : visit[q].at \in Visits
      BY DEF CounterInv, VisitSound
    <2> QED
      BY <2>1, <2>2 DEF Counter!TypeOK, Visits
  <1>3. Counter!ConfirmOnce
    BY <1>1 DEF RowSound, Named, Counter!ConfirmOnce
  <1>4. \A q \in Callers : visit[q].at = "done" => DoneWell(visit[q])
    BY DEF CounterInv, VisitSound
  <1>5. Counter!MadeIsTold
    BY <1>4 DEF DoneWell, Counter!MadeIsTold, Counter!Done
  <1>6. Counter!PageStands
    BY <1>4, CountedAlike, ZenonT(60) DEF DoneWell, Page, Counter!PageStands, Counter!Done
  <1>7. Counter!RefusalsExplained
    BY <1>4 DEF DoneWell, Explained, Nameless, Counter!RefusalsExplained, Counter!Done
  <1> QED
    BY <1>2, <1>3, <1>5, <1>6, <1>7 DEF Counter!OrderPageSound

-----------------------------------------------------------------------------
(* What a step writes of a request.                                        *)
Same(n, r) ==
    /\ n.ask = r.ask /\ n.name = r.name /\ n.city = r.city /\ n.rows = r.rows /\ n.total = r.total
    /\ n.badges = r.badges /\ n.made = r.made /\ n.always = r.always

LEMMA RefusedFields ==
  ASSUME NEW r, IsVisit(r), NEW e, NEW n, n = Counter!Refused(r, e)
  PROVE  /\ IsVisit(n) /\ Same(n, r) /\ n.at = "done" /\ n.err = e /\ n.status = Counter!StatusFor(e)
         /\ n.unanswered = r.unanswered /\ n.lost = r.lost /\ n.held = r.held
  BY DEF IsVisit, Same, Counter!Refused

LEMMA AnsweredFields ==
  ASSUME NEW r, IsVisit(r), NEW s, NEW n, n = Counter!Answered(r, s)
  PROVE  /\ IsVisit(n) /\ Same(n, r) /\ n.at = "done" /\ n.err = r.err /\ n.status = s
         /\ n.unanswered = r.unanswered /\ n.lost = r.lost /\ n.held = r.held
  BY DEF IsVisit, Same, Counter!Answered

LEMMA LostFields ==
  ASSUME NEW r, IsVisit(r), NEW w, NEW n, n = [r EXCEPT !.lost = @ \cup {w}]
  PROVE  /\ IsVisit(n) /\ Same(n, r) /\ n.at = r.at /\ n.err = r.err /\ n.status = r.status
         /\ n.unanswered = r.unanswered /\ n.lost = r.lost \cup {w} /\ n.held = r.held
  BY DEF IsVisit, Same

Quiet(r) == r.err = ""
LEMMA StatusRefuses ==
  ASSUME NEW r, ~Quiet(r), r.status = Counter!StatusFor(r.err)
  PROVE  r.status \in {403, 404, 409, 422, 500} /\ r.status \notin {200, 201}
  <1>1. r.status \in {403, 404, 409, 422, 500}
    BY ZenonT(60) DEF Counter!StatusFor, Quiet
  <1> QED
    BY <1>1

(* An order's page changes only by what it is asked; orders only grow.     *)
PurchasesGrow ==
    \A o \in PageOrders : purchase[o] # Absent => purchase'[o] # Absent /\ purchase'[o].owner = purchase[o].owner

LEMMA VisitTouched ==
  ASSUME NEW r, NEW n, VisitSound(r), PurchasesGrow, IsVisit(n), Same([n EXCEPT !.always = r.always], r),
         n.at = r.at, n.err = r.err, n.status = r.status, n.unanswered = r.unanswered, n.lost = r.lost, n.held = r.held,
         n.always \subseteq r.always, n.always \subseteq Counter!OpenRequests'
  PROVE  VisitSound(n)'
  <1>1. /\ n.ask = r.ask /\ n.name = r.name /\ n.rows = r.rows /\ n.total = r.total
        /\ n.badges = r.badges /\ n.made = r.made
    BY DEF Same, IsVisit
  <1>2. r.at # "none" /\ r.ask.kind # "list" => r.ask.id \in PageOrders
    BY PageAsked DEF VisitSound
  <1>3. n.at = "keep" => purchase'[n.ask.id] # Absent /\ n.rows[n.ask.id].owner = purchase'[n.ask.id].owner
    BY <1>1, <1>2 DEF VisitSound, PurchasesGrow
  <1>4. n.at = "turn" =>
          /\ n.ask.kind \notin {"list", "get"}
          /\ n.ask.kind \notin {"create", "confirm"} => purchase'[n.ask.id] # Absent
          /\ n.ask.kind = "confirm" /\ n.name = "" => Nameless(n)
    BY <1>1, <1>2 DEF VisitSound, PurchasesGrow, Nameless
  <1>5. Page(r) => Page(n)
    BY <1>1 DEF Page
  <1>6. ASSUME r.at = "count", r.ask.want = {} PROVE DOMAIN n.rows \subseteq Counter!Matching(n.ask)'
    <2>1. DOMAIN r.rows \subseteq Counter!Matching(r.ask)
      BY <1>6 DEF VisitSound
    <2> QED
      BY <1>1, <1>6, <2>1 DEF Counter!Matching, Counter!Made, PurchasesGrow, Absent
  <1>7. r.at = "done" => DoneWell(n)'
    <2> SUFFICES ASSUME r.at = "done" PROVE DoneWell(n)'
      OBVIOUS
    <2>1. DoneWell(r)
      BY DEF VisitSound
    <2>2. Explained(n)'
      BY <1>1, <1>2, <2>1, ZenonT(60) DEF DoneWell, Explained, Nameless, PurchasesGrow
    <2>3. n.status \in {200, 201} /\ n.ask.kind \in {"list", "get", "confirm", "create"} =>
             Page(n) /\ (n.lost = {} => n.always \cap DOMAIN n.rows \subseteq n.badges)
      BY <1>1, <1>5, <2>1 DEF DoneWell
    <2> QED
      BY <1>1, <2>1, <2>2, <2>3 DEF DoneWell, Page
  <1>8. n.at = "count" => (n.ask.who # Root => \A o \in DOMAIN n.rows : n.rows[o].owner = n.ask.who)
    BY <1>1 DEF VisitSound
  <1>9. n.at \in {"events", "refunds"} => n.ask.kind \in {"list", "get", "confirm", "create"} /\ Page(n)
    BY <1>1, <1>5 DEF VisitSound
  <1> QED
    BY <1>1, <1>3, <1>4, <1>6, <1>7, <1>8, <1>9, ZenonT(60) DEF VisitSound, Page, Nameless

LEMMA PageHandled ==
  ASSUME CounterInv, NEW q \in Callers, NEW n, VisitSound(n)', visit' = [visit EXCEPT ![q] = n],
         PurchasesSound', CopiesSound', PurchasesGrow, Counter!OpenRequests \subseteq Counter!OpenRequests'
  PROVE  CounterInv'
  <1>1. /\ visit' = [p \in Callers |-> visit'[p]] /\ visit'[q] = n
        /\ \A p \in Callers : p # q => visit'[p] = visit[p]
    BY DEF CounterInv
  <1>2. ASSUME NEW p \in Callers, p # q PROVE VisitSound(visit[p])'
    <2>1. PICK r : r = visit[p]
      OBVIOUS
    <2>2. visit'[p] = r
      BY <1>1, <1>2, <2>1
    <2>3. VisitSound(r) /\ IsVisit(r)
      BY <2>1 DEF CounterInv, VisitSound
    <2>4. Same([r EXCEPT !.always = r.always], r)
      BY <2>3 DEF IsVisit, Same
    <2>5. r.always \subseteq Counter!OpenRequests'
      BY <2>3 DEF VisitSound
    <2>6. VisitSound(r)'
      BY <2>3, <2>4, <2>5, VisitTouched
    <2> QED
      BY <2>2, <2>6
  <1>3. \A p \in Callers : VisitSound(visit[p])'
    BY <1>1, <1>2
  <1> QED
    BY <1>1, <1>3 DEF CounterInv

(* Where no order is written, what is so of the request is enough.         *)
LEMMA PageRead ==
  ASSUME CounterInv, NEW q \in Callers, NEW n, VisitSound(n), visit' = [visit EXCEPT ![q] = n],
         UNCHANGED <<purchase, now>>, CopiesSound'
  PROVE  CounterInv'
  <1>1. PurchasesSound' /\ PurchasesGrow /\ Counter!OpenRequests' = Counter!OpenRequests
    BY DEF CounterInv, PurchasesSound, RowSound, PurchasesGrow, Counter!OpenRequests, Counter!Made
  <1>2. VisitSound(n)'
    BY <1>1 DEF VisitSound, DoneWell, Explained, Page, Nameless, Counter!Matching, Counter!Made
  <1> QED
    BY <1>1, <1>2, PageHandled

LEMMA CopiesStand == ASSUME CounterInv, UNCHANGED <<purchase, kept>> PROVE CopiesSound'
  BY DEF CounterInv, CopiesSound

-----------------------------------------------------------------------------
LEMMA RefusedSound ==
  ASSUME NEW n, IsVisit(n), n.ask \in Asks, n.always \subseteq Counter!OpenRequests, n.at = "done", n.err # "",
         n.status = Counter!StatusFor(n.err), n.made = FALSE, n.err = "fault" => ~(n.lost \subseteq Counter!Dressing),
         Explained(n)
  PROVE  VisitSound(n)
  <1>1. n.status \notin {200, 201}
    BY StatusRefuses, ZenonT(60) DEF Quiet
  <1>2. DoneWell(n)
    BY <1>1 DEF DoneWell
  <1> QED
    BY <1>2 DEF VisitSound, Visits, Before

(* A statement that fails ends the request with the server's fault.        *)
LEMMA ReadLost ==
  ASSUME CounterInv, NEW q \in Callers, visit[q].at \in Before \ {"none"},
         Counter!Loses(q, "read", Counter!Refused(visit[q], "fault")), UNCHANGED <<purchase, kept, now>>
  PROVE  CounterInv'
  <1>1. PICK r : r = visit[q]
    OBVIOUS
  <1>2. VisitSound(r) /\ IsVisit(r) /\ r.at \in Before /\ r.at # "none" /\ r.at # "done" /\ r.made = FALSE /\ r.ask \in Asks
    BY <1>1 DEF CounterInv, VisitSound, Before
  <1>3. PICK f : f = Counter!Refused(r, "fault")
    OBVIOUS
  <1>4. PICK n : n = [f EXCEPT !.lost = @ \cup {"read"}]
    OBVIOUS
  <1>5. visit' = [visit EXCEPT ![q] = n]
    BY <1>1, <1>3, <1>4 DEF Counter!Loses, Counter!Becomes
  <1>6. IsVisit(f) /\ Same(f, r) /\ f.at = "done" /\ f.err = "fault" /\ f.status = Counter!StatusFor("fault")
    BY <1>2, <1>3, RefusedFields
  <1>7. IsVisit(n) /\ Same(n, f) /\ n.at = "done" /\ n.err = "fault" /\ n.status = Counter!StatusFor("fault")
        /\ "read" \in n.lost
    BY <1>4, <1>6, LostFields
  <1>8. ~(n.lost \subseteq Counter!Dressing) /\ Explained(n)
    BY <1>7 DEF Counter!Dressing, Explained
  <1>9. VisitSound(n)
    BY <1>2, <1>6, <1>7, <1>8, RefusedSound DEF Same, VisitSound
  <1> QED
    BY <1>5, <1>9, PageRead, CopiesStand

LEMMA PageArrives ==
  ASSUME CounterInv, NEW q \in Callers, NEW ask \in Asks, Counter!Arrives(q, ask)
  PROVE  CounterInv'
  <1>1. PICK a : a = [Counter!Gone EXCEPT !.at = Counter!Begin(ask), !.ask = ask, !.name = ask.sent,
                                          !.always = Counter!OpenRequests]
    OBVIOUS
  <1>2. IsVisit(a) /\ a.at = Counter!Begin(ask) /\ a.ask = ask /\ a.name = ask.sent /\ a.always = Counter!OpenRequests
        /\ a.err = "" /\ a.made = FALSE /\ a.unanswered = FALSE
    BY <1>1 DEF Counter!Gone, IsVisit
  <1>3. UNCHANGED <<purchase, kept, now>>
        /\ visit' = [visit EXCEPT ![q] = IF ask.kind = "refund" /\ ask.who # Root THEN Counter!Refused(a, "ErrForbidden") ELSE a]
    BY <1>1 DEF Counter!Arrives, Counter!Becomes
  <1>4. CASE ask.kind = "refund" /\ ask.who # Root
    <2>1. PICK n : n = Counter!Refused(a, "ErrForbidden")
      OBVIOUS
    <2>2. IsVisit(n) /\ Same(n, a) /\ n.at = "done" /\ n.err = "ErrForbidden" /\ n.status = Counter!StatusFor("ErrForbidden")
      <3>1. IsVisit(a)
        BY <1>2
      <3> QED
        BY <2>1, <3>1, RefusedFields
    <2>3. n.ask = ask /\ n.made = FALSE /\ n.always = Counter!OpenRequests
      BY <1>2, <2>2 DEF Same
    <2>4. Explained(n)
      BY <1>4, <2>2, <2>3 DEF Explained
    <2>5. VisitSound(n)
      BY <2>2, <2>3, <2>4, RefusedSound
    <2> QED
      BY <1>3, <1>4, <2>1, <2>5, PageRead, CopiesStand
  <1>5. CASE ~(ask.kind = "refund" /\ ask.who # Root)
    <2>1. VisitSound(a)
      <3>1. CASE ask.kind = "create"
        <4>1. a.at = "audience"
          BY <1>2, <3>1 DEF Counter!Begin
        <4> QED
          BY <1>2, <3>1, <4>1 DEF VisitSound, Visits, Before
      <3>2. CASE ask.kind = "confirm" /\ ask.sent = ""
        <4>1. a.at = "profile"
          BY <1>2, <3>2 DEF Counter!Begin
        <4> QED
          BY <1>2, <3>2, <4>1 DEF VisitSound, Visits, Before
      <3>3. CASE ask.kind = "confirm" /\ ask.sent # ""
        <4>1. a.at = "turn"
          BY <1>2, <3>3 DEF Counter!Begin
        <4> QED
          BY <1>2, <3>3, <4>1 DEF VisitSound, Visits, Before
      <3>4. CASE ask.kind = "list"
        <4>1. a.at = "list"
          BY <1>2, <3>4 DEF Counter!Begin
        <4> QED
          BY <1>2, <3>4, <4>1 DEF VisitSound, Visits, Before
      <3>5. CASE ask.kind \notin {"create", "confirm", "list"}
        <4>1. a.at = "load"
          BY <1>2, <3>5 DEF Counter!Begin
        <4> QED
          BY <1>2, <3>5, <4>1 DEF VisitSound, Visits, Before
      <3> QED
        BY <3>1, <3>2, <3>3, <3>4, <3>5
    <2>2. visit' = [visit EXCEPT ![q] = a]
      BY <1>3, <1>5
    <2> QED
      BY <1>3, <2>1, <2>2, PageRead, CopiesStand
  <1> QED
    BY <1>4, <1>5

LEMMA AudienceFound ==
  ASSUME CounterInv, NEW q \in Callers, Counter!audienceFor(q)
  PROVE  CounterInv'
  <1>1. PICK r : r = visit[q]
    BY SMTT(30)
  <1>2. VisitSound(r) /\ IsVisit(r) /\ r.at = "audience" /\ UNCHANGED <<purchase, kept, now>>
    BY <1>1 DEF CounterInv, VisitSound, Counter!audienceFor
  <1>3. ASSUME NEW n, IsVisit(n), n.at = "turn", n.ask = r.ask, n.always = r.always, n.err = r.err, n.made = r.made,
               visit' = [visit EXCEPT ![q] = n]
        PROVE  CounterInv'
    <2>1. VisitSound(n)
      BY <1>2, <1>3 DEF VisitSound, Visits, Before
    <2> QED
      BY <1>2, <1>3, <2>1, PageRead, CopiesStand
  <1>4. PICK a : a = [r EXCEPT !.at = "turn", !.city = r.ask.who \in DOMAIN Legal]
    OBVIOUS
  <1>5. IsVisit(a) /\ a.at = "turn" /\ a.ask = r.ask /\ a.always = r.always /\ a.err = r.err /\ a.made = r.made
    BY <1>2, <1>4 DEF IsVisit
  <1>6. PICK t : t = [r EXCEPT !.at = "turn"]
    OBVIOUS
  <1>7. IsVisit(t) /\ t.at = "turn" /\ t.ask = r.ask /\ t.always = r.always /\ t.err = r.err /\ t.made = r.made
    BY <1>2, <1>6 DEF IsVisit
  <1>8. PICK b : b = [t EXCEPT !.lost = @ \cup {"audience"}]
    OBVIOUS
  <1>9. IsVisit(b) /\ b.at = "turn" /\ b.ask = r.ask /\ b.always = r.always /\ b.err = r.err /\ b.made = r.made
    BY <1>7, <1>8, LostFields DEF Same
  <1>10. visit' = [visit EXCEPT ![q] = a] \/ visit' = [visit EXCEPT ![q] = b]
    BY <1>1, <1>4, <1>6, <1>8 DEF Counter!audienceFor, Counter!Becomes, Counter!Loses
  <1> QED
    BY <1>3, <1>5, <1>9, <1>10

LEMMA ProfileRead ==
  ASSUME CounterInv, NEW q \in Callers, Counter!withProfileDetails(q)
  PROVE  CounterInv'
  <1>1. PICK r : r = visit[q]
    OBVIOUS
  <1>2. /\ VisitSound(r) /\ IsVisit(r) /\ r.at = "profile" /\ UNCHANGED <<purchase, kept, now>>
        /\ r.ask.kind = "confirm" /\ r.ask.sent = "" /\ r.name = ""
    BY <1>1 DEF CounterInv, VisitSound, Counter!withProfileDetails
  <1>3. ASSUME NEW n, IsVisit(n), n.at = "turn", n.ask = r.ask, n.always = r.always, n.err = r.err, n.made = r.made,
               n.name = "" => Nameless(n), visit' = [visit EXCEPT ![q] = n]
        PROVE  CounterInv'
    <2>1. VisitSound(n)
      BY <1>2, <1>3 DEF VisitSound, Visits, Before
    <2> QED
      BY <1>2, <1>3, <2>1, PageRead, CopiesStand
  <1>4. PICK a : a = [r EXCEPT !.at = "turn", !.name = IF r.ask.who \in DOMAIN Legal THEN Legal[r.ask.who] ELSE @]
    OBVIOUS
  <1>5. /\ IsVisit(a) /\ a.at = "turn" /\ a.ask = r.ask /\ a.always = r.always /\ a.err = r.err /\ a.made = r.made
        /\ a.name = IF r.ask.who \in DOMAIN Legal THEN Legal[r.ask.who] ELSE r.name
    BY <1>2, <1>4 DEF IsVisit
  <1>6. a.name = "" => Nameless(a)
    BY <1>2, <1>5, PageAsked DEF Nameless
  <1>7. PICK t : t = [r EXCEPT !.at = "turn"]
    OBVIOUS
  <1>8. IsVisit(t) /\ t.at = "turn" /\ t.ask = r.ask /\ t.always = r.always /\ t.err = r.err /\ t.made = r.made
    BY <1>2, <1>7 DEF IsVisit
  <1>9. PICK b : b = [t EXCEPT !.lost = @ \cup {"profile"}]
    OBVIOUS
  <1>10. /\ IsVisit(b) /\ b.at = "turn" /\ b.ask = r.ask /\ b.always = r.always /\ b.err = r.err /\ b.made = r.made
         /\ "profile" \in b.lost
    BY <1>8, <1>9, LostFields DEF Same
  <1>11. Nameless(b)
    BY <1>2, <1>10 DEF Nameless
  <1>12. visit' = [visit EXCEPT ![q] = a] \/ visit' = [visit EXCEPT ![q] = b]
    BY <1>1, <1>4, <1>7, <1>9 DEF Counter!withProfileDetails, Counter!Becomes, Counter!Loses
  <1> QED
    BY <1>3, <1>5, <1>6, <1>10, <1>11, <1>12, ZenonT(60)

(* One order, through its copy: what was read is of the order's owner.     *)
LEMMA OwnedSound ==
  ASSUME CounterInv, NEW r, VisitSound(r), r.at \in {"load", "keep"}, NEW line,
         line # Absent => purchase[r.ask.id] # Absent /\ line.owner = purchase[r.ask.id].owner
  PROVE  VisitSound(Counter!Owned(r, line))
  <1>1. /\ IsVisit(r) /\ r.ask \in Asks /\ r.always \subseteq Counter!OpenRequests /\ r.made = FALSE /\ r.err = ""
        /\ r.ask.kind \notin {"create", "confirm", "list"} /\ r.ask.id \in PageOrders
    BY PageAsked DEF VisitSound, Before, Visits
  <1>2. CASE line = Absent
    <2>1. PICK n : n = Counter!Refused(r, "ErrNotFound")
      OBVIOUS
    <2>2. IsVisit(n) /\ Same(n, r) /\ n.at = "done" /\ n.err = "ErrNotFound" /\ n.status = Counter!StatusFor("ErrNotFound")
      <3>1. IsVisit(r)
        BY <1>1
      <3> QED
        BY <2>1, <3>1, RefusedFields
    <2>3. Explained(n)
      BY <2>2 DEF Explained
    <2>4. VisitSound(n)
      BY <1>1, <2>2, <2>3, RefusedSound DEF Same
    <2> QED
      BY <1>2, <2>1, <2>4 DEF Counter!Owned, Absent
  <1>3. CASE line # Absent /\ ~Counter!MayReach(r.ask.who, line.owner)
    <2>1. PICK n : n = Counter!Refused(r, "ErrForbidden")
      OBVIOUS
    <2>2. IsVisit(n) /\ Same(n, r) /\ n.at = "done" /\ n.err = "ErrForbidden" /\ n.status = Counter!StatusFor("ErrForbidden")
      <3>1. IsVisit(r)
        BY <1>1
      <3> QED
        BY <2>1, <3>1, RefusedFields, SMTT(30)
    <2>3. Explained(n)
      BY <1>1, <1>3, <2>2 DEF Explained, Same, Counter!MayReach
    <2>4. VisitSound(n)
      BY <1>1, <2>2, <2>3, RefusedSound DEF Same
    <2> QED
      BY <1>3, <2>1, <2>4 DEF Counter!Owned, Absent
  <1>4. CASE line # Absent /\ Counter!MayReach(r.ask.who, line.owner)
    <2>1. PICK n : n = [r EXCEPT !.rows = [o \in {r.ask.id} |-> line], !.at = IF r.ask.kind = "get" THEN "events" ELSE "turn"]
      OBVIOUS
    <2>2. /\ IsVisit(n) /\ n.ask = r.ask /\ n.always = r.always /\ n.err = r.err /\ n.made = r.made
          /\ n.rows = [o \in {r.ask.id} |-> line] /\ n.at = IF r.ask.kind = "get" THEN "events" ELSE "turn"
      BY <1>1, <2>1 DEF IsVisit
    <2>3. DOMAIN n.rows = {r.ask.id} /\ n.rows[r.ask.id] = line
      BY <2>2
    <2>4. Page(n)
      BY <1>1, <1>4, <2>2, <2>3 DEF Page, Counter!MayReach
    <2>5. VisitSound(n)
      <3>1. CASE r.ask.kind = "get"
        BY <1>1, <2>2, <2>4, <3>1 DEF VisitSound, Visits, Before
      <3>2. CASE r.ask.kind # "get"
        BY <1>1, <1>4, <2>2, <3>2 DEF VisitSound, Visits, Before
      <3> QED
        BY <3>1, <3>2
    <2> QED
      BY <1>4, <2>1, <2>5 DEF Counter!Owned, Absent
  <1> QED
    BY <1>2, <1>3, <1>4

LEMMA OrderLoaded ==
  ASSUME CounterInv, NEW q \in Callers, Counter!GetByID(q)
  PROVE  CounterInv'
  <1>1. PICK r : r = visit[q]
    OBVIOUS
  <1>2. VisitSound(r) /\ IsVisit(r) /\ r.at = "load" /\ UNCHANGED <<purchase, kept, now>>
    BY <1>1 DEF CounterInv, VisitSound, Counter!GetByID
  <1>3. /\ r.ask \in Asks /\ r.ask.id \in PageOrders /\ r.ask.kind \notin {"create", "confirm", "list"} /\ r.made = FALSE
        /\ r.err = "" /\ r.always \subseteq Counter!OpenRequests
    BY <1>2, PageAsked DEF VisitSound, Before, Visits
  <1>4. CASE kept[r.ask.id] # Absent /\ Counter!Becomes(q, Counter!Owned(r, kept[r.ask.id]))
    <2>1. PICK n : n = Counter!Owned(r, kept[r.ask.id])
      OBVIOUS
    <2>2. VisitSound(n)
      BY <1>2, <1>3, <2>1, OwnedSound DEF CounterInv, CopiesSound
    <2> QED
      BY <1>2, <1>4, <2>1, <2>2, PageRead, CopiesStand DEF Counter!Becomes
  <1>5. CASE Counter!Becomes(q, Counter!Owned(r, Absent))
    <2>1. PICK n : n = Counter!Owned(r, Absent)
      OBVIOUS
    <2>2. VisitSound(n)
      BY <1>2, <2>1, OwnedSound
    <2> QED
      BY <1>2, <1>5, <2>1, <2>2, PageRead, CopiesStand DEF Counter!Becomes
  <1>6. CASE /\ purchase[r.ask.id] # Absent
             /\ Counter!Becomes(q, [r EXCEPT !.rows = [o \in {r.ask.id} |-> purchase[r.ask.id]], !.at = "keep"])
    <2>1. PICK n : n = [r EXCEPT !.rows = [o \in {r.ask.id} |-> purchase[r.ask.id]], !.at = "keep"]
      OBVIOUS
    <2>2. /\ IsVisit(n) /\ n.ask = r.ask /\ n.always = r.always /\ n.err = r.err /\ n.made = r.made
          /\ n.rows = [o \in {r.ask.id} |-> purchase[r.ask.id]] /\ n.at = "keep"
      BY <1>2, <2>1 DEF IsVisit
    <2>3. n.rows[n.ask.id] = purchase[r.ask.id]
      BY <2>2
    <2>4. VisitSound(n)
      BY <1>3, <1>6, <2>2, <2>3 DEF VisitSound, Visits, Before
    <2> QED
      BY <1>2, <1>6, <2>1, <2>4, PageRead, CopiesStand DEF Counter!Becomes
  <1>7. CASE Counter!Loses(q, "read", Counter!Refused(r, "fault"))
    <2>1. visit[q].at \in Before \ {"none"}
      BY <1>1, <1>2 DEF Before, Visits
    <2> QED
      BY <1>1, <1>2, <1>7, <2>1, ReadLost
  <1> QED
    BY <1>1, <1>4, <1>5, <1>6, <1>7, SMTT(30) DEF Counter!GetByID, Absent

LEMMA OrderKept ==
  ASSUME CounterInv, NEW q \in Callers, Counter!Keeps(q)
  PROVE  CounterInv'
  <1>1. PICK r : r = visit[q]
    OBVIOUS
  <1>2. VisitSound(r) /\ IsVisit(r) /\ r.at = "keep" /\ UNCHANGED <<purchase, now>>
    BY <1>1 DEF CounterInv, VisitSound, Counter!Keeps
  <1>3. /\ r.ask.id \in PageOrders /\ purchase[r.ask.id] # Absent
        /\ r.rows[r.ask.id].owner = purchase[r.ask.id].owner
    BY <1>2, PageAsked DEF VisitSound
  <1>4. PICK line : line = r.rows[r.ask.id]
    OBVIOUS
  <1>5. PICK n : n = Counter!Owned(r, line)
    OBVIOUS
  <1>6. VisitSound(n)
    BY <1>2, <1>3, <1>4, <1>5, OwnedSound, SMTT(30)
  <1>7. visit' = [visit EXCEPT ![q] = n] /\ kept' = [kept EXCEPT ![r.ask.id] = line]
    BY <1>1, <1>4, <1>5 DEF Counter!Keeps, Counter!Becomes
  <1>8. CopiesSound'
    <2>1. kept' = [o \in PageOrders |-> kept'[o]] /\ kept'[r.ask.id] = line
          /\ \A o \in PageOrders : o # r.ask.id => kept'[o] = kept[o]
      BY <1>3, <1>7 DEF CounterInv, CopiesSound
    <2> QED
      BY <1>2, <1>3, <1>4, <2>1 DEF CounterInv, CopiesSound
  <1> QED
    BY <1>2, <1>6, <1>7, <1>8, PageRead

-----------------------------------------------------------------------------
(* The transactions.                                                       *)
LEMMA PurchaseWritten ==
  ASSUME CounterInv, NEW o \in PageOrders, NEW line, RowSound(line), UNCHANGED <<kept, now>>,
         purchase[o] # Absent => line.owner = purchase[o].owner /\ line.asked = purchase[o].asked,
         purchase' = [purchase EXCEPT ![o] = line]
  PROVE  /\ PurchasesSound' /\ CopiesSound' /\ PurchasesGrow
         /\ Counter!OpenRequests \subseteq Counter!OpenRequests'
  <1>1. /\ purchase' = [p \in PageOrders |-> purchase'[p]] /\ purchase'[o] = line
        /\ \A p \in PageOrders : p # o => purchase'[p] = purchase[p]
    BY DEF CounterInv, PurchasesSound
  <1>2. line # Absent
    <2>1. line.status # "none"
      BY DEF RowSound
    <2>2. Absent.status = "none"
      BY DEF Absent, Counter!NoOrder
    <2> QED
      BY <2>1, <2>2
  <1>3. \A p \in PageOrders : purchase'[p] # Absent => RowSound(purchase[p])'
    BY <1>1 DEF CounterInv, PurchasesSound, RowSound
  <1>4. PurchasesSound'
    BY <1>1, <1>3 DEF CounterInv, PurchasesSound
  <1>5. PurchasesGrow
    BY <1>1, <1>2 DEF PurchasesGrow
  <1>6. CopiesSound'
    BY <1>5 DEF CounterInv, CopiesSound, PurchasesGrow
  <1>7. Counter!OpenRequests \subseteq Counter!OpenRequests'
    BY <1>1, <1>2 DEF Counter!OpenRequests, Counter!Made, Absent
  <1> QED
    BY <1>4, <1>5, <1>6, <1>7

(* A transaction is done, is done and its answer lost, or fails.           *)
LEMMA PageCommitted ==
  ASSUME CounterInv, NEW q \in Callers, NEW o \in PageOrders, NEW line, NEW next, Counter!Commits(q, o, line, next),
         RowSound(line), purchase[o] # Absent => line.owner = purchase[o].owner /\ line.asked = purchase[o].asked,
         next.ask = visit[q].ask, next.always = visit[q].always, IsVisit(next),
         purchase' = [purchase EXCEPT ![o] = line] => VisitSound(next)'
  PROVE  CounterInv'
  <1>1. PICK r : r = visit[q]
    BY SMTT(30)
  <1>2. VisitSound(r) /\ IsVisit(r) /\ r.at = "turn" /\ UNCHANGED <<kept, now>>
    BY <1>1 DEF CounterInv, VisitSound, Counter!Commits
  <1>3. r.ask \in Asks /\ r.made = FALSE /\ r.always \subseteq Counter!OpenRequests
    BY <1>2 DEF VisitSound, Before, Visits
  <1>4. CASE purchase' = [purchase EXCEPT ![o] = line] /\ Counter!Becomes(q, next)
    <2>1. VisitSound(next)' /\ visit' = [visit EXCEPT ![q] = next]
      BY <1>4 DEF Counter!Becomes
    <2> QED
      BY <1>2, <1>4, <2>1, PurchaseWritten, PageHandled
  <1>5. CASE /\ purchase' = [purchase EXCEPT ![o] = line]
             /\ Counter!Loses(q, "turn", [Counter!Refused(next, "fault") EXCEPT !.unanswered = TRUE])
    <2>1. PICK f : f = Counter!Refused(next, "fault")
      OBVIOUS
    <2>2. IsVisit(f) /\ Same(f, next) /\ f.at = "done" /\ f.err = "fault" /\ f.status = Counter!StatusFor("fault")
      BY <2>1, RefusedFields
    <2>3. PICK g : g = [f EXCEPT !.unanswered = TRUE]
      OBVIOUS
    <2>4. /\ IsVisit(g) /\ g.ask = f.ask /\ g.always = f.always /\ g.at = "done" /\ g.err = "fault"
          /\ g.status = f.status /\ g.unanswered = TRUE
      BY <2>2, <2>3 DEF IsVisit
    <2>5. PICK n : n = [g EXCEPT !.lost = @ \cup {"turn"}]
      OBVIOUS
    <2>6. IsVisit(n) /\ Same(n, g) /\ n.at = "done" /\ n.err = "fault" /\ n.status = f.status /\ n.unanswered = TRUE
          /\ "turn" \in n.lost
      BY <2>4, <2>5, LostFields
    <2>7. visit' = [visit EXCEPT ![q] = n]
      BY <1>5, <2>1, <2>3, <2>5 DEF Counter!Loses, Counter!Becomes
    <2>8. n.ask = r.ask /\ n.always = r.always
      BY <1>1, <2>2, <2>4, <2>6 DEF Same
    <2>9. n.status \notin {200, 201}
      <3>1. f.err # "" /\ f.status = Counter!StatusFor(f.err)
        BY <2>2
      <3>2. f.status \notin {200, 201}
        BY <3>1, StatusRefuses, ZenonT(60) DEF Quiet
      <3> QED
        BY <2>6, <3>2
    <2>10. DoneWell(n)'
      BY <2>6, <2>9, ZenonT(60) DEF DoneWell, Explained, Counter!Dressing
    <2>11. VisitSound(n)'
      BY <1>2, <1>3, <1>5, <2>6, <2>8, <2>10, PurchaseWritten DEF VisitSound, Visits, Before
    <2> QED
      BY <1>2, <1>5, <2>7, <2>11, PurchaseWritten, PageHandled
  <1>6. CASE UNCHANGED purchase /\ Counter!Loses(q, "turn", Counter!Refused(r, "fault"))
    <2>1. PICK f : f = Counter!Refused(r, "fault")
      OBVIOUS
    <2>2. IsVisit(f) /\ Same(f, r) /\ f.at = "done" /\ f.err = "fault" /\ f.status = Counter!StatusFor("fault")
      BY <1>2, <2>1, RefusedFields
    <2>3. PICK n : n = [f EXCEPT !.lost = @ \cup {"turn"}]
      OBVIOUS
    <2>4. IsVisit(n) /\ Same(n, f) /\ n.at = "done" /\ n.err = "fault" /\ n.status = Counter!StatusFor("fault")
          /\ "turn" \in n.lost
      BY <2>2, <2>3, LostFields
    <2>5. visit' = [visit EXCEPT ![q] = n]
      BY <1>6, <2>1, <2>3 DEF Counter!Loses, Counter!Becomes
    <2>6. n.ask = r.ask /\ n.always = r.always /\ n.made = r.made
      BY <2>2, <2>4 DEF Same
    <2>7. Explained(n) /\ ~(n.lost \subseteq Counter!Dressing)
      BY <2>4 DEF Explained, Counter!Dressing
    <2>8. VisitSound(n)
      BY <1>3, <2>4, <2>6, <2>7, RefusedSound
    <2> QED
      BY <1>2, <1>6, <2>5, <2>8, PageRead, CopiesStand
  <1> QED
    BY <1>1, <1>4, <1>5, <1>6 DEF Counter!Commits

TurnRefusals == {"ErrNotFound", "ErrHoldExpired", "ErrInvalidBuyerName", "ErrInvalidTransition", "ErrNotRefundable"}
StillHeld(line) == line # Absent /\ line.status \in Counter!Holding /\ now < line.hold

LEMMA TurnRefused ==
  ASSUME CounterInv, NEW q \in Callers, NEW err \in TurnRefusals \cup BasketRefusals, Counter!RefusedAt(q, err),
         visit[q].ask.kind # "create" => err \in TurnRefusals,
         err \in {"ErrHoldExpired", "ErrInvalidTransition"} /\ visit[q].ask.kind # "create" =>
            StillHeld(purchase[visit[q].ask.id]) = FALSE,
         err \in {"ErrInvalidBuyerName"} /\ visit[q].ask.kind # "create" => Nameless(visit[q])
  PROVE  CounterInv'
  <1>1. PICK r : r = visit[q]
    BY SMTT(30)
  <1>2. VisitSound(r) /\ IsVisit(r) /\ r.at = "turn" /\ UNCHANGED <<purchase, kept, now>>
    BY <1>1 DEF CounterInv, VisitSound, Counter!RefusedAt
  <1>3. r.ask \in Asks /\ r.made = FALSE /\ r.always \subseteq Counter!OpenRequests
    BY <1>2 DEF VisitSound, Before, Visits
  <1>4. PICK f : f = Counter!Refused(r, err)
    OBVIOUS
  <1>5. IsVisit(f) /\ Same(f, r) /\ f.at = "done" /\ f.err = err /\ f.status = Counter!StatusFor(err) /\ f.lost = r.lost
    BY <1>2, <1>4, RefusedFields
  <1>6. PICK n : n = [f EXCEPT !.held = StillHeld(purchase[r.ask.id])]
    OBVIOUS
  <1>7. /\ IsVisit(n) /\ n.ask = f.ask /\ n.always = f.always /\ n.at = "done" /\ n.err = err /\ n.made = f.made
        /\ n.status = f.status /\ n.lost = f.lost /\ n.held = StillHeld(purchase[r.ask.id])
    BY <1>5, <1>6 DEF IsVisit
  <1>8. visit' = [visit EXCEPT ![q] = n]
    BY <1>1, <1>4, <1>6 DEF Counter!RefusedAt, Counter!Becomes, StillHeld, Absent
  <1>9. n.ask = r.ask /\ n.always = r.always /\ n.made = FALSE /\ n.status = Counter!StatusFor(n.err) /\ n.lost = r.lost
    BY <1>3, <1>5, <1>7 DEF Same
  <1>10. n.err # "" /\ n.err # "fault"
    BY <1>7, PageAsked DEF TurnRefusals
  <1>11. Explained(n)
    <2> SUFFICES ASSUME r.ask.kind # "create"
                 PROVE  /\ n.err # "ErrForbidden" /\ (n.err \in {"ErrHoldExpired", "ErrInvalidTransition"} => n.held = FALSE)
                        /\ n.err = "ErrInvalidBuyerName" => Nameless(n)
      BY <1>9 DEF Explained
    <2>1. n.err # "ErrForbidden"
      BY <1>1, <1>7 DEF TurnRefusals
    <2>2. n.err \in {"ErrHoldExpired", "ErrInvalidTransition"} => n.held = FALSE
      BY <1>1, <1>7
    <2>3. n.err = "ErrInvalidBuyerName" => Nameless(n)
      BY <1>1, <1>7, <1>9 DEF Nameless
    <2> QED
      BY <2>1, <2>2, <2>3
  <1>12. VisitSound(n)
    BY <1>3, <1>7, <1>9, <1>10, <1>11, RefusedSound
  <1> QED
    BY <1>2, <1>8, <1>12, PageRead, CopiesStand

-----------------------------------------------------------------------------
LEMMA NamedAlike == ASSUME NEW a, NEW b, a.name = b.name PROVE Named(a) <=> Named(b)
  BY DEF Named

LEMMA ConfirmSound ==
  ASSUME now \in Nat, NEW line, RowSound(line), ~line.confirmed => now < line.hold, NEW r, Named(r),
         NEW n, n = Counter!ConfirmOrder(line, r.name)
  PROVE  RowSound(n) /\ n.owner = line.owner /\ n.asked = line.asked
  <1>1. IsRow(line) /\ HoldFor \in Nat \ {0}
    BY PageAsked DEF RowSound
  <1>9. ASSUME n.name = r.name PROVE Named(n)
    BY <1>9 DEF Named
  <1>2. CASE line.confirmed
    <2>1. n = [line EXCEPT !.name = r.name]
      BY <1>2 DEF Counter!ConfirmOrder
    <2>2. /\ IsRow(n) /\ n.status = line.status /\ n.owner = line.owner /\ n.name = r.name /\ n.confirmed = line.confirmed
          /\ n.since = line.since /\ n.cart = line.cart /\ n.hold = line.hold /\ n.charges = line.charges
          /\ n.refunds = line.refunds /\ n.asked = line.asked
      BY <1>1, <2>1 DEF IsRow
    <2> QED
      BY <1>2, <1>9, <2>2 DEF RowSound
  <1>3. CASE ~line.confirmed
    <2>1. n = [line EXCEPT !.name = r.name, !.confirmed = TRUE, !.since = now, !.charges = 1,
                           !.hold = Counter!Later(@, now + HoldFor)]
      BY <1>3 DEF Counter!ConfirmOrder, Counter!ConfirmAgain
    <2>2. /\ IsRow(n) /\ n.status = line.status /\ n.owner = line.owner /\ n.name = r.name /\ n.confirmed = TRUE
          /\ n.since = now /\ n.cart = line.cart /\ n.hold = Counter!Later(line.hold, now + HoldFor) /\ n.charges = 1
          /\ n.refunds = line.refunds /\ n.asked = line.asked
      BY <1>1, <2>1 DEF IsRow
    <2>3. /\ line.hold = line.cart /\ line.cart \in Nat /\ line.hold \in Nat /\ now < line.cart
          /\ line.status # "none" /\ line.refunds \in 0..1
      BY <1>3 DEF RowSound
    <2>4. n.hold = Counter!Later(n.cart, n.since + HoldFor)
      BY <2>2, <2>3
    <2>5. n.hold \in Nat
      <3>1. now + HoldFor \in Nat
        BY <1>1
      <3> QED
        BY <2>2, <2>3, <3>1 DEF Counter!Later
    <2> QED
      BY <1>9, <2>2, <2>3, <2>4, <2>5 DEF RowSound
  <1> QED
    BY <1>2, <1>3

(* What a committed row is answered with: the row, and then its dressing.  *)
LEMMA EventsShown ==
  ASSUME CounterInv, NEW q \in Callers, NEW r, r = visit[q], r.at = "turn", r.ask.kind \in {"confirm", "create"},
         NEW o \in PageOrders, NEW line, RowSound(line), line.owner = r.ask.who,
         purchase[o] # Absent => line.owner = purchase[o].owner /\ line.asked = purchase[o].asked,
         NEW n, n = [r EXCEPT !.at = "events", !.rows = [p \in {o} |-> line], !.made = TRUE],
         Counter!Commits(q, o, line, n)
  PROVE  CounterInv'
  <1>1. /\ IsVisit(r) /\ r.ask \in Asks /\ r.err = "" /\ r.always \subseteq Counter!OpenRequests
        /\ UNCHANGED <<kept, now>>
    BY DEF CounterInv, VisitSound, Counter!Commits
  <1>3. /\ IsVisit(n) /\ n.ask = r.ask /\ n.always = r.always /\ n.err = r.err /\ n.at = "events"
        /\ n.rows = [p \in {o} |-> line]
    BY <1>1 DEF IsVisit
  <1>4. Page(n)
    <2>1. \A p \in DOMAIN n.rows : n.rows[p].owner = r.ask.who
      BY <1>3
    <2> QED
      BY <1>3, <2>1 DEF Page
  <1>5. ASSUME purchase' = [purchase EXCEPT ![o] = line] PROVE VisitSound(n)'
    <2>1. Counter!OpenRequests \subseteq Counter!OpenRequests'
      BY <1>1, <1>5, PurchaseWritten
    <2>2. n.always \subseteq Counter!OpenRequests'
      BY <1>1, <1>3, <2>1
    <2> QED
      BY <1>1, <1>3, <1>4, <2>2 DEF VisitSound, Visits, Before, Page
  <1> QED
    BY <1>3, <1>5, PageCommitted

LEMMA OrderConfirmed ==
  ASSUME CounterInv, NEW q \in Callers, Counter!Confirm(q)
  PROVE  CounterInv'
  <1>1. PICK r : r = visit[q]
    OBVIOUS
  <1>2. VisitSound(r) /\ IsVisit(r) /\ r.at = "turn" /\ r.ask.kind = "confirm" /\ r.ask \in Asks /\ r.ask.id \in PageOrders
    BY <1>1, PageAsked DEF CounterInv, VisitSound, Counter!Confirm
  <1>3. PICK line : line = purchase[r.ask.id]
    OBVIOUS
  <1>4. now \in Nat /\ (line # Absent => RowSound(line))
    BY <1>2, <1>3 DEF CounterInv, PurchasesSound
  <1>5. PICK out : out = [err |-> Counter!ConfirmError(r, line)]
    OBVIOUS
  <1>6. CASE out.err # ""
    <2>1. Counter!RefusedAt(q, out.err)
      BY <1>1, <1>3, <1>5, <1>6 DEF Counter!Confirm
    <2>2. out.err \in {"ErrNotFound", "ErrHoldExpired", "ErrInvalidBuyerName"}
      BY <1>5, <1>6 DEF Counter!ConfirmError
    <2>3. out.err = "ErrHoldExpired" => line # Absent /\ (Counter!HoldLapsed(line) \/ line.status \notin Counter!Holding)
      BY <1>5 DEF Counter!ConfirmError, Absent
    <2>4. out.err = "ErrHoldExpired" => StillHeld(line) = FALSE
      <3>1. line # Absent => line.hold \in Nat
        BY <1>4 DEF RowSound
      <3> QED
        BY <1>4, <2>3, <3>1 DEF StillHeld, Counter!HoldLapsed
    <2>5. out.err = "ErrInvalidBuyerName" => r.name = ""
      BY <1>5 DEF Counter!ConfirmError
    <2>6. out.err = "ErrInvalidBuyerName" => Nameless(r)
      BY <1>2, <2>5, ZenonT(60) DEF VisitSound
    <2> QED
      BY <1>1, <1>2, <1>3, <2>1, <2>2, <2>4, <2>6, TurnRefused DEF TurnRefusals
  <1>7. CASE out.err = ""
    <2>1. PICK n : n = Counter!ConfirmOrder(line, r.name)
      BY SMTT(30)
    <2>2. Counter!Commits(q, r.ask.id, n, [r EXCEPT !.at = "events", !.rows = [p \in {r.ask.id} |-> n], !.made = TRUE])
      BY <1>1, <1>3, <1>5, <1>7, <2>1 DEF Counter!Confirm
    <2>3. /\ line # Absent /\ line.owner = r.ask.who /\ ~Counter!HoldLapsed(line) /\ line.status \in Counter!Holding
          /\ Named(r)
      BY <1>5, <1>7 DEF Counter!ConfirmError, Absent, Named
    <2>4. now < line.hold
      <3>1. line.hold \in Nat
        BY <1>4, <2>3 DEF RowSound
      <3> QED
        BY <1>4, <2>3, <3>1 DEF Counter!HoldLapsed
    <2>5. RowSound(n) /\ n.owner = line.owner /\ n.asked = line.asked
      BY <1>4, <2>1, <2>3, <2>4, ConfirmSound
    <2>6. r.ask.kind \in {"confirm", "create"}
      BY <1>2
    <2>7. RowSound(n) /\ n.owner = r.ask.who
          /\ (purchase[r.ask.id] # Absent => n.owner = purchase[r.ask.id].owner /\ n.asked = purchase[r.ask.id].asked)
      BY <1>3, <2>3, <2>5
    <2>8. PICK m : m = [r EXCEPT !.at = "events", !.rows = [p \in {r.ask.id} |-> n], !.made = TRUE]
      OBVIOUS
    <2>9. Counter!Commits(q, r.ask.id, n, m)
      BY <2>2, <2>8
    <2>10. r = visit[q] /\ r.at = "turn" /\ r.ask.id \in PageOrders
      BY <1>1, <1>2
    <2> QED
      BY <2>6, <2>7, <2>8, <2>9, <2>10, EventsShown
  <1> QED
    BY <1>6, <1>7

LEMMA BasketSound ==
  ASSUME now \in Nat, NEW who, NEW w, NEW z, NEW span \in Nat \ {0}, NEW n,
         n = [status |-> "pending_payment", owner |-> who, name |-> z, city |-> w, confirmed |-> FALSE, since |-> 0,
              cart |-> now + span, hold |-> now + span, charges |-> 0, payment |-> FALSE, refunds |-> 0,
              asked |-> FALSE]
  PROVE  RowSound(n) /\ n.owner = who /\ n.confirmed = FALSE /\ now < n.hold
  <1>2. /\ IsRow(n) /\ n.status = "pending_payment" /\ n.owner = who /\ n.confirmed = FALSE /\ n.since = 0
        /\ n.cart = now + span /\ n.hold = now + span /\ n.charges = 0 /\ n.refunds = 0
    <2>1. n.status = "pending_payment" /\ n.owner = who /\ n.confirmed = FALSE
      OBVIOUS
    <2>2. n.since = 0 /\ n.charges = 0 /\ n.refunds = 0
      OBVIOUS
    <2>3. n.cart = now + span /\ n.hold = now + span
      OBVIOUS
    <2>4. IsRow(n)
      BY DEF IsRow
    <2> QED
      BY <2>1, <2>2, <2>3, <2>4
  <1>3. now + span \in Nat /\ now < now + span
    OBVIOUS
  <1> QED
    BY <1>2, <1>3 DEF RowSound

LEMMA CheckoutStarted ==
  ASSUME CounterInv, NEW q \in Callers, Counter!Start(q)
  PROVE  CounterInv'
  <1>1. PICK r : r = visit[q]
    OBVIOUS
  <1>2. /\ VisitSound(r) /\ IsVisit(r) /\ r.at = "turn" /\ r.ask.kind = "create" /\ r.ask \in Asks
        /\ r.ask.id \in PageOrders /\ purchase[r.ask.id] = Absent /\ now \in Nat
    BY <1>1, PageAsked DEF CounterInv, PurchasesSound, VisitSound, Counter!Start, Absent
  <1>3. ASSUME NEW err \in BasketRefusals, Counter!RefusedAt(q, err) PROVE CounterInv'
    BY <1>1, <1>2, <1>3, TurnRefused
  <1>4. PICK span : span = IF r.ask.confirm THEN HoldFor ELSE CartHoldFor
    OBVIOUS
  <1>5. span \in Nat \ {0}
    BY <1>4, PageAsked
  <1>6. PICK basket : basket = [Counter!NewOrder(r.ask.who, now + span) EXCEPT !.city = r.city, !.name = r.name]
    OBVIOUS
  <1>7. RowSound(basket) /\ basket.owner = r.ask.who /\ basket.confirmed = FALSE /\ now < basket.hold
    <2>1. basket = [status |-> "pending_payment", owner |-> r.ask.who, name |-> r.name, city |-> r.city,
                    confirmed |-> FALSE, since |-> 0, cart |-> now + span, hold |-> now + span, charges |-> 0,
                    payment |-> FALSE, refunds |-> 0, asked |-> FALSE]
      BY <1>6 DEF Counter!NewOrder
    <2> QED
      BY <1>2, <1>5, <2>1, BasketSound, ZenonT(60)
  <1>8. PICK line : line = IF r.ask.confirm THEN Counter!ConfirmOrder(basket, r.name) ELSE basket
    OBVIOUS
  <1>9. ASSUME r.ask.confirm => Named(r) PROVE RowSound(line) /\ line.owner = r.ask.who
    <2>1. CASE r.ask.confirm
      BY <1>2, <1>7, <1>8, <1>9, <2>1, ConfirmSound
    <2>2. CASE ~r.ask.confirm
      BY <1>7, <1>8, <2>2, SMTT(30)
    <2> QED
      BY <2>1, <2>2
  <1>10. ASSUME r.ask.confirm => Named(r),
                Counter!Commits(q, r.ask.id, line,
                    [r EXCEPT !.at = "events", !.rows = [p \in {r.ask.id} |-> line], !.made = TRUE])
         PROVE  CounterInv'
    <2>1. PICK m : m = [r EXCEPT !.at = "events", !.rows = [p \in {r.ask.id} |-> line], !.made = TRUE]
      OBVIOUS
    <2>2. Counter!Commits(q, r.ask.id, line, m)
      BY <1>10, <2>1
    <2>3. RowSound(line) /\ line.owner = r.ask.who
      BY <1>9, <1>10
    <2>4. r = visit[q] /\ r.at = "turn" /\ r.ask.id \in PageOrders /\ purchase[r.ask.id] = Absent
          /\ r.ask.kind \in {"confirm", "create"}
      BY <1>1, <1>2
    <2> QED
      BY <2>1, <2>2, <2>3, <2>4, EventsShown
  <1> QED
    BY <1>1, <1>3, <1>4, <1>6, <1>8, <1>10, ZenonT(60) DEF Counter!Start, Named

LEMMA CancelTold ==
  ASSUME NEW a, a.ask.kind \in {"cancel", "refund"}, Quiet(a), a.status \in {200, 202}
  PROVE  DoneWell(a)'
  <1>1. a.status < 300
    OBVIOUS
  <1>2. a.ask.kind \notin {"list", "get", "confirm", "create"}
    OBVIOUS
  <1>3. a.err # "fault" /\ a.err # "ErrForbidden" /\ a.err \notin {"ErrHoldExpired", "ErrInvalidTransition"}
        /\ a.err # "ErrInvalidBuyerName"
    BY ZenonT(60) DEF Quiet
  <1>4. Explained(a)'
    BY <1>3 DEF Explained
  <1> QED
    BY <1>1, <1>2, <1>3, <1>4 DEF DoneWell

LEMMA OrderCancelled ==
  ASSUME CounterInv, NEW q \in Callers, Counter!Cancel(q)
  PROVE  CounterInv'
  <1>1. PICK r : r = visit[q]
    OBVIOUS
  <1>2. /\ VisitSound(r) /\ IsVisit(r) /\ r.at = "turn" /\ r.ask.kind = "cancel" /\ r.ask \in Asks /\ r.err = ""
        /\ r.ask.id \in PageOrders /\ purchase[r.ask.id] # Absent /\ r.always \subseteq Counter!OpenRequests
    BY <1>1, PageAsked DEF CounterInv, VisitSound, Counter!Cancel
  <1>3. PICK line : line = purchase[r.ask.id]
    OBVIOUS
  <1>4. RowSound(line) /\ IsRow(line)
    BY <1>2, <1>3 DEF CounterInv, PurchasesSound, RowSound
  <1>5. ASSUME NEW n, RowSound(n), n.owner = line.owner, n.asked = line.asked, NEW b, IsVisit(b), b.ask = r.ask,
               b.always = r.always, b.err = r.err, Counter!Commits(q, r.ask.id, n, Counter!Answered(b, 200))
        PROVE  CounterInv'
    <2>1. PICK a : a = Counter!Answered(b, 200)
      OBVIOUS
    <2>2. IsVisit(a) /\ Same(a, b) /\ a.at = "done" /\ a.err = b.err /\ a.status = 200
      BY <1>5, <2>1, AnsweredFields
    <2>3. a.ask = r.ask /\ a.always = r.always /\ a.err = ""
      BY <1>2, <1>5, <2>2, ZenonT(60) DEF Same
    <2>4. DoneWell(a)'
      <3>1. Quiet(a)
        BY <2>3 DEF Quiet
      <3>2. a.ask.kind \in {"cancel", "refund"} /\ a.status \in {200, 202}
        BY <1>2, <2>2, <2>3, ZenonT(60)
      <3> QED
        BY <3>1, <3>2, CancelTold
    <2>5. ASSUME purchase' = [purchase EXCEPT ![r.ask.id] = n] PROVE VisitSound(a)'
      <3>1. UNCHANGED <<kept, now>>
        BY <1>5 DEF Counter!Commits
      <3>2. Counter!OpenRequests \subseteq Counter!OpenRequests'
        BY <1>2, <1>3, <1>5, <2>5, <3>1, PurchaseWritten
      <3> QED
        BY <1>2, <2>2, <2>3, <2>4, <3>2 DEF VisitSound, Visits, Before
    <2>6. Counter!Commits(q, r.ask.id, n, a) /\ RowSound(n) /\ IsVisit(a)
          /\ (purchase[r.ask.id] # Absent => n.owner = purchase[r.ask.id].owner /\ n.asked = purchase[r.ask.id].asked)
      BY <1>3, <1>5, <2>1, <2>2
    <2>7. a.ask = visit[q].ask /\ a.always = visit[q].always
      BY <1>1, <2>3
    <2> QED
      BY <1>2, <2>5, <2>6, <2>7, PageCommitted
  <1>6. CASE /\ line.status \in Counter!Holding
             /\ Counter!Commits(q, r.ask.id, [line EXCEPT !.status = "cancelled"],
                  Counter!Answered([r EXCEPT !.rows = [p \in {r.ask.id} |-> [line EXCEPT !.status = "cancelled"]],
                                             !.made = TRUE], 200))
    <2>1. PICK n : n = [line EXCEPT !.status = "cancelled"]
      OBVIOUS
    <2>2. RowSound(n) /\ n.owner = line.owner /\ n.asked = line.asked
      <3>1. /\ IsRow(n) /\ n.status = "cancelled" /\ n.owner = line.owner /\ n.name = line.name
            /\ n.confirmed = line.confirmed /\ n.since = line.since /\ n.cart = line.cart /\ n.hold = line.hold
            /\ n.charges = line.charges /\ n.refunds = line.refunds /\ n.asked = line.asked
        BY <1>4, <2>1 DEF IsRow
      <3>2. Named(n) <=> Named(line)
        BY <3>1, NamedAlike
      <3> QED
        BY <1>4, <3>1, <3>2 DEF RowSound
    <2>3. PICK b : b = [r EXCEPT !.rows = [p \in {r.ask.id} |-> n], !.made = TRUE]
      OBVIOUS
    <2>4. IsVisit(b) /\ b.ask = r.ask /\ b.always = r.always /\ b.err = r.err
      BY <1>2, <2>3 DEF IsVisit
    <2> QED
      BY <1>5, <1>6, <2>1, <2>2, <2>3, <2>4
  <1>7. CASE Counter!Commits(q, r.ask.id, line, Counter!Answered([r EXCEPT !.rows = [p \in {r.ask.id} |-> line]], 200))
    <2>1. PICK b : b = [r EXCEPT !.rows = [p \in {r.ask.id} |-> line]]
      OBVIOUS
    <2>2. IsVisit(b) /\ b.ask = r.ask /\ b.always = r.always /\ b.err = r.err
      BY <1>2, <2>1 DEF IsVisit
    <2> QED
      BY <1>4, <1>5, <1>7, <2>1, <2>2
  <1>8. CASE line.status \notin Counter!Holding /\ Counter!RefusedAt(q, "ErrInvalidTransition")
    <2>1. StillHeld(line) = FALSE
      BY <1>8 DEF StillHeld
    <2> QED
      BY <1>1, <1>2, <1>3, <1>8, <2>1, TurnRefused DEF TurnRefusals
  <1> QED
    BY <1>1, <1>3, <1>6, <1>7, <1>8, SMTT(30) DEF Counter!Cancel

LEMMA OrderRefunded ==
  ASSUME CounterInv, NEW q \in Callers, Counter!Refund(q)
  PROVE  CounterInv'
  <1>1. PICK r : r = visit[q]
    OBVIOUS
  <1>2. /\ VisitSound(r) /\ IsVisit(r) /\ r.at = "turn" /\ r.ask.kind = "refund" /\ r.ask \in Asks /\ r.err = ""
        /\ r.ask.id \in PageOrders /\ purchase[r.ask.id] # Absent /\ r.always \subseteq Counter!OpenRequests
    BY <1>1, PageAsked DEF CounterInv, VisitSound, Counter!Refund
  <1>3. PICK line : line = purchase[r.ask.id]
    OBVIOUS
  <1>4. RowSound(line) /\ IsRow(line)
    BY <1>2, <1>3 DEF CounterInv, PurchasesSound, RowSound
  <1>5. CASE Counter!Commits(q, r.ask.id, [line EXCEPT !.refunds = 1], Counter!Answered([r EXCEPT !.made = TRUE], 202))
    <2>1. PICK n : n = [line EXCEPT !.refunds = 1]
      OBVIOUS
    <2>2. RowSound(n) /\ n.owner = line.owner /\ n.asked = line.asked
      <3>1. /\ IsRow(n) /\ n.status = line.status /\ n.owner = line.owner /\ n.name = line.name
            /\ n.confirmed = line.confirmed /\ n.since = line.since /\ n.cart = line.cart /\ n.hold = line.hold
            /\ n.charges = line.charges /\ n.refunds = 1 /\ n.asked = line.asked
        BY <1>4, <2>1 DEF IsRow
      <3>2. Named(n) <=> Named(line)
        BY <3>1, NamedAlike
      <3> QED
        BY <1>4, <3>1, <3>2 DEF RowSound
    <2>3. PICK b : b = [r EXCEPT !.made = TRUE]
      OBVIOUS
    <2>4. IsVisit(b) /\ b.ask = r.ask /\ b.always = r.always /\ b.err = r.err
      BY <1>2, <2>3 DEF IsVisit
    <2>5. PICK a : a = Counter!Answered(b, 202)
      OBVIOUS
    <2>6. IsVisit(a) /\ Same(a, b) /\ a.at = "done" /\ a.err = b.err /\ a.status = 202
      BY <2>4, <2>5, AnsweredFields
    <2>7. a.ask = r.ask /\ a.always = r.always /\ a.err = ""
      BY <1>2, <2>4, <2>6, ZenonT(60) DEF Same
    <2>8. DoneWell(a)'
      <3>1. Quiet(a)
        BY <2>7 DEF Quiet
      <3>2. a.ask.kind \in {"cancel", "refund"} /\ a.status \in {200, 202}
        BY <1>2, <2>6, <2>7, ZenonT(60)
      <3> QED
        BY <3>1, <3>2, CancelTold
    <2>9. ASSUME purchase' = [purchase EXCEPT ![r.ask.id] = n] PROVE VisitSound(a)'
      <3>1. UNCHANGED <<kept, now>>
        BY <1>5 DEF Counter!Commits
      <3>2. Counter!OpenRequests \subseteq Counter!OpenRequests'
        BY <1>2, <1>3, <2>2, <2>9, <3>1, PurchaseWritten
      <3> QED
        BY <1>2, <2>6, <2>7, <2>8, <3>2 DEF VisitSound, Visits, Before
    <2>10. Counter!Commits(q, r.ask.id, n, a) /\ RowSound(n) /\ IsVisit(a)
           /\ (purchase[r.ask.id] # Absent => n.owner = purchase[r.ask.id].owner /\ n.asked = purchase[r.ask.id].asked)
      BY <1>3, <1>5, <2>1, <2>2, <2>3, <2>5, <2>6
    <2>11. a.ask = visit[q].ask /\ a.always = visit[q].always
      BY <1>1, <2>7
    <2> QED
      BY <1>2, <2>9, <2>10, <2>11, PageCommitted
  <1>6. CASE Counter!RefusedAt(q, "ErrNotRefundable")
    BY <1>1, <1>2, <1>6, TurnRefused DEF TurnRefusals
  <1> QED
    BY <1>1, <1>3, <1>5, <1>6, SMTT(30) DEF Counter!Refund

-----------------------------------------------------------------------------
(* The statements that read, and what dresses the answer.                  *)
LEMMA PageListed ==
  ASSUME CounterInv, NEW q \in Callers, Counter!List(q)
  PROVE  CounterInv'
  <1>1. PICK r : r = visit[q]
    OBVIOUS
  <1>2. VisitSound(r) /\ IsVisit(r) /\ r.at = "list" /\ UNCHANGED <<purchase, kept, now>>
    BY <1>1 DEF CounterInv, VisitSound, Counter!List
  <1>3. CASE Counter!Becomes(q, [r EXCEPT !.at = "count", !.rows = [o \in Counter!Matching(r.ask) |-> purchase[o]]])
    <2>1. PICK n : n = [r EXCEPT !.at = "count", !.rows = [o \in Counter!Matching(r.ask) |-> purchase[o]]]
      OBVIOUS
    <2>2. /\ IsVisit(n) /\ n.ask = r.ask /\ n.always = r.always /\ n.err = r.err /\ n.made = r.made
          /\ n.rows = [o \in Counter!Matching(r.ask) |-> purchase[o]] /\ n.at = "count"
      BY <1>2, <2>1 DEF IsVisit
    <2>3. DOMAIN n.rows = Counter!Matching(n.ask)
      BY <2>2
    <2>4. n.ask.who # Root => \A o \in DOMAIN n.rows : n.rows[o].owner = n.ask.who
      BY <2>2 DEF Counter!Matching
    <2>5. VisitSound(n)
      BY <1>2, <2>2, <2>3, <2>4 DEF VisitSound, Visits, Before
    <2> QED
      BY <1>2, <1>3, <2>1, <2>5, PageRead, CopiesStand DEF Counter!Becomes
  <1>4. CASE Counter!Loses(q, "read", Counter!Refused(r, "fault"))
    <2>1. visit[q].at \in Before \ {"none"}
      BY <1>1, <1>2 DEF Before, Visits
    <2> QED
      BY <1>1, <1>2, <1>4, <2>1, ReadLost
  <1> QED
    BY <1>1, <1>3, <1>4, SMTT(30) DEF Counter!List

LEMMA PageCounted ==
  ASSUME CounterInv, NEW q \in Callers, Counter!Count(q)
  PROVE  CounterInv'
  <1>1. PICK r : r = visit[q]
    OBVIOUS
  <1>2. VisitSound(r) /\ IsVisit(r) /\ r.at = "count" /\ UNCHANGED <<purchase, kept, now>>
    BY <1>1 DEF CounterInv, VisitSound, Counter!Count
  <1>3. CASE Counter!Becomes(q, [r EXCEPT !.at = "events", !.total = Counter!Cardinality(Counter!Matching(r.ask))])
    <2>1. PICK n : n = [r EXCEPT !.at = "events", !.total = Counter!Cardinality(Counter!Matching(r.ask))]
      OBVIOUS
    <2>2. /\ IsVisit(n) /\ n.ask = r.ask /\ n.always = r.always /\ n.err = r.err /\ n.made = r.made /\ n.rows = r.rows
          /\ n.total = Counter!Cardinality(Counter!Matching(r.ask)) /\ n.at = "events"
      BY <1>2, <2>1 DEF IsVisit
    <2>3. ASSUME r.ask.want = {} PROVE n.total >= Cardinality(DOMAIN n.rows)
      <3>1. PICK T : T = Counter!Matching(r.ask)
        OBVIOUS
      <3>2. T \subseteq PageOrders
        BY <3>1 DEF Counter!Matching, Counter!Made
      <3>3. IsFiniteSet(T)
        BY <3>2, PageAsked, FS_Subset
      <3>4. PICK S : S = DOMAIN r.rows
        OBVIOUS
      <3>5. S \subseteq T
        BY <1>2, <2>3, <3>1, <3>4 DEF VisitSound
      <3>6. Cardinality(S) \in Nat /\ Cardinality(T) \in Nat /\ Cardinality(S) <= Cardinality(T)
        BY <3>3, <3>5, FS_Subset, FS_CardinalityType
      <3>7. n.total = Cardinality(T)
        BY <2>2, <3>1, CountedAlike
      <3>8. DOMAIN n.rows = S
        BY <2>2, <3>4
      <3> QED
        BY <3>6, <3>7, <3>8
    <2>4. Page(n)
      BY <1>2, <2>2, <2>3 DEF VisitSound, Page
    <2>5. VisitSound(n)
      BY <1>2, <2>2, <2>4 DEF VisitSound, Visits, Before
    <2> QED
      BY <1>2, <1>3, <2>1, <2>5, PageRead, CopiesStand DEF Counter!Becomes
  <1>4. CASE Counter!Loses(q, "read", Counter!Refused(r, "fault"))
    <2>1. visit[q].at \in Before \ {"none"}
      BY <1>1, <1>2 DEF Before, Visits
    <2> QED
      BY <1>1, <1>2, <1>4, <2>1, ReadLost
  <1> QED
    BY <1>1, <1>3, <1>4, SMTT(30) DEF Counter!Count

LEMMA AnswerSound ==
  ASSUME NEW r, VisitSound(r), r.at \in {"events", "refunds"}, NEW n, IsVisit(n), n.ask = r.ask, n.always = r.always,
         n.at = "done", n.err = r.err, n.rows = r.rows, n.total = r.total, n.status = Counter!Success(r.ask),
         n.lost = {} => n.always \cap DOMAIN n.rows \subseteq n.badges
  PROVE  VisitSound(n)
  <1>1. /\ r.ask \in Asks /\ r.always \subseteq Counter!OpenRequests /\ r.err = "" /\ Page(r)
    BY DEF VisitSound
  <1>2. n.status < 300
    BY DEF Counter!Success
  <1>3. Page(n)
    BY <1>1 DEF Page
  <1>4. Explained(n)
    BY <1>1 DEF Explained
  <1>5. n.err # "fault"
    BY <1>1
  <1>6. DoneWell(n)
    BY <1>2, <1>3, <1>4, <1>5 DEF DoneWell
  <1> QED
    BY <1>1, <1>6 DEF VisitSound, Visits, Before

LEMMA EventsFound ==
  ASSUME CounterInv, NEW q \in Callers, Counter!withEvents(q)
  PROVE  CounterInv'
  <1>1. PICK r : r = visit[q]
    OBVIOUS
  <1>2. VisitSound(r) /\ IsVisit(r) /\ r.at = "events" /\ UNCHANGED <<purchase, kept, now>>
    BY <1>1 DEF CounterInv, VisitSound, Counter!withEvents
  <1>3. PICK f : f = Counter!Answered(r, Counter!Success(r.ask))
    OBVIOUS
  <1>4. IsVisit(f) /\ Same(f, r) /\ f.at = "done" /\ f.err = r.err /\ f.status = Counter!Success(r.ask)
    BY <1>2, <1>3, AnsweredFields
  <1>5. CASE DOMAIN r.rows = {} /\ Counter!Becomes(q, f)
    <2>1. f.ask = r.ask /\ f.always = r.always /\ f.rows = r.rows /\ f.total = r.total
      BY <1>4 DEF Same
    <2>2. f.always \cap DOMAIN f.rows \subseteq f.badges
      BY <1>5, <2>1
    <2>3. VisitSound(f)
      BY <1>2, <1>4, <2>1, <2>2, AnswerSound
    <2> QED
      BY <1>2, <1>5, <2>3, PageRead, CopiesStand DEF Counter!Becomes
  <1>6. CASE Counter!Becomes(q, [r EXCEPT !.at = "refunds"])
    <2>1. PICK n : n = [r EXCEPT !.at = "refunds"]
      OBVIOUS
    <2>2. /\ IsVisit(n) /\ n.ask = r.ask /\ n.always = r.always /\ n.err = r.err /\ n.made = r.made /\ n.rows = r.rows
          /\ n.total = r.total /\ n.at = "refunds"
      BY <1>2, <2>1 DEF IsVisit
    <2>3. Page(n)
      BY <1>2, <2>2 DEF VisitSound, Page
    <2>4. VisitSound(n)
      BY <1>2, <2>2, <2>3 DEF VisitSound, Visits, Before
    <2> QED
      BY <1>2, <1>6, <2>1, <2>4, PageRead, CopiesStand DEF Counter!Becomes
  <1>7. CASE Counter!Loses(q, "events", f)
    <2>1. PICK n : n = [f EXCEPT !.lost = @ \cup {"events"}]
      OBVIOUS
    <2>2. IsVisit(n) /\ Same(n, f) /\ n.at = f.at /\ n.err = f.err /\ n.status = f.status /\ "events" \in n.lost
      BY <1>4, <2>1, LostFields
    <2>3. n.ask = r.ask /\ n.always = r.always /\ n.rows = r.rows /\ n.total = r.total
      BY <1>4, <2>2 DEF Same
    <2>4. VisitSound(n)
      BY <1>2, <1>4, <2>2, <2>3, AnswerSound
    <2> QED
      BY <1>2, <1>7, <2>1, <2>4, PageRead, CopiesStand DEF Counter!Loses, Counter!Becomes
  <1> QED
    BY <1>1, <1>3, <1>5, <1>6, <1>7 DEF Counter!withEvents, Counter!EventsFail

LEMMA BadgesFound ==
  ASSUME CounterInv, NEW q \in Callers, Counter!OpenByOrders(q)
  PROVE  CounterInv'
  <1>1. PICK r : r = visit[q]
    OBVIOUS
  <1>2. /\ VisitSound(r) /\ IsVisit(r) /\ r.at = "refunds" /\ UNCHANGED <<purchase, kept, now>>
        /\ r.always \subseteq Counter!OpenRequests
    BY <1>1 DEF CounterInv, VisitSound, Counter!OpenByOrders
  <1>3. CASE Counter!Becomes(q, Counter!Answered([r EXCEPT !.badges = Counter!OpenRequests \cap DOMAIN r.rows],
                                                 Counter!Success(r.ask)))
    <2>1. PICK b : b = [r EXCEPT !.badges = Counter!OpenRequests \cap DOMAIN r.rows]
      OBVIOUS
    <2>2. /\ IsVisit(b) /\ b.ask = r.ask /\ b.always = r.always /\ b.err = r.err /\ b.rows = r.rows /\ b.total = r.total
          /\ b.badges = Counter!OpenRequests \cap DOMAIN r.rows
      BY <1>2, <2>1 DEF IsVisit
    <2>3. PICK n : n = Counter!Answered(b, Counter!Success(r.ask))
      OBVIOUS
    <2>4. IsVisit(n) /\ Same(n, b) /\ n.at = "done" /\ n.err = b.err /\ n.status = Counter!Success(r.ask)
      <3>1. IsVisit(b)
        BY <2>2
      <3> QED
        BY <2>3, <3>1, AnsweredFields
    <2>5. n.ask = r.ask /\ n.always = r.always /\ n.rows = r.rows /\ n.total = r.total /\ n.badges = b.badges
      BY <2>2, <2>4 DEF Same
    <2>6. n.always \cap DOMAIN n.rows \subseteq n.badges
      BY <1>2, <2>2, <2>5
    <2>7. VisitSound(n)
      BY <1>2, <2>2, <2>4, <2>5, <2>6, AnswerSound
    <2> QED
      BY <1>2, <1>3, <2>1, <2>3, <2>7, PageRead, CopiesStand DEF Counter!Becomes
  <1>4. CASE Counter!Loses(q, "refunds", Counter!Answered(r, Counter!Success(r.ask)))
    <2>1. PICK f : f = Counter!Answered(r, Counter!Success(r.ask))
      OBVIOUS
    <2>2. IsVisit(f) /\ Same(f, r) /\ f.at = "done" /\ f.err = r.err /\ f.status = Counter!Success(r.ask)
      BY <1>2, <2>1, AnsweredFields
    <2>3. PICK n : n = [f EXCEPT !.lost = @ \cup {"refunds"}]
      OBVIOUS
    <2>4. IsVisit(n) /\ Same(n, f) /\ n.at = f.at /\ n.err = f.err /\ n.status = f.status /\ "refunds" \in n.lost
      BY <2>2, <2>3, LostFields
    <2>5. n.ask = r.ask /\ n.always = r.always /\ n.rows = r.rows /\ n.total = r.total
      BY <2>2, <2>4 DEF Same
    <2>6. VisitSound(n)
      BY <1>2, <2>2, <2>4, <2>5, AnswerSound
    <2> QED
      BY <1>2, <1>4, <2>1, <2>3, <2>6, PageRead, CopiesStand DEF Counter!Loses, Counter!Becomes
  <1> QED
    BY <1>1, <1>3, <1>4, SMTT(30) DEF Counter!OpenByOrders

-----------------------------------------------------------------------------
(* The rest of the system moves an order; it stays made and its owner's.   *)
LEMMA OrderMovedElsewhere ==
  ASSUME CounterInv, NEW o \in PageOrders, Counter!Elsewhere(o)
  PROVE  CounterInv'
  <1>1. PICK line : line = purchase[o]
    OBVIOUS
  <1>2. line # Absent /\ RowSound(line) /\ IsRow(line) /\ UNCHANGED <<kept, now>>
    BY <1>1 DEF CounterInv, PurchasesSound, RowSound, Counter!Elsewhere, Absent
  <1>3. \E n : purchase' = [purchase EXCEPT ![o] = n] /\ RowSound(n) /\ n.owner = line.owner
    <2>1. ASSUME purchase' = [purchase EXCEPT ![o].payment = TRUE]
          PROVE  \E n : purchase' = [purchase EXCEPT ![o] = n] /\ RowSound(n) /\ n.owner = line.owner
      <3>1. PICK n : n = [line EXCEPT !.payment = TRUE]
        OBVIOUS
      <3>2. /\ IsRow(n) /\ n.status = line.status /\ n.owner = line.owner /\ n.name = line.name
            /\ n.confirmed = line.confirmed /\ n.since = line.since /\ n.cart = line.cart /\ n.hold = line.hold
            /\ n.charges = line.charges /\ n.refunds = line.refunds
        BY <1>2, <3>1 DEF IsRow
      <3>3. Named(n) <=> Named(line)
        BY <3>2, NamedAlike
      <3>4. RowSound(n)
        BY <1>2, <3>2, <3>3 DEF RowSound
      <3>5. purchase' = [purchase EXCEPT ![o] = n]
        BY <1>1, <2>1, <3>1
      <3> QED
        BY <3>2, <3>4, <3>5
    <2>2. ASSUME NEW standing \in {"paid", "refund_required", "expired", "refunded"},
                 purchase' = [purchase EXCEPT ![o].status = standing, ![o].asked = FALSE]
          PROVE  \E n : purchase' = [purchase EXCEPT ![o] = n] /\ RowSound(n) /\ n.owner = line.owner
      <3>1. PICK n : n = [line EXCEPT !.status = standing, !.asked = FALSE]
        OBVIOUS
      <3>2. /\ IsRow(n) /\ n.status = standing /\ n.owner = line.owner /\ n.name = line.name
            /\ n.confirmed = line.confirmed /\ n.since = line.since /\ n.cart = line.cart /\ n.hold = line.hold
            /\ n.charges = line.charges /\ n.refunds = line.refunds
        BY <1>2, <3>1 DEF IsRow
      <3>3. Named(n) <=> Named(line)
        BY <3>2, NamedAlike
      <3>4. standing # "none"
        OBVIOUS
      <3>5. RowSound(n)
        BY <1>2, <3>2, <3>3, <3>4 DEF RowSound
      <3>6. purchase' = [purchase EXCEPT ![o] = n]
        BY <1>1, <2>2, <3>1 DEF CounterInv, PurchasesSound
      <3> QED
        BY <3>2, <3>5, <3>6
    <2>3. ASSUME purchase' = [purchase EXCEPT ![o].asked = ~@]
          PROVE  \E n : purchase' = [purchase EXCEPT ![o] = n] /\ RowSound(n) /\ n.owner = line.owner
      <3>1. PICK n : n = [line EXCEPT !.asked = ~@]
        OBVIOUS
      <3>2. /\ IsRow(n) /\ n.status = line.status /\ n.owner = line.owner /\ n.name = line.name
            /\ n.confirmed = line.confirmed /\ n.since = line.since /\ n.cart = line.cart /\ n.hold = line.hold
            /\ n.charges = line.charges /\ n.refunds = line.refunds
        BY <1>2, <3>1 DEF IsRow
      <3>3. Named(n) <=> Named(line)
        BY <3>2, NamedAlike
      <3>4. RowSound(n)
        BY <1>2, <3>2, <3>3 DEF RowSound
      <3>5. purchase' = [purchase EXCEPT ![o] = n]
        BY <1>1, <2>3, <3>1
      <3> QED
        BY <3>2, <3>4, <3>5
    <2> QED
      BY <2>1, <2>2, <2>3 DEF Counter!Elsewhere
  <1>4. PICK n : purchase' = [purchase EXCEPT ![o] = n] /\ RowSound(n) /\ n.owner = line.owner
    BY <1>3
  <1>5. /\ purchase' = [p \in PageOrders |-> purchase'[p]] /\ purchase'[o] = n
        /\ \A p \in PageOrders : p # o => purchase'[p] = purchase[p]
    BY <1>4 DEF CounterInv, PurchasesSound
  <1>6. n # Absent
    <2>1. n.status # "none"
      BY <1>4 DEF RowSound
    <2>2. Absent.status = "none"
      BY DEF Absent, Counter!NoOrder
    <2> QED
      BY <2>1, <2>2
  <1>7. PurchasesSound'
    <2>1. \A p \in PageOrders : purchase'[p] # Absent => RowSound(purchase[p])'
      BY <1>2, <1>4, <1>5 DEF CounterInv, PurchasesSound, RowSound
    <2> QED
      BY <1>2, <1>5, <2>1, SMTT(30) DEF CounterInv, PurchasesSound
  <1>8. PurchasesGrow
    BY <1>1, <1>4, <1>5, <1>6 DEF PurchasesGrow
  <1>9. CopiesSound'
    BY <1>2, <1>8 DEF CounterInv, CopiesSound, PurchasesGrow
  <1>10. PICK open : open = {p \in Counter!Made : purchase'[p].asked}
    OBVIOUS
  <1>11. open \subseteq Counter!OpenRequests'
    BY <1>8, <1>10 DEF Counter!OpenRequests, Counter!Made, PurchasesGrow, Absent
  <1>12. visit' = [q \in Callers |-> [visit[q] EXCEPT !.always = @ \cap open]]
    BY <1>10 DEF Counter!Elsewhere
  <1>13. ASSUME NEW q \in Callers PROVE VisitSound(visit[q])'
    <2>1. PICK r : r = visit[q]
      BY SMTT(30)
    <2>2. VisitSound(r) /\ IsVisit(r)
      BY <2>1 DEF CounterInv, VisitSound
    <2>3. PICK m : m = [r EXCEPT !.always = @ \cap open]
      OBVIOUS
    <2>4. /\ IsVisit(m) /\ m.at = r.at /\ m.err = r.err /\ m.status = r.status /\ m.unanswered = r.unanswered
          /\ m.lost = r.lost /\ m.held = r.held /\ m.always = r.always \cap open
      BY <2>2, <2>3 DEF IsVisit
    <2>5. Same([m EXCEPT !.always = r.always], r)
      BY <2>2, <2>3 DEF IsVisit, Same
    <2>6. m.always \subseteq r.always /\ m.always \subseteq Counter!OpenRequests'
      BY <1>11, <2>4
    <2>7. VisitSound(m)'
      BY <1>8, <2>2, <2>4, <2>5, <2>6, VisitTouched
    <2>8. visit'[q] = m
      BY <1>12, <2>1, <2>3
    <2> QED
      BY <2>7, <2>8
  <1>14. visit' = [q \in Callers |-> visit'[q]]
    BY <1>12
  <1> QED
    BY <1>7, <1>9, <1>13, <1>14, SMTT(30) DEF CounterInv

LEMMA VisitSteady == ASSUME NEW r, VisitSound(r), UNCHANGED purchase PROVE VisitSound(r)'
  <1>1. Counter!OpenRequests' = Counter!OpenRequests
    BY DEF Counter!OpenRequests, Counter!Made
  <1> QED
    BY <1>1, ZenonT(60) DEF VisitSound, DoneWell, Explained, Page, Nameless, Counter!Matching, Counter!Made

LEMMA SecondPasses == ASSUME CounterInv, Counter!Tick PROVE CounterInv'
  <1>1. now \in Nat /\ now' = now + 1 /\ now' \in Nat /\ now <= now'
    BY DEF CounterInv, PurchasesSound, Counter!Tick
  <1>2. UNCHANGED <<purchase, visit>> /\ kept' = [o \in PageOrders |-> Absent]
    BY DEF Counter!Tick, Absent
  <1>3. ASSUME NEW line, RowSound(line) PROVE RowSound(line)'
    <2>1. line.since \in Nat /\ line.since <= now
      BY <1>3 DEF RowSound
    <2>2. line.since <= now'
      BY <1>1, <2>1
    <2> QED
      BY <1>3, <2>2 DEF RowSound
  <1>4. \A o \in PageOrders : purchase'[o] # Absent => RowSound(purchase[o])'
    BY <1>2, <1>3 DEF CounterInv, PurchasesSound
  <1>5. PurchasesSound'
    BY <1>1, <1>2, <1>4 DEF CounterInv, PurchasesSound
  <1>6. CopiesSound'
    BY <1>2 DEF CopiesSound
  <1>7. \A q \in Callers : VisitSound(visit[q])'
    <2>1. ASSUME NEW r, VisitSound(r) PROVE VisitSound(r)'
      BY <1>2, <2>1, VisitSteady
    <2>2. \A q \in Callers : VisitSound(visit[q]) /\ visit'[q] = visit[q]
      BY <1>2 DEF CounterInv
    <2> QED
      BY <2>1, <2>2
  <1> QED
    BY <1>2, <1>5, <1>6, <1>7 DEF CounterInv

LEMMA CounterStart == Counter!Init => CounterInv
  <1> SUFFICES ASSUME Counter!Init PROVE CounterInv
    OBVIOUS
  <1>1. now = 0 /\ kept = [o \in PageOrders |-> Absent] /\ visit = [q \in Callers |-> Counter!Gone]
    BY DEF Counter!Init, Absent
  <1>2. PICK line \in {Counter!Cart, Counter!Settled} : purchase = [o \in PageOrders |-> IF o = First THEN line ELSE Absent]
    BY DEF Counter!Init, Absent
  <1>3. PICK cart : cart = Counter!Cart
    OBVIOUS
  <1>4. cart = [status |-> "pending_payment", owner |-> Owner, name |-> "", city |-> FALSE, confirmed |-> FALSE,
                since |-> 0, cart |-> CartHoldFor, hold |-> CartHoldFor, charges |-> 0, payment |-> FALSE,
                refunds |-> 0, asked |-> FALSE]
    BY <1>3 DEF Counter!Cart, Counter!NewOrder
  <1>5. /\ IsRow(cart) /\ cart.status = "pending_payment" /\ cart.confirmed = FALSE /\ cart.since = 0
        /\ cart.cart = CartHoldFor /\ cart.hold = CartHoldFor /\ cart.charges = 0 /\ cart.refunds = 0
    BY <1>4 DEF IsRow
  <1>6. RowSound(cart)
    <2>1. now = 0 /\ CartHoldFor \in Nat
      BY <1>1, PageAsked
    <2> QED
      BY <1>5, <2>1 DEF RowSound
  <1>7. PICK paid : paid = Counter!Settled
    OBVIOUS
  <1>8. /\ IsRow(paid) /\ paid.status = "paid" /\ paid.confirmed = TRUE /\ paid.since = 0 /\ paid.name = Legal[Owner]
        /\ paid.cart = CartHoldFor /\ paid.hold = Counter!Later(CartHoldFor, HoldFor) /\ paid.charges = 1
        /\ paid.refunds = 0
    BY <1>3, <1>5, <1>7 DEF Counter!Settled, IsRow
  <1>9. Named(paid)
    BY <1>8, PageAsked DEF Named
  <1>10. RowSound(paid)
    <2>1. CartHoldFor \in Nat \ {0} /\ HoldFor \in Nat \ {0}
      BY PageAsked
    <2>2. paid.hold \in Nat /\ paid.hold = Counter!Later(paid.cart, paid.since + HoldFor)
      <3>1. paid.since + HoldFor = HoldFor
        BY <1>8, <2>1
      <3>2. paid.hold \in Nat
        BY <1>8, <2>1 DEF Counter!Later
      <3> QED
        BY <1>8, <3>1, <3>2
    <2> QED
      BY <1>1, <1>8, <1>9, <2>1, <2>2 DEF RowSound
  <1>11. RowSound(line)
    BY <1>2, <1>3, <1>6, <1>7, <1>10
  <1>12. PurchasesSound
    BY <1>1, <1>2, <1>11 DEF PurchasesSound
  <1>13. CopiesSound
    BY <1>1 DEF CopiesSound
  <1>14. \A q \in Callers : VisitSound(visit[q])
    <2>1. /\ IsVisit(Counter!Gone) /\ Counter!Gone.at = "none" /\ Counter!Gone.always = {} /\ Counter!Gone.err = ""
          /\ Counter!Gone.made = FALSE
      BY DEF Counter!Gone, IsVisit
    <2>2. VisitSound(Counter!Gone)
      BY <2>1 DEF VisitSound, Visits, Before
    <2> QED
      BY <1>1, <2>2
  <1> QED
    BY <1>1, <1>12, <1>13, <1>14 DEF CounterInv

LEMMA CounterKept == CounterInv /\ [Counter!Next]_counterVars => CounterInv'
  <1> SUFFICES ASSUME CounterInv, [Counter!Next]_counterVars PROVE CounterInv'
    OBVIOUS
  <1>1. CASE UNCHANGED counterVars
    <2>1. UNCHANGED <<purchase, kept, now, visit>>
      BY <1>1 DEF counterVars
    <2> QED
      <3>1. PurchasesSound' /\ CopiesSound'
        BY <2>1 DEF CounterInv, PurchasesSound, RowSound, CopiesSound
      <3>2. ASSUME NEW r, VisitSound(r) PROVE VisitSound(r)'
        BY <2>1, <3>2, VisitSteady
      <3>3. \A q \in Callers : VisitSound(visit[q]) /\ visit'[q] = visit[q]
        BY <2>1 DEF CounterInv
      <3>4. \A q \in Callers : VisitSound(visit[q])'
        BY <3>2, <3>3
      <3> QED
        BY <2>1, <3>1, <3>4, SMTT(30) DEF CounterInv
  <1>2. CASE Counter!Next
    <2>1. ASSUME NEW q \in Callers, NEW ask \in Asks, Counter!Arrives(q, ask) PROVE CounterInv'
      BY <2>1, PageArrives
    <2>2. ASSUME NEW q \in Callers,
                 Counter!audienceFor(q) \/ Counter!withProfileDetails(q) \/ Counter!GetByID(q) \/ Counter!Keeps(q)
          PROVE  CounterInv'
      BY <2>2, AudienceFound, ProfileRead, OrderLoaded, OrderKept
    <2>3. ASSUME NEW q \in Callers, Counter!Confirm(q) \/ Counter!Start(q) \/ Counter!Cancel(q) \/ Counter!Refund(q)
          PROVE  CounterInv'
      BY <2>3, OrderConfirmed, CheckoutStarted, OrderCancelled, OrderRefunded
    <2>4. ASSUME NEW q \in Callers,
                 Counter!List(q) \/ Counter!Count(q) \/ Counter!withEvents(q) \/ Counter!OpenByOrders(q)
          PROVE  CounterInv'
      BY <2>4, PageListed, PageCounted, EventsFound, BadgesFound
    <2>5. ASSUME NEW o \in PageOrders, Counter!Elsewhere(o) PROVE CounterInv'
      BY <2>5, OrderMovedElsewhere
    <2>6. CASE Counter!Tick
      BY <2>6, SecondPasses
    <2> QED
      BY <1>2, <2>1, <2>2, <2>3, <2>4, <2>5, <2>6 DEF Counter!Next
  <1> QED
    BY <1>1, <1>2

-----------------------------------------------------------------------------
(* The house.                                                              *)

(* The invariants of the parts are their types and more.                   *)
LEMMA PicturesSafe == PicturesInv => Pictures!TypeOK
  <1> SUFFICES ASSUME PicturesInv PROVE Pictures!TypeOK
    OBVIOUS
  <1>1. MaxPictures \in Nat /\ IsFiniteSet(Callers)
    BY HouseAssumption, CountedAlike DEF Pictures!GalleryAssumption
  <1>2. PICK n : n = Cardinality(Pending)
    OBVIOUS
  <1>3. n \in Nat
    <2>1. Pending \subseteq Callers
      BY DEF Pending
    <2> QED
      BY <1>1, <1>2, <2>1, FS_Subset, FS_CardinalityType
  <1>4. ASSUME NEW m \in Pictures!Rows PROVE m \in 1..named /\ gallery[m] \in 0..MaxPictures
    <2>1. m \in 1..named /\ gallery[m] \in Nat /\ gallery[m] + 1 + n <= named /\ named \in 0..MaxPictures
      BY <1>2, <1>4 DEF PicturesInv, Placed, PicturesShape
    <2> QED
      BY <1>1, <1>3, <2>1
  <1> QED
    BY <1>4 DEF PicturesInv, PicturesShape, Pictures!TypeOK

LEMMA ShowsSafe == ShowsInv => Shows!TypeOK
  <1> SUFFICES ASSUME ShowsInv, NEW e \in EventIds, events[e] # Shows!Absent
               PROVE  /\ events[e].status \in Shows!Statuses /\ events[e].pin \in Shows!Pins
                      /\ events[e].slug \in EventIds \cup {"name"}
    BY DEF Shows!TypeOK
  <1>1. events[e] \in ShowRows
    BY DEF ShowsInv, ShowsShape
  <1> QED
    BY <1>1 DEF ShowRows

LEMMA FeedSafe == FeedInv => Feed!TypeOK
  <1> SUFFICES ASSUME FeedInv PROVE Feed!TypeOK
    OBVIOUS
  <1>1. sequence \in 1..MaxVersion
    BY DEF FeedInv, FeedShape
  <1>2. ASSUME NEW s \in Seats
        PROVE  seat[s].status \in {"available", "held", "sold"} /\ seat[s].version \in 1..sequence
    BY DEF FeedInv, FeedShape, NumberedOnce, Chairs, Standings
  <1>3. ASSUME NEW c \in Clients PROVE screen[c].cursor \in 0..sequence
    <2>1. screen[c].cursor \in Nat /\ screen[c].cursor <= sequence
      BY DEF FeedInv, FeedShape
    <2> QED
      BY <1>1, <2>1
  <1> QED
    BY <1>1, <1>2, <1>3 DEF Feed!TypeOK

(* Each part keeps its invariant while it moves.                           *)
HouseInv ==
    /\ DoorInv
    /\ part = "shows" => ShowsInv
    /\ part = "pictures" => PicturesInv
    /\ part = "plan" => PlanInv
    /\ part = "feed" => FeedInv
    /\ part = "box" => BoxInv
    /\ part = "counter" => CounterInv

LEMMA HouseStarts == HouseInit => HouseInv
  <1> SUFFICES ASSUME HouseInit PROVE HouseInv
    OBVIOUS
  <1>1. DoorInv
    BY InitDoor DEF HouseInit
  <1>2. ShowsInv /\ PicturesInv /\ FeedInv
    BY ShowsStart, PicturesStart, FeedStart DEF HouseInit
  <1>3. part = "plan" => PlanInv
    BY PlanStart DEF HouseInit
  <1>4. part = "box" => BoxInv
    BY BoxStart DEF HouseInit
  <1>5. part = "counter" => CounterInv
    BY CounterStart DEF HouseInit
  <1> QED
    BY <1>1, <1>2, <1>3, <1>4, <1>5 DEF HouseInv

(* A step is one part's, and the other parts stand still.                  *)
LEMMA OnePartMoves ==
  ASSUME [HouseNext]_houseVars
  PROVE  /\ part' = part
         /\ [Next]_vars
         /\ part = "shows" => [Shows!Next]_showsVars
         /\ part = "pictures" => [Pictures!Next]_picturesVars
         /\ part = "plan" => [Plan!Next]_planVars
         /\ part = "feed" => [Feed!Next]_feedVars
         /\ part = "box" => [Box!Next]_boxVars
         /\ part = "counter" => [Counter!Next]_counterVars
  <1>1. CASE DoorMoves
    BY <1>1 DEF DoorMoves
  <1>2. CASE ShowsMove
    BY <1>2 DEF ShowsMove
  <1>3. CASE PicturesMove
    BY <1>3 DEF PicturesMove
  <1>4. CASE RoomMoves
    BY <1>4 DEF RoomMoves
  <1>5. CASE PlanMoves
    BY <1>5 DEF PlanMoves
  <1>6. CASE FeedMoves
    BY <1>6 DEF FeedMoves
  <1>7. CASE BoxMoves
    BY <1>7 DEF BoxMoves
  <1>8. CASE CounterMoves
    BY <1>8 DEF CounterMoves
  <1>9. CASE UNCHANGED houseVars
    BY <1>9 DEF houseVars
  <1> QED
    BY <1>1, <1>2, <1>3, <1>4, <1>5, <1>6, <1>7, <1>8, <1>9 DEF HouseNext

LEMMA HouseStep == HouseInv /\ [HouseNext]_houseVars => HouseInv'
  <1> SUFFICES ASSUME HouseInv, [HouseNext]_houseVars PROVE HouseInv'
    OBVIOUS
  <1>1. DoorInv'
    BY OnePartMoves, DoorStep DEF HouseInv
  <1>2. (part = "shows" => ShowsInv)'
    BY OnePartMoves, ShowsKept DEF HouseInv
  <1>3. (part = "pictures" => PicturesInv)'
    BY OnePartMoves, PicturesKept DEF HouseInv
  <1>4. (part = "plan" => PlanInv)'
    BY OnePartMoves, PlanKept DEF HouseInv
  <1>5. (part = "feed" => FeedInv)'
    BY OnePartMoves, FeedKept DEF HouseInv
  <1>6. (part = "box" => BoxInv)'
    BY OnePartMoves, BoxKept DEF HouseInv
  <1>7. (part = "counter" => CounterInv)'
    BY OnePartMoves, CounterKept DEF HouseInv
  <1> QED
    BY <1>1, <1>2, <1>3, <1>4, <1>5, <1>6, <1>7 DEF HouseInv

(* The house is a door that others share the building with: what is proved *)
(* of the door alone holds in it.                                          *)
THEOREM DoorInTheHouse == HouseSpec => Spec
  <1>1. HouseInit => Init
    BY DEF HouseInit
  <1>2. [HouseNext]_houseVars => [Next]_vars
    BY OnePartMoves
  <1> QED
    BY <1>1, <1>2, PTL DEF HouseSpec, Spec

(* Every part stays in its type.                                           *)
THEOREM HouseTyped == HouseSpec => []HouseTypes
  <1>1. HouseInv => HouseTypes
    <2> SUFFICES ASSUME HouseInv PROVE HouseTypes
      OBVIOUS
    <2>1. TypeOK
      BY DEF HouseInv, DoorInv
    <2> QED
      BY <2>1, ShowsSafe, PicturesSafe, PlanSafe, FeedSafe, BoxSafe, CounterSafe DEF HouseInv, HouseTypes
  <1> QED
    BY <1>1, HouseStarts, HouseStep, PTL DEF HouseSpec

(* However many edits cross, an address leads to one event; no row points  *)
(* at bytes that are gone, whoever dies half way; one caller cuts a night, *)
(* no place of it twice, and no floor takes more than it holds, though     *)
(* drawings are saved meanwhile, two of them at a time; and a tier never   *)
(* owes more than it has nor shows for long after it left the sale.        *)
THEOREM CatalogueStaysSound == HouseSpec => []CatalogueSound
  <1>1. HouseInv => CatalogueSound
    BY PlanSafe, BoxSafe DEF HouseInv, CatalogueSound, ShowsInv, PicturesInv
  <1> QED
    BY <1>1, HouseStarts, HouseStep, PTL DEF HouseSpec

(* An order's own page tells what was done, confirms once, shows no one    *)
(* else's order, and refuses for a reason that is true.                    *)
THEOREM OrderPageStaysSound == HouseSpec => []OrderPageSound
  <1>1. HouseInv => OrderPageSound
    BY CounterSafe DEF HouseInv, OrderPageSound
  <1> QED
    BY <1>1, HouseStarts, HouseStep, PTL DEF HouseSpec

(* However old the map a buyer chooses from, a chair in someone's hands is *)
(* never given to another.                                                 *)
THEOREM OldMapsSellNothing == HouseSpec => OldMapSellsNothingTwice
  <1>1. HouseInv /\ [HouseNext]_houseVars => [part = "feed" => Feed!OldMapSellsNothing]_houseVars
    BY OnePartMoves, FeedKept DEF HouseInv
  <1> QED
    BY <1>1, HouseStarts, HouseStep, PTL DEF HouseSpec, OldMapSellsNothingTwice
=============================================================================
