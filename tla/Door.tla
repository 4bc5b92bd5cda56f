-------------------------------- MODULE Door --------------------------------
(***************************************************************************)
(* The door: admissions are issued with the payment, withdrawn with the    *)
(* refund, and spent by scanners.                                          *)
(*                                                                         *)
(* Settlement and refund are transactions that hold the order's row.  A    *)
(* scan is not one: it reads the admission, reads the order through its    *)
(* cache, updates the admission if it is still issued, and reads it again  *)
(* when it lost, each a statement of its own that the others may come      *)
(* between.                                                                *)
(***************************************************************************)
EXTENDS Naturals

CONSTANTS
    Orders, Tickets,
    OrderOf,       \* the order a ticket was bought with
    Doors, Events,
    EventOf,       \* the event a ticket admits to
    DoorAt,        \* the event a scanner stands at
    Nobody         \* admitted_by of an admission nobody has spent

ASSUME DoorAssumption ==
    /\ OrderOf \in [Tickets -> Orders]
    /\ EventOf \in [Tickets -> Events]
    /\ DoorAt \in [Doors -> Events]
    /\ Nobody \notin Doors

VARIABLES
    order,     \* what settlement has made of each order
    copy,      \* the cache entry of an order, or "none"
    row,       \* the admissions table: status, and who spent it
    scan,      \* what each scanner has in hand, or shows
    entries    \* history: how often a ticket was answered "admitted"

vars == <<order, copy, row, scan, entries>>

-----------------------------------------------------------------------------
OrderStatuses == {"open", "paid", "refunded"}
Statuses == {"none", "issued", "admitted", "void"}
Refusals == {"already_admitted", "void", "wrong_event", "not_paid", "unknown"}
Answers == {"admitted", "fault"} \cup Refusals
Stages == {"idle", "check", "claim", "reread"} \cup Answers

TicketsOf(o) == {t \in Tickets : OrderOf[t] = o}
(* Mutant of Blank: a status left at its zero value.                       *)
BlankUnset == [status |-> "", by |-> Nobody]
Blank == [status |-> "none", by |-> Nobody]

(* An idle scanner has no ticket in hand; which one it last saw is kept     *)
(* only because a record needs a value.                                    *)
Init ==
    /\ order = [o \in Orders |-> "open"]
    /\ copy = [o \in Orders |-> "none"]
    /\ row = [t \in Tickets |-> Blank]
    /\ scan \in [Doors -> [stage : {"idle"}, ticket : Tickets, by : {Nobody}]]
    /\ entries = [t \in Tickets |-> 0]

Show(d, answer, by) ==
    scan' = [scan EXCEPT ![d] = [stage |-> answer, ticket |-> @.ticket, by |-> by]]

(* The settlement that makes an order paid issues all its admissions.      *)
Settle(o) ==
    /\ order[o] = "open"
    /\ order' = [order EXCEPT ![o] = "paid"]
    /\ row' = [t \in Tickets |-> IF t \in TicketsOf(o) /\ row[t] = Blank
                                 THEN [row[t] EXCEPT !.status = "issued"] ELSE row[t]]
    /\ UNCHANGED <<copy, scan, entries>>

(* Mutants: a refund that withdraws nothing, and one that erases who came. *)
VoidNothing(o) == row' = row
VoidAndErase(o) ==
    row' = [t \in Tickets |-> IF t \in TicketsOf(o) /\ row[t].status # "void"
                              THEN [status |-> "void", by |-> Nobody] ELSE row[t]]

(* Spent admissions are voided too; who spent them stays.                  *)
VoidForOrder(o) ==
    row' = [t \in Tickets |-> IF t \in TicketsOf(o) /\ row[t].status # "void"
                              THEN [row[t] EXCEPT !.status = "void"] ELSE row[t]]

Refund(o) ==
    /\ order[o] = "paid"
    /\ order' = [order EXCEPT ![o] = "refunded"]
    /\ VoidForOrder(o)
    /\ UNCHANGED <<copy, scan, entries>>

(* A read of an order leaves an entry that the transactions above do not   *)
(* drop; most readers are buyers who poll.                                 *)
Poll(o) ==
    /\ copy[o] = "none"
    /\ copy' = [copy EXCEPT ![o] = order[o]]
    /\ UNCHANGED <<order, row, scan, entries>>

CopyExpires(o) ==
    /\ copy[o] # "none"
    /\ copy' = [copy EXCEPT ![o] = "none"]
    /\ UNCHANGED <<order, row, scan, entries>>

Seen(o) == IF copy[o] = "none" THEN order[o] ELSE copy[o]

-----------------------------------------------------------------------------
(* What the first read of an admission already settles.  A code that was   *)
(* never issued finds no row.                                              *)
FirstAnswer(d, t) ==
    CASE row[t].status = "none" -> "unknown"
      [] row[t].status # "none" /\ EventOf[t] # DoorAt[d] -> "wrong_event"
      [] row[t].status = "void" /\ EventOf[t] = DoorAt[d] -> "void"
      [] row[t].status = "admitted" /\ EventOf[t] = DoorAt[d] -> "already_admitted"
      [] OTHER -> "check"

Present(d, t) ==
    /\ scan[d].stage = "idle"
    /\ scan' = [scan EXCEPT ![d] = [stage |-> FirstAnswer(d, t), ticket |-> t, by |-> row[t].by]]
    /\ UNCHANGED <<order, copy, row, entries>>

CheckOrder(d) ==
    /\ scan[d].stage = "check"
    /\ Show(d, IF Seen(OrderOf[scan[d].ticket]) = "paid" THEN "claim" ELSE "not_paid", scan[d].by)
    /\ UNCHANGED <<order, copy, row, entries>>

(* Mutant of MayAdmit: whoever has read an issued admission spends it.     *)
MayAdmitUnread(t) == row[t].status # "none"
MayAdmit(t) == row[t].status = "issued"

Admit(d, t) == row' = [row EXCEPT ![t] = [status |-> "admitted", by |-> d]]

(* One conditional UPDATE: this scanner let the holder in.                 *)
ClaimWins(d) ==
    LET t == scan[d].ticket IN
    /\ scan[d].stage = "claim" /\ MayAdmit(t)
    /\ Admit(d, t)
    /\ Show(d, "admitted", d)
    /\ entries' = [entries EXCEPT ![t] = @ + 1]
    /\ UNCHANGED <<order, copy>>

ClaimLoses(d) ==
    /\ scan[d].stage = "claim" /\ ~MayAdmit(scan[d].ticket)
    /\ Show(d, "reread", scan[d].by)
    /\ UNCHANGED <<order, copy, row, entries>>

(* The statement is committed and its answer is lost.                      *)
ClaimUnanswered(d) ==
    LET t == scan[d].ticket IN
    /\ scan[d].stage = "claim" /\ MayAdmit(t)
    /\ Admit(d, t)
    /\ Show(d, "fault", Nobody)
    /\ UNCHANGED <<order, copy, entries>>

(* A read, or the update before it reached the database, fails.            *)
ScanFails(d) ==
    /\ scan[d].stage \in {"check", "claim"}
    /\ Show(d, "fault", Nobody)
    /\ UNCHANGED <<order, copy, row, entries>>

(* The loser reads again, to name the winner or to say void.  Its mutant   *)
(* takes every defeat for a refund.                                        *)
RereadVoid(d) ==
    /\ scan[d].stage = "reread"
    /\ Show(d, "void", row[scan[d].ticket].by)
    /\ UNCHANGED <<order, copy, row, entries>>

Reread(d) ==
    LET t == scan[d].ticket IN
    /\ scan[d].stage = "reread"
    /\ Show(d, IF row[t].status = "void" THEN "void" ELSE "already_admitted", row[t].by)
    /\ UNCHANGED <<order, copy, row, entries>>

(* When that read fails too the loser says "already admitted" regardless.  *)
RereadFails(d) ==
    /\ scan[d].stage = "reread"
    /\ Show(d, "already_admitted", scan[d].by)
    /\ UNCHANGED <<order, copy, row, entries>>

NextHolder(d) ==
    /\ scan[d].stage \in Answers
    /\ Show(d, "idle", Nobody)
    /\ UNCHANGED <<order, copy, row, entries>>

Next ==
    \/ \E o \in Orders : Settle(o) \/ Refund(o) \/ Poll(o) \/ CopyExpires(o)
    \/ \E d \in Doors, t \in Tickets : Present(d, t)
    \/ \E d \in Doors :
          \/ CheckOrder(d) \/ ClaimWins(d) \/ ClaimLoses(d) \/ ClaimUnanswered(d)
          \/ ScanFails(d) \/ Reread(d) \/ RereadFails(d) \/ NextHolder(d)

Spec == Init /\ [][Next]_vars

-----------------------------------------------------------------------------
(* Type invariant: the tables and the scanners keep their shape.           *)
TypeOK ==
    /\ order \in [Orders -> OrderStatuses]
    /\ copy \in [Orders -> OrderStatuses \cup {"none"}]
    /\ row \in [Tickets -> [status : Statuses, by : Doors \cup {Nobody}]]
    /\ scan \in [Doors -> [stage : Stages, ticket : Tickets, by : Doors \cup {Nobody}]]
    /\ entries \in [Tickets -> Nat]

(* A ticket opens a door once, however many scanners read it as unused     *)
(* before the first of them spent it (Service.Scan, Repository.Admit).     *)
OneEntryPerTicket == \A t \in Tickets : entries[t] <= 1

(* No door opens on a ticket whose money has gone back, even when the      *)
(* refund commits between the scanner's reads and its claim.               *)
NoEntryOnceRefunded ==
    [][\A t \in Tickets : entries'[t] # entries[t] => order[OrderOf[t]] = "paid"]_vars

(* Who let a ticket in is on record for good: a refund that voids a spent  *)
(* admission leaves the attendance standing, and nobody overwrites it.     *)
AttendanceKept ==
    [][\A t \in Tickets : row[t].by # Nobody => row'[t].by = row[t].by]_vars

(* What a screen shows is so, however old the reads behind it: the door    *)
(* that opened is on the row; a door that names who let the ticket in      *)
(* before names the one on the row; void is only said of refunded orders.  *)
AnswersTrue ==
    \A d \in Doors :
        LET s == scan[d] IN
        /\ s.stage = "admitted" => row[s.ticket].by = d
        /\ s.stage = "already_admitted" /\ s.by # Nobody => row[s.ticket].by = s.by
        /\ s.stage = "void" => order[OrderOf[s.ticket]] = "refunded"

(* What the code says of the refusal: "already admitted" is the second     *)
(* scan of a code and carries who spent it.  It does not when the loser's  *)
(* second read fails.                                                      *)
AlreadyAdmittedNamesWho ==
    \A d \in Doors : scan[d].stage = "already_admitted" => scan[d].by # Nobody

(* What the code says of the other refusal: not_paid is the answer for "a  *)
(* code whose order has stopped being paid" (comment of OutcomeNotPaid).   *)
(* A cached copy from before the payment gives it to a paid order.         *)
NotPaidHasStopped ==
    \A d \in Doors : scan[d].stage = "not_paid" => order[OrderOf[scan[d].ticket]] # "paid"
=============================================================================
