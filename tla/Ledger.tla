-------------------------------- MODULE Ledger --------------------------------
(***************************************************************************)
(* What an organiser is owed.  A payment puts the face value of the order  *)
(* on an append-only ledger in the transaction that settles it, part due   *)
(* some banking days after the show and part held longer; money that goes  *)
(* back takes the claim with it, at once.  The service fee is the box      *)
(* office's and never enters.                                              *)
(*                                                                         *)
(* Time is in hours; hour 0 is midnight UTC at the start of a Monday.      *)
(***************************************************************************)
EXTENDS Integers, FiniteSets, FiniteSetsExt

CONSTANTS
    Sales,          \* orders of one organiser's show
    Faces,          \* face values of one ticket, in centavos
    Quantities,     \* tickets of an order
    Moments,        \* the hours at which something happens; 0 is one of them
    ShowTimes,      \* [starts, ends] of the show; ends = 0 when none is stated
    Holidays        \* banking holidays, as days since day 0

LedgerAssumption ==
    /\ Faces \subseteq Nat /\ Quantities \subseteq Nat /\ Moments \subseteq Int /\ 0 \in Moments
    /\ \A show \in ShowTimes : show.starts \in Int /\ show.ends \in Int
    /\ Holidays \subseteq Int /\ IsFiniteSet(Holidays)

VARIABLES
    clock,          \* the hour
    happening,      \* the show's hours, which its organiser may change
    sale,           \* order -> its price and what became of it
    ledger          \* the entries

ledgerVars == <<clock, happening, sale, ledger>>

-----------------------------------------------------------------------------
(* Pricing: the fee is taken on one ticket, half up, and multiplied.       *)
BasisPointsPerUnit == 10000
PlatformFee == 1000

(* Mutant of FeeOn: rounded down, as the reserve is.                       *)
FeeOnDown(face) == (face * PlatformFee) \div BasisPointsPerUnit
FeeOn(face) == (face * PlatformFee + (BasisPointsPerUnit \div 2)) \div BasisPointsPerUnit

Quote(face, quantity) ==
    [unitFace |-> face, unitFee |-> FeeOn(face), quantity |-> quantity,
     face |-> face * quantity, fee |-> FeeOn(face) * quantity,
     total |-> face * quantity + FeeOn(face) * quantity]

-----------------------------------------------------------------------------
(* The banks' calendar, in Brasilia days, three hours behind UTC.          *)
StandardTerms == [reserve |-> 1000, settlementDays |-> 3, reserveHold |-> 30 * 24]

Brasilia == 3
(* Mutant of LocalDay: the days are counted in UTC.                        *)
LocalDayUTC(hour) == hour \div 24
LocalDay(hour) == (hour - Brasilia) \div 24

IsBusinessDay(day) == day % 7 \notin {5, 6} /\ day \notin Holidays

(* The same hour, on the day that makes `days` business days after.        *)
AddBusinessDays(from, days) ==
    LET start == LocalDay(from)
        ahead == {d \in (start + 1)..(start + 7 * (days + Cardinality(Holidays))) : IsBusinessDay(d)}
        reached == CHOOSE d \in ahead : Cardinality({e \in ahead : e <= d}) = days
    IN  from + 24 * (reached - start)

ReserveOn(amount) == (amount * StandardTerms.reserve) \div BasisPointsPerUnit

-----------------------------------------------------------------------------
(* The end of a show with none stated, or one before its start, is its     *)
(* start.                                                                  *)
EventEndsAt == IF happening.ends > happening.starts THEN happening.ends ELSE happening.starts

(* Both ids come from the order, so writing them again writes nothing.     *)
Accrued(o) ==
    LET face == sale[o].price.face
        settlesAt == AddBusinessDays(EventEndsAt, StandardTerms.settlementDays)
        entries == {[id |-> <<o, 1>>, order |-> o, kind |-> "sale", amount |-> face - ReserveOn(face),
                     availableAt |-> settlesAt],
                    [id |-> <<o, 2>>, order |-> o, kind |-> "reserve", amount |-> ReserveOn(face),
                     availableAt |-> settlesAt + StandardTerms.reserveHold]}
    IN  {e \in entries : e.amount > 0}

Append(entries) ==
    ledger' = ledger \cup {e \in entries : \A f \in ledger : f.id # e.id}

SumOf(entries) == MapThenSumSet(LAMBDA e : e.amount, entries)
On(o) == {e \in ledger : e.order = o}

(* A free order writes no rows.                                            *)
Accrue(o) == IF sale[o].price.face = 0 THEN UNCHANGED ledger ELSE Append(Accrued(o))

(* What the order still has on the ledger, which for one settled before    *)
(* there was a ledger is nothing.                                          *)
(* Mutant of Outstanding: what the order is worth.                         *)
OutstandingFace(o) == sale[o].price.face
Outstanding(o) == SumOf(On(o))

(* Mutant of ReversedAt: a reversal falls due with the sale it reverses.   *)
ReversedAtSettlement == AddBusinessDays(EventEndsAt, StandardTerms.settlementDays)
ReversedAt == clock

Reverse(o, kind) ==
    IF Outstanding(o) <= 0
    THEN UNCHANGED ledger
    ELSE Append({[id |-> <<o, kind, clock>>, order |-> o, kind |-> kind,
                  amount |-> 0 - Outstanding(o), availableAt |-> ReversedAt]})

(* The organiser's position.                                               *)
BalanceOf(entries, now) ==
    LET due == {e \in entries : e.availableAt <= now}
        held == {e \in entries \ due : e.kind = "reserve"}
    IN  [available |-> SumOf(due), reserved |-> SumOf(held),
         pending |-> SumOf((entries \ due) \ held), total |-> SumOf(entries)]

-----------------------------------------------------------------------------
(* An order may have been paid before there was a ledger.                  *)
Init ==
    /\ clock = 0
    /\ happening \in ShowTimes
    /\ ledger = {}
    /\ sale \in [Sales -> {[price |-> Quote(f, q), status |-> s, beforeLedger |-> s = "paid"] :
                              f \in Faces, q \in Quantities, s \in {"pending", "paid"}}]

Become(o, status) == sale' = [sale EXCEPT ![o].status = status]

(* The parts of a settlement that concern the organiser, each on the       *)
(* crossing into a status and in its transaction.                          *)
SettlePaid(o) ==
    /\ sale[o].status \in {"pending", "expired"}
    /\ Become(o, "paid") /\ Accrue(o)
    /\ UNCHANGED <<clock, happening>>

SettleRefunded(o, kind) ==
    /\ sale[o].status \in {"paid", "refund_required"}
    /\ Become(o, "refunded") /\ Reverse(o, kind)
    /\ UNCHANGED <<clock, happening>>

SettleOtherwise(o, status) ==
    /\ \/ sale[o].status = "pending" /\ status \in {"expired", "refund_required"}
       \/ sale[o].status = "expired" /\ status = "refund_required"
    /\ Become(o, status)
    /\ UNCHANGED <<clock, happening, ledger>>

Reschedule ==
    /\ happening' \in ShowTimes \ {happening}
    /\ UNCHANGED <<clock, sale, ledger>>

Pass ==
    /\ clock' \in {t \in Moments : t > clock}
    /\ UNCHANGED <<happening, sale, ledger>>

Next ==
    \/ Pass \/ Reschedule
    \/ \E o \in Sales :
          \/ SettlePaid(o)
          \/ \E kind \in {"refund", "chargeback"} : SettleRefunded(o, kind)
          \/ \E s \in {"expired", "refund_required"} : SettleOtherwise(o, s)

Spec == Init /\ [][Next]_ledgerVars

-----------------------------------------------------------------------------
(* Type invariant of the ledger's rows: the sign follows the kind.         *)
TypeOK ==
    /\ clock \in Moments /\ happening \in ShowTimes
    /\ \A o \in Sales : sale[o].status \in {"pending", "paid", "expired", "refund_required", "refunded"}
    /\ \A e \in ledger :
          /\ e.order \in Sales
          /\ e.kind \in {"sale", "reserve"} => e.amount > 0
          /\ e.kind \in {"refund", "chargeback"} => e.amount < 0

(* The claim follows the money: an order paid since there is a ledger is   *)
(* worth its face on it, any other nothing, whatever was paid, refunded or *)
(* charged back and however the show moved in between; nothing of an order *)
(* whose money went back can be paid out; and of what the buyer was        *)
(* charged, the box office keeps its fee and the organiser the rest.       *)
ClaimFollowsMoney ==
    \A o \in Sales :
        LET s == sale[o] IN
        /\ SumOf(On(o)) = IF s.status = "paid" /\ ~s.beforeLedger THEN s.price.face ELSE 0
        /\ s.status # "paid" => BalanceOf(On(o), clock).available <= 0
        /\ On(o) # {} /\ s.status = "paid" => s.price.total - SumOf(On(o)) = s.price.fee

(* A statement an organiser checks with a calendar and a buyer with a      *)
(* price list: a sale falls due on a day the banks are open, with exactly  *)
(* the agreed number of such days since a day the show could have ended    *)
(* on; the reserve a month later; and the fee is the nearest centavo.      *)
PayableOnBankingDays ==
    /\ \A e \in {f \in ledger : f.kind = "sale"} : \E show \in ShowTimes :
          LET ends == IF show.ends > show.starts THEN show.ends ELSE show.starts
              last == (e.availableAt - 3) \div 24
          IN  /\ IsBusinessDay(last)
              /\ Cardinality({d \in (((ends - 3) \div 24) + 1)..last : IsBusinessDay(d)}) = 3
              /\ e.availableAt % 24 = ends % 24
              /\ \A r \in On(e.order) : r.kind = "reserve" => r.availableAt = e.availableAt + 720
    /\ \A o \in Sales :
          LET off == 10 * sale[o].price.unitFee - sale[o].price.unitFace IN 0 - 5 < off /\ off <= 5

LedgerSound == ClaimFollowsMoney /\ PayableOnBankingDays

(* What accrual promises: nobody is paid for a show that has not happened. *)
(* The date is fixed when the order is paid, and the show can still move.  *)
NoPayBeforeTheShow ==
    BalanceOf(ledger, clock).available > 0 =>
        clock >= EventEndsAt
=============================================================================
