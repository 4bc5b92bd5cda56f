------------------------------ MODULE RefundDesk ------------------------------
(***************************************************************************)
(* Refund requests: a buyer or an organiser asks, the frozen policy or a   *)
(* person answers, and an approval schedules the money in the transaction  *)
(* that records it.                                                        *)
(*                                                                         *)
(* Asking is not one transaction: the order is read (through a cache, so   *)
(* it may be old already), the open request and the show are read next,    *)
(* and the request is filed last, with a partial unique index as the only  *)
(* referee between two callers.                                            *)
(***************************************************************************)
EXTENDS Integers, FiniteSets

CONSTANTS
    Orders,
    Callers,        \* concurrent HTTP requests
    People,         \* who asks: of "buyer", "organiser", "admin", "stranger"
    MaxRequests,    \* bound on the rows of refund_requests
    Days,           \* the days somebody looks at the clock; 0 is one of them
    ShowDays        \* the days the show may be set for

DeskAssumption == Days \subseteq Nat /\ 0 \in Days

VARIABLES
    today, show, purchase, requests, money, call

deskVars == <<today, show, purchase, requests, money, call>>

Reasons == {"buyer_withdrawal", "event_cancelled", "organiser_goodwill", "operator"}
(* An error is the set of sentinels errors.Is finds in it.                 *)
Nil == {}
ErrForbidden == {"auth.ErrForbidden", "refund.ErrForbidden"}

BuyerMayClaim == {"buyer_withdrawal", "event_cancelled"}
AutoApproves == {"buyer_withdrawal", "event_cancelled", "operator"}
OpenStatuses == {"pending", "approved"}
WithdrawalDays == 7
CutoffDays == 2

Init ==
    /\ today = 0
    /\ show \in [starts : ShowDays, status : {"published"}]
    /\ purchase = [o \in Orders |-> [status |-> "pending", paidAt |-> 0]]
    /\ requests = {}
    /\ money = [o \in Orders |-> [stage |-> "none", direct |-> FALSE]]
    /\ call = [c \in Callers |-> [stage |-> "free", logged |-> Nil]]

FindOpenByOrder(o) == {r \in requests : r.order = o /\ r.status \in OpenStatuses}

-----------------------------------------------------------------------------
(* The policy, as a function of what it is shown.  A show whose row could  *)
(* not be read has no start and is not cancelled.                          *)
Unknown == [starts |-> 0, cancelled |-> FALSE, known |-> FALSE]
Timing == [starts |-> show.starts, cancelled |-> show.status = "cancelled", known |-> TRUE]

Deadline(item, timing) ==
    IF timing.known /\ timing.starts < item.paidAt + WithdrawalDays + CutoffDays
    THEN timing.starts - CutoffDays ELSE item.paidAt + WithdrawalDays

Withdraw(item, timing, now) ==
    CASE timing.known /\ now >= timing.starts -> "event_passed"
      [] timing.known /\ now < timing.starts /\ now >= Deadline(item, timing) ->
            IF Deadline(item, timing) = item.paidAt + WithdrawalDays
            THEN "window_closed" ELSE "too_close_to_event"
      [] ~timing.known /\ now >= Deadline(item, timing) -> "window_closed"
      [] OTHER -> "allowed"

Evaluate(item, timing, open, reason, now) ==
    CASE item.status = "refunded" -> "already_refunded"
      [] item.status \notin {"paid", "refund_required", "refunded"} -> "not_paid"
      [] item.status \in {"paid", "refund_required"} ->
            CASE timing.cancelled \/ reason = "event_cancelled" -> "allowed"
              [] ~(timing.cancelled \/ reason = "event_cancelled") /\ open -> "request_open"
              [] OTHER -> IF reason \in {"operator", "organiser_goodwill"}
                          THEN "allowed" ELSE Withdraw(item, timing, now)

Refusal(code) ==
    CASE code = "window_closed" -> {"ErrWindowClosed"}
      [] code \in {"too_close_to_event", "event_passed"} -> {"ErrTooCloseToEvent"}
      [] code = "request_open" -> {"ErrAlreadyOpen"}
      [] OTHER -> {"ErrNotRefundable"}

-----------------------------------------------------------------------------
(* Standing.  The event refuses a stranger with the sentinel every package *)
(* shares, not with this package's own wrapping of it.                     *)
OwnsEvent(who) == IF who = "organiser" THEN Nil ELSE {"auth.ErrForbidden"}

MayAct(who, reason) ==
    CASE who = "admin" -> Nil
      [] who = "buyer" -> IF reason \in BuyerMayClaim THEN Nil ELSE {"ErrReasonNotYours"}
      [] OTHER -> IF OwnsEvent(who) = Nil /\ reason = "operator"
                  THEN {"ErrReasonNotYours"} ELSE OwnsEvent(who)

MayDecide(who) == IF who = "admin" THEN Nil ELSE OwnsEvent(who)

StatusFor(err) ==
    CASE "refund.ErrForbidden" \in err \/ "ErrReasonNotYours" \in err -> "403"
      [] err \cap {"ErrNotFound"} # {} -> "404"
      [] err \cap {"ErrAlreadyOpen", "ErrNotDecidable"} # {} -> "409"
      [] err \cap {"ErrWindowClosed", "ErrTooCloseToEvent", "ErrNotRefundable"} # {} -> "422"
      [] OTHER -> "500"

(* The call is over.  What is answered 500 is what the server's log keeps.  *)
Answer(c, err) ==
    call' = [call EXCEPT ![c] = [stage |-> "free",
                                 logged |-> IF err # Nil /\ StatusFor(err) = "500" THEN err ELSE Nil]]

-----------------------------------------------------------------------------
(* One refund job per order is open at a time; a finished one may be       *)
(* followed by another.                                                    *)
EnqueueRefund(o, direct) ==
    money' = [money EXCEPT ![o] = [stage |-> "queued", direct |-> @.direct \/ direct]]

NewRequest(o, reason, by) ==
    [id |-> Cardinality(requests) + 1, order |-> o, reason |-> reason, by |-> by,
     status |-> IF reason \in AutoApproves THEN "approved" ELSE "pending",
     decidedBy |-> "nobody"]

(* Mutant of Taken: the index is missing and the earlier read decides.     *)
TakenUnindexed(o) == FALSE
Taken(o) == FindOpenByOrder(o) # {}

Ask(c, who, o, reason) ==
    /\ call[c].stage = "free"
    /\ IF MayAct(who, reason) = Nil
       THEN call' = [call EXCEPT ![c] = [stage |-> "judge", who |-> who, order |-> o,
                                         reason |-> reason, item |-> purchase[o]]]
       ELSE Answer(c, MayAct(who, reason))
    /\ UNCHANGED <<today, show, purchase, requests, money>>

(* A failed read of the show is "unknown"; of the requests, a fault.       *)
Judge(c) ==
    \E timing \in {Timing, Unknown} :
        LET k == call[c]
            code == Evaluate(k.item, timing, Taken(k.order), k.reason, today)
        IN  /\ k.stage = "judge"
            /\ IF code = "allowed"
               THEN call' = [call EXCEPT ![c] =
                        [stage |-> "file", who |-> k.who, order |-> k.order,
                         reason |-> k.reason]]
               ELSE Answer(c, Refusal(code))
            /\ UNCHANGED <<today, show, purchase, requests, money>>

(* Mutants of Schedule: the money forgotten, and the money not waiting for *)
(* a decision.                                                             *)
ScheduleNothing(r) == UNCHANGED money
ScheduleAtOnce(r) == EnqueueRefund(r.order, FALSE)
Schedule(r) == IF r.status = "approved" THEN EnqueueRefund(r.order, FALSE) ELSE UNCHANGED money

File(c) ==
    LET k == call[c]
        r == NewRequest(k.order, k.reason, k.who)
    IN  /\ k.stage = "file" /\ Cardinality(requests) < MaxRequests
        /\ IF Taken(k.order)
           THEN Answer(c, {"ErrAlreadyOpen"}) /\ UNCHANGED <<requests, money>>
           ELSE /\ requests' = requests \cup {r}
                /\ Schedule(r)
                /\ Answer(c, Nil)
        /\ UNCHANGED <<today, show, purchase>>

(* The transaction fails and rolls back, request and job together.         *)
FileFails(c) ==
    /\ call[c].stage \in {"judge", "file"}
    /\ Answer(c, {"fault"})
    /\ UNCHANGED <<today, show, purchase, requests, money>>

(* Mutant of Decidable: the row is answered as it was read, not as it is.  *)
DecidableAgain(r) == r.decidedBy # "x"
Decidable(r) == r.status = "pending"

(* The row is locked, so of two deciders the second finds it decided.      *)
Decide(c, who, r, status) ==
    LET decided == [r EXCEPT !.status = status, !.decidedBy = who] IN
    /\ call[c].stage = "free"
    /\ IF MayDecide(who) = Nil /\ Decidable(r)
       THEN /\ requests' = (requests \ {r}) \cup {decided}
            /\ Schedule(decided)
            /\ Answer(c, Nil)
       ELSE /\ Answer(c, IF MayDecide(who) # Nil THEN MayDecide(who) ELSE {"ErrNotDecidable"})
            /\ UNCHANGED <<requests, money>>
    /\ UNCHANGED <<today, show, purchase>>

-----------------------------------------------------------------------------
(* What happens around the desk.  A payment whose stock is gone opens its  *)
(* own refund in the settlement's transaction.                             *)
Pay(o) ==
    /\ purchase[o].status = "pending"
    /\ purchase' = [purchase EXCEPT ![o] = [status |-> "paid", paidAt |-> today]]
    /\ UNCHANGED <<today, show, requests, money, call>>

OpenOperatorRefund(o) ==
    /\ purchase[o].status = "pending" /\ Cardinality(requests) < MaxRequests
    /\ purchase' = [purchase EXCEPT ![o] = [status |-> "refund_required", paidAt |-> today]]
    /\ IF Taken(o)
       THEN UNCHANGED <<requests, money>>
       ELSE /\ requests' = requests \cup {NewRequest(o, "operator", "nobody")}
            /\ EnqueueRefund(o, FALSE)
    /\ UNCHANGED <<today, show, call>>

(* An operator's refund reads the order through its cache, which may still *)
(* say paid when the money has gone back.                                  *)
RequestRefund(o) ==
    /\ purchase[o].status # "pending"
    /\ EnqueueRefund(o, TRUE)
    /\ UNCHANGED <<today, show, purchase, requests, call>>

(* The job: the provider gives the money back and the order settles.       *)
GiveBack(o) ==
    /\ money[o].stage = "queued"
    /\ money' = [money EXCEPT ![o].stage = "moved"]
    /\ purchase' = [purchase EXCEPT ![o].status = "refunded"]
    /\ UNCHANGED <<today, show, requests, call>>

EditShow(starts, status) ==
    /\ show' = [starts |-> starts, status |-> status]
    /\ show' # show
    /\ UNCHANGED <<today, purchase, requests, money, call>>

Tick ==
    /\ today' \in {d \in Days : d > today}
    /\ UNCHANGED <<show, purchase, requests, money, call>>

Next ==
    \/ Tick
    \/ \E d \in ShowDays, s \in {"published", "cancelled"} : EditShow(d, s)
    \/ \E o \in Orders :
          \/ Pay(o) \/ OpenOperatorRefund(o) \/ RequestRefund(o) \/ GiveBack(o)
    \/ \E c \in Callers :
          \/ \E who \in People, o \in Orders, reason \in Reasons : Ask(c, who, o, reason)
          \/ Judge(c) \/ File(c) \/ FileFails(c)
          \/ \E who \in People, r \in requests, s \in {"approved", "rejected"} : Decide(c, who, r, s)

Spec == Init /\ [][Next]_deskVars

-----------------------------------------------------------------------------
(* Type invariant of the desk's tables.                                    *)
TypeOK ==
    /\ today \in Days
    /\ purchase \in [Orders -> [status : {"pending", "paid", "refund_required", "refunded"},
                                paidAt : Days]]
    /\ \A r \in requests : r.order \in Orders /\ r.reason \in Reasons
                           /\ r.status \in OpenStatuses \cup {"rejected"}
    /\ \A o \in Orders : money[o].stage \in {"none", "queued", "moved"}

(* The refund of an order is owed once and on record: of two callers who   *)
(* both read "nothing open" one is refused; an approval never stands       *)
(* without its money scheduled or returned; and money is never scheduled   *)
(* on a request still waiting for an answer, unless an operator did it.    *)
RequestsAccountable ==
    \A o \in Orders :
        LET approved == {r \in requests : r.order = o /\ r.status = "approved"} IN
        /\ Cardinality(FindOpenByOrder(o)) <= 1
        /\ approved # {} => money[o].stage = "queued" \/ purchase[o].status = "refunded"
        /\ money[o].stage # "none" => approved # {} \/ money[o].direct

(* A decision is final: two people answering at once never overwrite each  *)
(* other, and what was asked is never rewritten by the answer.             *)
DecisionKept ==
    \A r \in requests : \E s \in requests' :
        /\ s.id = r.id /\ s.order = r.order /\ s.reason = r.reason /\ s.by = r.by
        /\ r.status # "pending" => s = r
DecisionStands == [][DecisionKept]_deskVars

(* What the domain says of a buyer's grounds: the check keeps the window   *)
(* from being advisory.  A claim that the event was cancelled is not       *)
(* compared with the event, so it opens the window for a show that is on.  *)
WindowNotAdvisory ==
    [][\A c \in Callers :
          call[c].stage = "judge" /\ call[c].who = "buyer" /\ call'[c].stage = "file" =>
              show.status = "cancelled" \/ today < call[c].item.paidAt + WithdrawalDays]_deskVars

(* What the error's comment says: transport maps the shared sentinel to    *)
(* 403.  It compares with this package's wrapping, which an event refusing *)
(* a stranger does not return, and the stranger is answered 500.           *)
StrangersAreForbidden ==
    \A c \in Callers : call[c].stage = "free" => "auth.ErrForbidden" \notin call[c].logged
=============================================================================
