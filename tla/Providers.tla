------------------------------ MODULE Providers ------------------------------
(* One order's charge as the two payment providers keep it: Asaas, which   *)
(* knows no idempotency key and serves the PIX code from a second address, *)
(* and Mercado Pago, which takes a key and answers at once.  Every call    *)
(* may be refused, may not arrive, or may be obeyed and its answer lost.   *)
(* A search lists the newest charge first.  A job and an operator look the *)
(* order up through a cache of one second, which may hold an older row;    *)
(* settlement, the sweeps and the buyer's cancel use the table.            *)
EXTENDS Integers, Sequences

CONSTANTS
    Holds, Moments,     \* when the hold may end, and when things happen
    Day, DueDays, MinPixExpiry, MaxPixExpiry,
    Turns,              \* what the world does to a charge, of what it may do
    MaxAttempts, MaxFaults

PossibleMoves ==
    {<<"PENDING", "RECEIVED">>, <<"RECEIVED", "REFUNDED">>, <<"REFUND_REQUESTED", "REFUNDED">>,
     <<"RECEIVED", "CHARGEBACK_REQUESTED">>, <<"CHARGEBACK_REQUESTED", "RECEIVED">>,
     <<"CHARGEBACK_REQUESTED", "AWAITING_CHARGEBACK_REVERSAL">>,
     <<"pending", "in_process">>, <<"in_process", "approved">>, <<"in_process", "rejected">>,
     <<"pending", "approved">>, <<"approved", "partially_refunded">>, <<"approved", "in_mediation">>,
     <<"in_mediation", "charged_back">>}

(* No hold is configured to outlive the longest charge Mercado Pago draws. *)
ProvidersAssumption ==
    /\ Turns \subseteq PossibleMoves
    /\ Holds \subseteq Nat /\ Moments \subseteq Nat /\ Day \in Nat \ {0} /\ DueDays \in Nat
    /\ MinPixExpiry \in Nat /\ MaxPixExpiry \in Nat /\ \A hold \in Holds : hold <= MaxPixExpiry
    /\ MaxAttempts \in Nat \ {0} /\ MaxFaults \in Nat

VARIABLES
    gateway,    \* which provider this process was configured with
    clock,
    order,
    copy,       \* the order as somebody last cached it
    known,      \* Asaas has a customer record of the buyer's document
    charges,    \* the provider's, oldest first
    job,        \* kind of job -> where its run stands, done when there is none
    faults

Statuses == {"pending_payment", "paid", "expired", "cancelled", "failed", "refunded", "refund_required"}
Kinds == {"create", "sync", "void", "refund"}
Stages == {"due", "search", "customer", "enrol", "post", "code", "fetch", "delete", "give", "settle",
           "done", "parked"}

(* The providers' words and what they mean here; of Mercado Pago's the      *)
(* detail, where it matters.                                               *)
MapStatus(word) ==
    CASE word \in {"RECEIVED", "approved"} -> "paid"
      [] word \in {"REFUNDED", "refunded", "partially_refunded"} -> "refunded"
      [] word \in {"AWAITING_CHARGEBACK_REVERSAL", "charged_back"} -> "charged_back"
      [] word \in {"OVERDUE", "cancelled", "expired"} -> "cancelled"
      [] word = "rejected" -> "rejected"
      [] word \in {"CHARGEBACK_REQUESTED", "REFUND_REQUESTED", "in_mediation", "in_process"} -> "in_analysis"
      [] OTHER -> "pending"
Fresh == IF gateway = "asaas" THEN "PENDING" ELSE "pending"
Approved == IF gateway = "asaas" THEN "RECEIVED" ELSE "approved"
Voided == "cancelled"
Lapsed == IF gateway = "asaas" THEN "OVERDUE" ELSE "expired"
Refunded == IF gateway = "asaas" THEN {"REFUNDED", "REFUND_REQUESTED"} ELSE {"refunded"}

Status(c) == IF c.deleted /\ MapStatus(c.word) = "pending" THEN "cancelled" ELSE MapStatus(c.word)
Payable(c) == ~c.deleted /\ c.word \in {"PENDING", "pending", "in_process"}
Live(c) == ~c.deleted /\ MapStatus(c.word) \notin {"cancelled", "rejected"}
Now == clock

(* Asaas takes a day and lets a charge be paid to its end; Mercado Pago    *)
(* an instant within its own limits.                                       *)
Later(a, b) == IF a > b THEN a ELSE b
DueDateAsConfigured(hold) == (Now + DueDays * Day) \div Day
DueDate(hold) == Later(Now + DueDays * Day, hold) \div Day
ClampExpiry(hold) ==
    IF hold - Now < MinPixExpiry THEN Now + MinPixExpiry
    ELSE IF hold - Now > MaxPixExpiry THEN Now + MaxPixExpiry ELSE hold
Until(hold) == IF gateway = "asaas" THEN (DueDate(hold) + 1) * Day ELSE ClampExpiry(hold)

(* What one read of a charge tells, the code if it is served with it.      *)
About(id) == [id |-> id, status |-> "pending", code |-> FALSE]
Nothing == About(0)
ToCharge(id, c) ==
    [id |-> id, status |-> Status(c), code |-> gateway = "mercadopago"]

NoJob == [at |-> "done", tries |-> 0, read |-> Nothing]
Ended(at) == [NoJob EXCEPT !.at = at]
Due == [NoJob EXCEPT !.at = "due"]
Working(k) == job[k].at \notin {"due", "done", "parked"}
Scheduled(jobs, k) == IF jobs[k].at \in {"done", "parked"} THEN [jobs EXCEPT ![k] = Due] ELSE jobs
To(k, stage) == [job[k] EXCEPT !.at = stage]
Read(k, stage, id) == [job[k] EXCEPT !.at = stage, !.read = ToCharge(id, charges[id])]
Failed(k) ==
    IF job[k].tries >= MaxAttempts THEN Ended("parked")
    ELSE [job[k] EXCEPT !.at = "due", !.read = Nothing]

Row == [status |-> order.status, charge |-> order.charge]
Seen == {Row, copy}

Init ==
    /\ gateway \in {"asaas", "mercadopago"} /\ clock = 0
    /\ \E hold \in Holds :
        order = [status |-> "pending_payment", hold |-> hold, charge |-> 0, code |-> FALSE, told |-> 0]
    /\ copy = Row
    /\ known = FALSE /\ charges = <<>> /\ faults = 0
    /\ job = [k \in Kinds |-> IF k = "create" THEN Due ELSE NoJob]

(* A handler looks the order up before it talks to anybody.               *)
FirstStage(k, seen) ==
    CASE k = "create" /\ seen.status # "pending_payment" -> "done"
      [] k = "create" /\ seen.charge # 0 -> "fetch"
      [] k = "create" -> IF gateway = "asaas" THEN "search" ELSE "post"
      [] k = "sync" -> "fetch"
      [] k = "void" ->
            IF seen.charge # 0 /\ seen.status \in {"expired", "cancelled"} THEN "delete" ELSE "done"
      [] k = "refund" /\ seen.status = "refunded" -> "done"
      [] k = "refund" /\ seen.charge = 0 -> "parked"
      [] OTHER -> "give"
Attempt(k) ==
    /\ job[k].at = "due"
    /\ \E seen \in Seen : LET stage == FirstStage(k, seen) IN
        job' = [job EXCEPT ![k] = IF stage \in {"done", "parked"} THEN Ended(stage)
                                  ELSE [at |-> stage, tries |-> @.tries + 1,
                                        read |-> About(IF stage \in {"delete", "give"} THEN seen.charge ELSE 0)]]
    /\ UNCHANGED <<gateway, clock, order, copy, known, charges, faults>>

(* Anybody's look that missed the cache leaves what the table says in it;  *)
(* the transactions that write the order do not take it out.               *)
Remember ==
    /\ copy # Row /\ copy' = Row
    /\ UNCHANGED <<gateway, clock, order, known, charges, job, faults>>

(* A provider that obeys: what its tables become and where the run goes.   *)
Told(cs, then) == [charges |-> cs, known |-> known, then |-> then]
Newest == charges[Len(charges)]
FindNothing(k) == {Told(charges, To(k, "customer"))}
FindPaymentByReference(k) ==
    {Told(charges, IF charges = <<>> \/ Newest.deleted THEN To(k, "customer") ELSE Read(k, "code", Len(charges)))}
FindCustomerByDocument(k) == {Told(charges, To(k, IF known THEN "post" ELSE "enrol"))}
CreateCustomer(k) == {[charges |-> charges, known |-> TRUE, then |-> To(k, "post")]}

(* Under the order's id as the key, Mercado Pago answers a repetition with *)
(* the charge it made the first time.                                      *)
Made == gateway = "mercadopago" /\ charges # <<>>
Drawn == [word |-> Fresh, deleted |-> FALSE, until |-> Until(order.hold), backs |-> 0]
CreatePayment(k) ==
    IF Made THEN {Told(charges, Read(k, "settle", Len(charges)))}
    ELSE {Told(Append(charges, Drawn),
               [job[k] EXCEPT !.at = IF gateway = "asaas" THEN "code" ELSE "settle",
                              !.read = ToCharge(Len(charges) + 1, Drawn)])}

(* Only a pending charge has a code to fetch.                              *)
GetPixQRCode(k) ==
    {Told(charges, [job[k] EXCEPT !.at = "settle", !.read.code = job[k].read.status = "pending"])}
GetPayment(k) ==
    {Told(charges, Read(k, "settle", id)) :
        id \in IF k = "sync" THEN DOMAIN charges ELSE {seen.charge : seen \in Seen} \ {0}}

(* Deleting what is gone is what was wanted; paid charges are refused.     *)
Deleted(id) == [Ended("done") EXCEPT !.read = About(id)]
DeletePayment(k) == LET id == job[k].read.id  c == charges[id] IN
    IF gateway = "asaas"
    THEN IF c.deleted THEN {Told(charges, Deleted(id))}
         ELSE IF c.word \in {"PENDING", "OVERDUE"}
         THEN {Told([charges EXCEPT ![id].deleted = TRUE], Deleted(id))}
         ELSE {Told(charges, Ended("parked"))}
    ELSE IF c.word \in {"pending", "in_process"}
    THEN {Told([charges EXCEPT ![id].word = Voided], Deleted(id))}
    ELSE {Told(charges, Ended("parked"))}

(* Mercado Pago repeats its answer under the refund's key; Asaas refuses   *)
(* what is refunded already.                                               *)
RefundKeyed(id) == gateway = "mercadopago" /\ charges[id].backs > 0
RefundUnkeyed(id) == FALSE
SameRefund(id) == RefundKeyed(id)
RefundPayment(k) == LET id == job[k].read.id IN
    IF SameRefund(id) THEN {Told(charges, To(k, "fetch"))}
    ELSE IF MapStatus(charges[id].word) = "paid" \/ (gateway = "mercadopago" /\ charges[id].backs > 0)
    THEN {Told([charges EXCEPT ![id].word = word, ![id].backs = @ + 1], To(k, "fetch")) : word \in Refunded}
    ELSE {Told(charges, Ended("parked"))}

Answers(k) ==
    CASE job[k].at = "search" -> FindPaymentByReference(k)
      [] job[k].at = "customer" -> FindCustomerByDocument(k)
      [] job[k].at = "enrol" -> CreateCustomer(k)
      [] job[k].at = "post" -> CreatePayment(k)
      [] job[k].at = "code" -> GetPixQRCode(k)
      [] job[k].at = "fetch" -> GetPayment(k)
      [] job[k].at = "delete" -> DeletePayment(k)
      [] job[k].at = "give" -> RefundPayment(k)
Calling(k) == Working(k) /\ job[k].at # "settle"

Call(k) == Calling(k) /\ \E answer \in Answers(k) :
    /\ charges' = answer.charges /\ known' = answer.known /\ job' = [job EXCEPT ![k] = answer.then]
    /\ UNCHANGED <<gateway, clock, order, copy, faults>>

(* An error is retried, unless a void or a refund was refused outright; a  *)
(* code that cannot be fetched is done without.                            *)
Without(k) == IF job[k].at = "code" THEN To(k, "settle") ELSE Failed(k)
Refused(k) == IF job[k].at \in {"delete", "give"} THEN Ended("parked") ELSE Without(k)
Fault == faults < MaxFaults /\ faults' = faults + 1
Unanswered(k) == Calling(k) /\ Fault /\ \E answer \in Answers(k) :
    /\ charges' = answer.charges /\ known' = answer.known
    /\ job' = [job EXCEPT ![k] = Without(k)]
    /\ UNCHANGED <<gateway, clock, order, copy>>
CallFails(k) ==
    /\ Calling(k) /\ Fault
    /\ \E then \in {Without(k), Refused(k)} : job' = [job EXCEPT ![k] = then]
    /\ UNCHANGED <<gateway, clock, order, copy, known, charges>>

(* Settlement, one transaction.  A late payment finds its places or not.   *)
CanTransition == {<<"pending_payment", s>> : s \in {"paid", "expired", "cancelled", "failed", "refund_required"}}
    \cup {<<s, n>> : s \in {"expired", "cancelled", "failed"}, n \in {"paid", "refund_required"}}
    \cup {<<"paid", "refunded">>, <<"refund_required", "refunded">>}
StatusFor == [s \in {"paid", "rejected", "cancelled", "refunded", "charged_back"} |->
    CASE s = "rejected" -> "failed" [] s = "cancelled" -> "expired" [] s = "charged_back" -> "refunded" [] OTHER -> s]
Final(status) == status # "pending_payment"
AttachBlank(read) == [order EXCEPT !.charge = read.id, !.code = read.code]
AttachCharge(read) == [order EXCEPT !.charge = read.id, !.code = @ \/ read.code]
Settled(read) ==
    LET attached == AttachCharge(read)
        previous == order.status
    IN  IF read.status \notin DOMAIN StatusFor
        THEN IF Final(previous) /\ order.charge # 0 THEN {order}
             ELSE {[attached EXCEPT !.told = IF previous = "pending_payment" /\ order.charge = 0 /\ attached.code
                                             THEN @ + 1 ELSE @]}
        ELSE LET meant == StatusFor[read.status]
                 nexts == IF meant = "paid" /\ previous # "pending_payment" THEN {"paid", "refund_required"}
                          ELSE {meant}
             IN  {[attached EXCEPT !.status = IF <<previous, next>> \in CanTransition THEN next ELSE @]
                    : next \in nexts}
Settle(k) ==
    /\ job[k].at = "settle"
    /\ order' \in Settled(job[k].read)
    /\ LET ended == [job EXCEPT ![k] = Ended("done")] IN
       job' = IF order'.status = "refund_required" /\ order.status # "refund_required"
              THEN Scheduled(ended, "refund") ELSE ended
    /\ UNCHANGED <<gateway, clock, copy, known, charges, faults>>
SettleFails(k) ==
    /\ job[k].at = "settle" /\ Fault
    /\ job' = [job EXCEPT ![k] = Failed(k)]
    /\ UNCHANGED <<gateway, clock, order, copy, known, charges>>

(* The hold ends, and what was charged is to be voided; the buyer gives    *)
(* up, and nothing is.                                                     *)
Close(status) ==
    /\ order.status = "pending_payment" /\ order' = [order EXCEPT !.status = status]
    /\ UNCHANGED <<gateway, clock, copy, known, charges, faults>>
ExpireHold ==
    /\ clock >= order.hold /\ Close("expired")
    /\ job' = IF order.charge # 0 THEN Scheduled(job, "void") ELSE job
Cancel == Close("cancelled") /\ UNCHANGED job

Reconcile ==
    /\ order.status = "pending_payment"
    /\ job' = Scheduled(job, IF order.charge = 0 THEN "create" ELSE "sync") /\ job' # job
    /\ UNCHANGED <<gateway, clock, order, copy, known, charges, faults>>
Notified ==
    /\ charges # <<>> /\ job' = Scheduled(job, "sync") /\ job' # job
    /\ UNCHANGED <<gateway, clock, order, copy, known, charges, faults>>
RequestRefund ==
    /\ \E seen \in Seen : seen.charge # 0 /\ seen.status \in {"paid", "refund_required"}
    /\ job' = Scheduled(job, "refund") /\ job' # job
    /\ UNCHANGED <<gateway, clock, order, copy, known, charges, faults>>

(* The buyer pays, the bank disputes, the day ends, somebody deletes the   *)
(* charge in the provider's own panel.                                     *)
ChargeBecomes(id, c) ==
    /\ charges' = [charges EXCEPT ![id] = c]
    /\ UNCHANGED <<gateway, clock, order, copy, known, job, faults>>
ChargeMoves == \E id \in DOMAIN charges, move \in Turns :
    /\ charges[id].word = move[1] /\ ~charges[id].deleted
    /\ ChargeBecomes(id, [charges[id] EXCEPT !.word = move[2]])
ChargeLapses == \E id \in DOMAIN charges :
    /\ charges[id].word = Fresh /\ ~charges[id].deleted /\ clock >= charges[id].until
    /\ ChargeBecomes(id, [charges[id] EXCEPT !.word = Lapsed])
ChargeDeleted == \E id \in DOMAIN charges :
    /\ gateway = "asaas" /\ charges[id].word = Fresh /\ ~charges[id].deleted /\ Fault
    /\ charges' = [charges EXCEPT ![id].deleted = TRUE]
    /\ UNCHANGED <<gateway, clock, order, copy, known, job>>

Tick ==
    /\ \E now \in Moments : now > clock /\ clock' = now
    /\ copy' = Row
    /\ UNCHANGED <<gateway, order, known, charges, job, faults>>

Next ==
    \/ \E k \in Kinds : Attempt(k) \/ Call(k) \/ Unanswered(k) \/ CallFails(k) \/ Settle(k) \/ SettleFails(k)
    \/ Remember \/ ExpireHold \/ Cancel \/ Reconcile \/ Notified \/ RequestRefund
    \/ ChargeMoves \/ ChargeLapses \/ ChargeDeleted \/ Tick

vars == <<gateway, clock, order, copy, known, charges, job, faults>>
Spec == Init /\ [][Next]_vars

-----------------------------------------------------------------------------
TypeOK ==
    /\ order.status \in Statuses /\ order.charge \in 0..Len(charges) /\ order.told \in Nat
    /\ copy.status \in Statuses /\ copy.charge \in 0..Len(charges)
    /\ \A k \in Kinds : job[k].at \in Stages /\ job[k].tries \in 0..MaxAttempts

(* However often a charge job is retried after answers were lost, an order *)
(* never has two charges somebody could pay or has paid.                   *)
OneCharge == \A a, b \in DOMAIN charges : Live(charges[a]) /\ Live(charges[b]) => a = b

(* A charge does not run out on a buyer whose hold still stands.           *)
OutlivesHold == \A id \in DOMAIN charges :
    charges[id].word = Lapsed => clock >= order.hold

(* A buyer is sent to pay once, and the order keeps the code it was about. *)
ToldOnceWithCode == order.told <= 1 /\ (order.told = 1 => order.code)

(* Money goes back once, also when the first answer was lost.              *)
BackOnce == \A id \in DOMAIN charges : charges[id].backs <= 1

(* A void looks the order up a moment late and deletes a charge its buyer  *)
(* may be paying: what the provider granted stays cancelled, so nothing is *)
(* paid into it afterwards and no money that was in it is gone.            *)
VoidedForGood == job["void"].at = "done" /\ job["void"].read.id # 0 =>
    Status(charges[job["void"].read.id]) = "cancelled"

(* usecases/payment: the charge dies with the hold; a PIX code that        *)
(* outlives the reservation invites a payment for tickets already back on  *)
(* sale.  Not so: the buyer's cancel schedules no void, and a void that    *)
(* looks up a waiting order of a second ago ends without asking.           *)
ChargeDiesWithHold ==
    order.status \in {"expired", "cancelled"} /\ order.charge # 0 /\ Payable(charges[order.charge])
        => job["void"].at # "done"

ProvidersSound == OneCharge /\ OutlivesHold /\ ToldOnceWithCode /\ BackOnce /\ VoidedForGood

(* gateway.go: losing the QR code costs this attempt its copy-and-paste    *)
(* string, and the next sync picks it up.                                  *)
NextSyncPicksUpTheCode == [][\A k \in {"create", "sync"} :
    job[k].at = "settle" /\ job'[k].at = "done" /\ order.charge # 0 /\ order'.status = "pending_payment"
        => order'.code]_vars
=============================================================================
