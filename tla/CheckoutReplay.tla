--------------------------- MODULE CheckoutReplay ---------------------------
(***************************************************************************)
(* Checkout requests that carry one idempotency key: the claim, the work,  *)
(* the recorded response, and what becomes of them when a request dies,    *)
(* outlives its lease, or fails half-way.                                  *)
(*                                                                         *)
(* Every statement of Begin is an action, as other requests come between   *)
(* them.  The checkout itself is one transaction.  Keys do not interact,   *)
(* so one key is the whole system.                                         *)
(***************************************************************************)
EXTENDS Naturals, FiniteSets

CONSTANTS
    Requests,        \* HTTP requests that carry the key: a first one and retries
    Bodies, BodyOf,  \* what each asks for
    Nothing          \* no row, no order

ASSUME ReplayAssumption ==
    /\ IsFiniteSet(Requests) /\ Nothing \notin Requests
    /\ BodyOf \in [Requests -> Bodies]

VARIABLES
    row,      \* the key's row in idempotency_keys, if there is one
    orders,   \* orders stored under the key, each named by the request that made it
    stage,    \* how far each request has got, or what it was answered
    shown,    \* the order a request is about to answer, or answered, with
    mishaps   \* history: what has gone wrong so far

vars == <<row, orders, stage, shown, mishaps>>

-----------------------------------------------------------------------------
Rows == [hash : Bodies, state : {"processing", "completed"}, lapsed : BOOLEAN,
         expired : BOOLEAN, response : Requests \cup {Nothing}]

ASSUME NothingIsNoRow == Nothing \notin Rows

Reading == {"read", "readRevived", "readTaken"}
Working == {"recover", "work", "complete", "release"}
Live == {"revive", "takeover"} \cup Reading \cup Working
(* Final stages: an order, 409 three ways, 500, or no answer at all.        *)
Ended == {"created", "replayed", "reused", "inflight", "taken", "error", "dead"}
Stages == {"new"} \cup Live \cup Ended

(* A request outlived its lease; a day went by; a lookup or a statement     *)
(* failed, or a commit went unanswered.                                    *)
Mishaps == {"overrun", "expiry", "fault"}

(* Mutant of Fresh: a claim left in its zero state.                        *)
FreshUnset(r) == [hash |-> BodyOf[r], state |-> "", lapsed |-> FALSE,
                  expired |-> FALSE, response |-> Nothing]

Fresh(r) == [hash |-> BodyOf[r], state |-> "processing", lapsed |-> FALSE,
             expired |-> FALSE, response |-> Nothing]

Goes(r, to) == stage' = [stage EXCEPT ![r] = to]
Shows(r, o) == shown' = [shown EXCEPT ![r] = o]

Init ==
    /\ row = Nothing
    /\ orders = {}
    /\ stage = [r \in Requests |-> "new"]
    /\ shown = [r \in Requests |-> Nothing]
    /\ mishaps = {}

-----------------------------------------------------------------------------
(* Begin: INSERT ... ON CONFLICT DO NOTHING.                               *)
Insert(r) ==
    /\ stage[r] = "new"
    /\ IF row = Nothing THEN row' = Fresh(r) /\ Goes(r, "work")
                        ELSE row' = row /\ Goes(r, "read")
    /\ UNCHANGED <<orders, shown, mishaps>>

(* Mutants of MayTakeOver: the body is not compared; the lease is not.     *)
MayTakeOverAnyBody(r, k) == k.state = "processing" /\ k.lapsed
MayTakeOverAnyLease(r, k) == k.state = "processing" /\ k.hash = BodyOf[r]

(* Lapsed, unfinished, and the same request.                               *)
MayTakeOver(r, k) == k.state = "processing" /\ k.lapsed /\ k.hash = BodyOf[r]

(* What Execute answers a request that does not own the key.               *)
Refusal(r, k) ==
    IF k.hash # BodyOf[r] THEN "reused"
    ELSE IF k.state = "completed" THEN "replayed" ELSE "inflight"

(* What a request that lost makes of the row it reads, at each of Begin's  *)
(* three reads.                                                            *)
Verdict(r, k) ==
    IF stage[r] = "read" /\ k.expired THEN "revive"
    ELSE IF stage[r] # "readTaken" /\ MayTakeOver(r, k) THEN "takeover"
    ELSE Refusal(r, k)

Read(r) ==
    /\ stage[r] \in Reading /\ row # Nothing
    /\ Goes(r, Verdict(r, row))
    /\ Shows(r, IF Verdict(r, row) = "replayed" THEN row.response ELSE Nothing)
    /\ UNCHANGED <<row, orders, mishaps>>

ReadNothing(r) ==
    /\ stage[r] \in Reading /\ row = Nothing
    /\ Goes(r, "error")
    /\ UNCHANGED <<row, orders, shown, mishaps>>

(* An expired key starts a new life, whatever body it is reused with.      *)
Revive(r) ==
    /\ stage[r] = "revive"
    /\ IF row # Nothing /\ row.expired THEN row' = Fresh(r) /\ Goes(r, "recover")
                                       ELSE row' = row /\ Goes(r, "readRevived")
    /\ UNCHANGED <<orders, shown, mishaps>>

(* One conditional UPDATE; the hash is a condition, not an overwrite.      *)
TakeOver(r) ==
    /\ stage[r] = "takeover"
    /\ IF row # Nothing /\ MayTakeOver(r, row)
       THEN row' = [row EXCEPT !.lapsed = FALSE] /\ Goes(r, "recover")
       ELSE row' = row /\ Goes(r, "readTaken")
    /\ UNCHANGED <<orders, shown, mishaps>>

-----------------------------------------------------------------------------
(* The owner of a key taken over looks for the order an earlier owner left;*)
(* its mutant goes straight to work.                                       *)
RecoverNothing(r) ==
    /\ stage[r] = "recover"
    /\ Goes(r, "work")
    /\ UNCHANGED <<row, orders, shown, mishaps>>

Recover(r) ==
    /\ stage[r] = "recover"
    /\ IF orders = {} THEN Goes(r, "work") /\ UNCHANGED shown
                      ELSE \E o \in orders : Goes(r, "complete") /\ Shows(r, o)
    /\ UNCHANGED <<row, orders, mishaps>>

(* The unique key of the orders table.                                     *)
MayCreate == orders = {}

Work(r) ==
    /\ stage[r] = "work" /\ MayCreate
    /\ orders' = orders \cup {r}
    /\ Goes(r, "complete") /\ Shows(r, r)
    /\ UNCHANGED <<row, mishaps>>

(* Sold out, or any other failure: the transaction rolls back.             *)
WorkFails(r) ==
    /\ stage[r] = "work"
    /\ Goes(r, "release")
    /\ UNCHANGED <<row, orders, shown, mishaps>>

(* ErrIdempotencyMismatch: the order exists, and this request is refused   *)
(* without being shown it.                                                 *)
WorkRefused(r) ==
    /\ stage[r] = "work" /\ ~MayCreate
    /\ Goes(r, "release") /\ Shows(r, CHOOSE o \in orders : TRUE)
    /\ UNCHANGED <<row, orders, mishaps>>

Fault == mishaps' = mishaps \cup {"fault"}

(* The lookup fails; or the order commits and the commit goes unanswered.  *)
LookupFails(r) ==
    /\ stage[r] = "recover"
    /\ Goes(r, "release") /\ Fault
    /\ UNCHANGED <<row, orders, shown>>

CommitUnanswered(r) ==
    /\ stage[r] = "work" /\ MayCreate
    /\ orders' = orders \cup {r}
    /\ Goes(r, "release") /\ Fault
    /\ UNCHANGED <<row, shown>>

(* The response is recorded if the row is still there; whether or not that *)
(* succeeds, the client is answered.                                       *)
Complete(r) ==
    /\ stage[r] = "complete"
    /\ \/ /\ row' = IF row = Nothing THEN row
                     ELSE [row EXCEPT !.state = "completed", !.lapsed = FALSE, !.response = shown[r]]
          /\ UNCHANGED mishaps
       \/ row' = row /\ Fault
    /\ Goes(r, IF shown[r] = r THEN "created" ELSE "replayed")
    /\ UNCHANGED <<orders, shown>>

(* Drops whatever claim is unfinished, this request's or not.              *)
Release(r) ==
    /\ stage[r] = "release"
    /\ \/ /\ row' = IF row # Nothing /\ row.state = "processing" THEN Nothing ELSE row
          /\ UNCHANGED mishaps
       \/ row' = row /\ Fault
    /\ Goes(r, IF shown[r] = Nothing THEN "error" ELSE "taken")
    /\ UNCHANGED <<orders, shown>>

-----------------------------------------------------------------------------
Crash(r) ==
    /\ stage[r] \in Live
    /\ Goes(r, "dead")
    /\ UNCHANGED <<row, orders, shown, mishaps>>

(* A minute passes.                                                        *)
Lapse ==
    /\ row # Nothing /\ row.state = "processing" /\ ~row.lapsed
    /\ row' = [row EXCEPT !.lapsed = TRUE]
    /\ mishaps' = IF \E r \in Requests : stage[r] \in Working
                  THEN mishaps \cup {"overrun"} ELSE mishaps
    /\ UNCHANGED <<orders, stage, shown>>

(* A day passes: nothing that was in flight still is.                      *)
Expire ==
    /\ row # Nothing /\ ~row.expired
    /\ \A r \in Requests : stage[r] \notin Live
    /\ row' = [row EXCEPT !.expired = TRUE, !.lapsed = (row.state = "processing")]
    /\ mishaps' = mishaps \cup {"expiry"}
    /\ UNCHANGED <<orders, stage, shown>>

(* The retention sweep.                                                    *)
DeleteExpired ==
    /\ row # Nothing /\ row.expired
    /\ row' = Nothing
    /\ UNCHANGED <<orders, stage, shown, mishaps>>

Next ==
    \/ \E r \in Requests :
          \/ Insert(r) \/ Read(r) \/ ReadNothing(r) \/ Revive(r) \/ TakeOver(r)
          \/ Recover(r) \/ LookupFails(r)
          \/ Work(r) \/ WorkFails(r) \/ WorkRefused(r) \/ CommitUnanswered(r)
          \/ Complete(r) \/ Release(r) \/ Crash(r)
    \/ Lapse \/ Expire \/ DeleteExpired

Spec == Init /\ [][Next]_vars

-----------------------------------------------------------------------------
(* Type invariant: the row and the requests keep their shape.              *)
TypeOK ==
    /\ row \in Rows \cup {Nothing}
    /\ orders \subseteq Requests
    /\ stage \in [Requests -> Stages]
    /\ shown \in [Requests -> Requests \cup {Nothing}]
    /\ mishaps \subseteq Mishaps

(* The work of a key is never done by two requests at once, as long as     *)
(* none has outlived its lease.                                            *)
SingleWorker ==
    "overrun" \notin mishaps =>
        \A r, s \in Requests : stage[r] \in Working /\ stage[s] \in Working => r = s

(* Rule 3 of the replay contract: a key seen with a different body is      *)
(* refused, so nobody is answered with an order they did not ask for,      *)
(* until something has gone wrong: each mishap alone can make it false.    *)
AnswerMatchesBody ==
    mishaps = {} =>
        \A r \in Requests :
            stage[r] \in {"created", "replayed"} =>
                shown[r] # Nothing /\ BodyOf[shown[r]] = BodyOf[r]

(* A retry is shown the order its key made; it is never told only that the *)
(* key is taken (Service.FindByIdempotencyKey says it has to be shown it). *)
(* Crashes never break that; each of the mishaps can.                      *)
RetryIsShownTheOrder == mishaps = {} => \A r \in Requests : stage[r] # "taken"
=============================================================================
