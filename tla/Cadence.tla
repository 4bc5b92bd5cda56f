------------------------------- MODULE Cadence -------------------------------
(* Recurring jobs against the clock: every process asks for the next turn  *)
(* of a sweep, workers take what is due, and a sweep hands on what its     *)
(* worker seems to have dropped.  Clocks agree, a handler stops at its     *)
(* deadline, and a ticker is read at most Late after it fired.             *)
EXTENDS Integers, FiniteSets

CONSTANTS
    Schedulers, Workers,
    Every,                  \* a sweep's period
    Interval,               \* between two ticks of one scheduler
    Late,
    JobTimeout, Finalization,
    ConfiguredStale,        \* NewWorker's own staleAfter
    MaxAttempts,
    BackoffBase, BackoffCeiling, MaxSpread,
    RetryAfters,            \* what a provider may ask, 0 when it does not say
    MaxClock, MaxFaults

(* A ticker fires and is read often enough to see every second turn.       *)
CadenceAssumption ==
    /\ Every \in Nat \ {0} /\ Interval \in Nat /\ Late \in Nat /\ Interval + Late <= 2 * Every
    /\ JobTimeout \in Nat /\ Finalization \in Nat /\ ConfiguredStale \in Nat
    /\ RetryAfters \subseteq Nat /\ MaxClock \in Nat

VARIABLES
    clock,
    due,        \* scheduler -> when its ticker fires next
    jobs,       \* turn -> its row, for the turns that have one
    made,       \* turn -> how many rows were inserted for it
    failed,     \* turns an insertion failed for
    hands,      \* attempts in hand
    faults      \* insertions and recordings that failed, and workers that died, so far

Turns == {t \in 1..(MaxClock + Every) : t % Every = 0}
NextTurn == ((clock \div Every) * Every) + Every
Statuses == {"pending", "processing", "done", "dead"}

Backoff(attempts) ==
    LET doubled[n \in 1..attempts] == IF n = 1 \/ doubled[n - 1] >= BackoffCeiling THEN
                                          IF n = 1 THEN BackoffBase ELSE doubled[n - 1]
                                      ELSE 2 * doubled[n - 1]
    IN  IF doubled[attempts] > BackoffCeiling THEN BackoffCeiling ELSE doubled[attempts]
Spread(delay) == IF delay \div 2 > MaxSpread THEN MaxSpread ELSE delay \div 2
Jitter(delay) == {delay + s : s \in 0..Spread(delay)}
RetryDelay(after, attempts) == Jitter(IF after > 0 THEN after ELSE Backoff(attempts))

(* The sweep for dropped jobs must leave a running one alone.              *)
StaleAfter == IF ConfiguredStale <= JobTimeout THEN 2 * JobTimeout ELSE ConfiguredStale

Init ==
    /\ clock = 0
    /\ due \in [Schedulers -> 0..(Every - 1)]
    /\ jobs = <<>> /\ made = [t \in Turns |-> 0] /\ failed = {}
    /\ hands = {} /\ faults = 0

(* The job is dated to the turn it is for, so its row stays open until     *)
(* then and later ticks find the key taken.                                *)
RunAtNow == clock
RunAt == NextTurn
Row(runAt) == [status |-> "pending", attempts |-> 0, runAt |-> runAt, lockedAt |-> 0, rerun |-> FALSE, asked |-> 0]
Open(t) == t \in DOMAIN jobs /\ jobs[t].status \in {"pending", "processing"}
Enqueue(t) ==
    IF ~Open(t)
    THEN /\ jobs' = [u \in DOMAIN jobs \cup {t} |-> IF u = t THEN Row(RunAt) ELSE jobs[u]]
         /\ made' = [made EXCEPT ![t] = @ + 1]
    ELSE jobs' = [jobs EXCEPT ![t].rerun = @ \/ jobs[t].status = "processing"] /\ UNCHANGED made
ScheduleTick(s) ==
    /\ due[s] <= clock
    /\ due' = [due EXCEPT ![s] = @ + Interval]
    /\ \/ Enqueue(NextTurn) /\ UNCHANGED <<failed, faults>>
       \/ /\ faults < MaxFaults /\ faults' = faults + 1
          /\ failed' = failed \cup {NextTurn} /\ UNCHANGED <<jobs, made>>
    /\ UNCHANGED <<clock, hands>>

Claim(w) == \E t \in DOMAIN jobs :
    /\ jobs[t].status = "pending" /\ jobs[t].runAt <= clock
    /\ jobs' = [jobs EXCEPT ![t].status = "processing", ![t].attempts = @ + 1, ![t].lockedAt = clock]
    /\ hands' = hands \cup {[worker |-> w, turn |-> t, attempt |-> jobs[t].attempts + 1, since |-> clock,
                             at |-> "handler", end |-> "", after |-> 0]}
    /\ UNCHANGED <<clock, due, made, failed, faults>>

(* The handler returns, fails with or without a delay of the provider's,   *)
(* or fails for good; recording it has a deadline of its own.              *)
Return(h) ==
    /\ h.at = "handler"
    /\ \E end \in {"ok", "fails", "permanent"}, after \in RetryAfters :
        /\ after > 0 => end = "fails"
        /\ hands' = (hands \ {h}) \cup {[h EXCEPT !.at = "record", !.end = end, !.after = after, !.since = clock]}
    /\ UNCHANGED <<clock, due, jobs, made, failed, faults>>

(* Of a row that is finished, only that it is finished matters.            *)
Closed(status) == [Row(0) EXCEPT !.status = status]
Complete(t) == IF jobs[t].rerun THEN Row(clock) ELSE Closed("done")
Retry(t, delay, after) ==
    [jobs[t] EXCEPT !.status = "pending", !.rerun = FALSE, !.runAt = clock + delay, !.lockedAt = 0,
                    !.asked = IF after > 0 THEN clock + after ELSE 0]
Record(h) ==
    /\ h.at = "record"
    /\ \E delay \in RetryDelay(h.after, h.attempt) :
        jobs' = [jobs EXCEPT ![h.turn] =
                    IF h.end = "ok" THEN Complete(h.turn)
                    ELSE IF h.end = "permanent" \/ h.attempt >= MaxAttempts THEN Closed("dead")
                    ELSE Retry(h.turn, delay, h.after)]
    /\ hands' = hands \ {h}
    /\ UNCHANGED <<clock, due, made, failed, faults>>
RecordFails(h) ==
    /\ h.at = "record" /\ faults < MaxFaults
    /\ hands' = hands \ {h} /\ faults' = faults + 1
    /\ UNCHANGED <<clock, due, jobs, made, failed>>
Die(w) ==
    /\ faults < MaxFaults /\ faults' = faults + 1
    /\ \E h \in hands : h.worker = w
    /\ hands' = {h \in hands : h.worker # w}
    /\ UNCHANGED <<clock, due, jobs, made, failed>>

ReclaimStale ==
    LET stale == {t \in DOMAIN jobs : jobs[t].status = "processing" /\ jobs[t].lockedAt < clock - StaleAfter} IN
    /\ stale # {}
    /\ jobs' = [t \in DOMAIN jobs |-> IF t \in stale THEN [jobs[t] EXCEPT !.status = "pending", !.lockedAt = 0] ELSE jobs[t]]
    /\ UNCHANGED <<clock, due, made, failed, hands, faults>>

Deadline(h) == h.since + (IF h.at = "handler" THEN JobTimeout ELSE Finalization)
Pass ==
    /\ clock < MaxClock
    /\ \A s \in Schedulers : clock < due[s] + Late
    /\ \A h \in hands : clock < Deadline(h)
    /\ clock' = clock + 1
    /\ UNCHANGED <<due, jobs, made, failed, hands, faults>>

Next ==
    \/ \E s \in Schedulers : ScheduleTick(s)
    \/ \E w \in Workers : Claim(w) \/ Die(w)
    \/ \E h \in hands : Return(h) \/ Record(h) \/ RecordFails(h)
    \/ ReclaimStale \/ Pass

-----------------------------------------------------------------------------
TypeOK ==
    /\ clock \in 0..MaxClock
    /\ DOMAIN jobs \subseteq Turns
    /\ \A t \in DOMAIN jobs : jobs[t].status \in Statuses /\ jobs[t].attempts \in Nat
    /\ \A h \in hands : h.worker \in Workers /\ h.turn \in DOMAIN jobs

(* Any number of schedulers ask once for a turn.                           *)
OneJobPerTurn == \A t \in Turns : made[t] <= 1

(* A tick that is read late may miss a turn, but never two in a row,       *)
(* unless an insertion for one of them failed.                             *)
FirstTurn == {t \in Turns : \E u \in DOMAIN jobs : u <= t}
NoTwoTurnsMissed == \A t \in FirstTurn :
    t + Every <= clock => \/ {t, t + Every} \cap failed # {}
                          \/ {t, t + Every} \cap DOMAIN jobs # {}

(* Unless an attempt with its recording can outlast the sweep's patience,  *)
(* a job is never in two handlers at once, and what is recorded is the     *)
(* attempt the row is about.                                               *)
Patient == JobTimeout + Finalization <= StaleAfter
OneHandler == Patient =>
    \A g, h \in hands : g.turn = h.turn /\ g.at = "handler" /\ h.at = "handler" => g = h
RecordsItsOwn == Patient =>
    \A h \in hands : jobs[h.turn].status = "processing" /\ jobs[h.turn].attempts = h.attempt

(* What a provider asked for before it is tried again is waited for.       *)
WaitsAsAsked == \A h \in hands :
    h.at = "handler" /\ h.since = jobs[h.turn].lockedAt => jobs[h.turn].lockedAt >= jobs[h.turn].asked

CadenceSound == OneJobPerTurn /\ NoTwoTurnsMissed /\ OneHandler /\ RecordsItsOwn /\ WaitsAsAsked
=============================================================================
