------------------------------ MODULE JobQueue ------------------------------
(***************************************************************************)
(* The durable work ledger: one table of jobs (JobRepository), the worker  *)
(* processes that claim and run them (Worker), the broker that accelerates *)
(* delivery (Broker, Dispatcher) and the crashes, lost messages and failed *)
(* bookkeeping the poller and the stale sweep exist to repair.             *)
(*                                                                         *)
(* What a job's handler does is abstracted to one thing the queue's own    *)
(* correctness depends on: WHEN it reads the state it acts on.  An event   *)
(* (a webhook, a confirmed order, a sweep) is the reason a key is          *)
(* enqueued; a run that read the state before the event has not served it. *)
(*                                                                         *)
(* ReclaimStale below takes only jobs no live process is running.  That is *)
(* the lease assumption; module JobLease derives it from the timeouts.     *)
(***************************************************************************)
EXTENDS Naturals, FiniteSets

CONSTANTS
    Jobs,         \* primary keys the jobs table may hand out
    Keys,         \* dedupe keys: "payment.sync:<id>", "charge.create:<order>"...
    NoKey,        \* the key of a row that does not exist
    Workers,      \* worker processes
    NoWorker,     \* a job nobody is running
    MaxAttempts,  \* Job.MaxAttempts
    Batch,        \* rows the poller claims at a time
    Prefetch,     \* unacknowledged broker deliveries per worker
    MaxDispatch,  \* publications in flight in the dispatcher
    MaxEvents,    \* bound: events announced per key
    MaxFaults     \* bound: shutdowns, crashes and failed bookkeeping statements

ASSUME ConstantsAssumption ==
    /\ NoKey \notin Keys
    /\ NoWorker \notin Workers
    /\ MaxAttempts \in Nat \ {0}
    /\ Batch \in Nat \ {0}
    /\ Prefetch \in Nat
    /\ MaxDispatch \in Nat
    /\ MaxEvents \in Nat
    /\ MaxFaults \in Nat

VARIABLES
    row,          \* the jobs table
    holder,       \* the process that has the job in hand, in memory
    polled,       \* jobs in hand that the poller claimed (the others: the broker)
    seen,         \* how many events of its key the running handler has read; 0: not read yet
    process,      \* state of each worker process
    dispatching,  \* jobs whose publication is in flight after the commit
    messages,     \* job references waiting in the broker
    events,       \* events announced per key
    served,       \* events a run that succeeded had read
    parked,       \* events a parked job stands for
    faults        \* shutdowns, crashes and failed statements so far

table == <<row, events, served, parked>>
memory == <<holder, polled, seen>>
transport == <<dispatching, messages>>
vars == <<row, holder, polled, seen, process, dispatching, messages,
          events, served, parked, faults>>

-----------------------------------------------------------------------------
Statuses == {"absent", "pending", "processing", "done", "dead"}

Rows == [status : Statuses, key : Keys \cup {NoKey},
         attempts : Nat, rerun : BOOLEAN, due : BOOLEAN]

AbsentRow == [status |-> "absent", key |-> NoKey, attempts |-> 0,
              rerun |-> FALSE, due |-> FALSE]

NewRow(k, due) == [status |-> "pending", key |-> k, attempts |-> 0,
                   rerun |-> FALSE, due |-> due]

(* Only "attempts >= MaxAttempts" is ever asked of the counter, so it      *)
(* saturates one above the budget.                                         *)
Bump(n) == IF n > MaxAttempts THEN n ELSE n + 1

(* Mutant of Open: the unique index over pending rows only.                *)
OpenIfPending(j) == row[j].status = "pending"

(* The rows the partial unique index covers.                               *)
Open(j) == row[j].status \in {"pending", "processing"}
OpenFor(k) == {j \in Jobs : Open(j) /\ row[j].key = k}
Held == {j \in Jobs : holder[j] # NoWorker}
HeldBy(w) == {j \in Jobs : holder[j] = w}

(* Mutant of Orphans: a sweep that leaves exhausted rows where they are.   *)
OrphansWithBudget == {j \in Jobs : /\ row[j].status = "processing" /\ holder[j] = NoWorker
                                   /\ row[j].attempts < MaxAttempts}
Orphans == {j \in Jobs : row[j].status = "processing" /\ holder[j] = NoWorker}

(* Mutant of Claimable: the claim by id without its status guard.          *)
ClaimableByIdAlone(j) == row[j].status # "absent" /\ row[j].due
Claimable(j) == row[j].status = "pending" /\ row[j].due

(* A primary key is never reused: the row is gone and nothing in flight    *)
(* names it any more.                                                      *)
Fresh(j) == /\ row[j].status = "absent"
            /\ j \notin messages \cup dispatching

Covered(k) == IF served[k] > parked[k] THEN served[k] ELSE parked[k]

Init ==
    /\ row = [j \in Jobs |-> AbsentRow]
    /\ holder = [j \in Jobs |-> NoWorker]
    /\ polled = {}
    /\ seen = [j \in Jobs |-> 0]
    /\ process = [w \in Workers |-> "up"]
    /\ dispatching = {}
    /\ messages = {}
    /\ events = [k \in Keys |-> 0]
    /\ served = [k \in Keys |-> 0]
    /\ parked = [k \in Keys |-> 0]
    /\ faults = 0

-----------------------------------------------------------------------------
(* Enqueue, in the transaction that also writes the business state, and    *)
(* the Dispatch that follows the commit.                                   *)

Announce(k) ==
    /\ events[k] < MaxEvents
    /\ events' = [events EXCEPT ![k] = @ + 1]

(* Only due jobs are published, and only while the dispatcher has room.    *)
Dispatched(j, due) ==
    IF due /\ Cardinality(dispatching) < MaxDispatch
    THEN dispatching \cup {j} ELSE dispatching

EnqueueNew(k, j, due) ==
    /\ Announce(k)
    /\ Fresh(j)
    /\ OpenFor(k) = {}
    /\ row' = [row EXCEPT ![j] = NewRow(k, due)]
    /\ dispatching' = Dispatched(j, due)
    /\ UNCHANGED <<memory, process, messages, served, parked, faults>>

(* The duplicate met the open row of its key: dropped while that row is    *)
(* pending, remembered as a rerun while it is running.                     *)
EnqueueDuplicate(k) ==
    /\ Announce(k)
    /\ OpenFor(k) # {}
    /\ row' = [j \in Jobs |->
                 IF j \in OpenFor(k) /\ row[j].status = "processing"
                 THEN [row[j] EXCEPT !.rerun = TRUE] ELSE row[j]]
    /\ UNCHANGED <<memory, process, transport, served, parked, faults>>

(* run_at arrives.                                                         *)
BecomeDue(j) ==
    /\ row[j].status = "pending"
    /\ ~row[j].due
    /\ row' = [row EXCEPT ![j].due = TRUE]
    /\ UNCHANGED <<memory, process, transport, events, served, parked, faults>>

-----------------------------------------------------------------------------
(* The broker.                                                             *)

Publish(j) ==
    /\ j \in dispatching
    /\ dispatching' = dispatching \ {j}
    /\ messages' = messages \cup {j}
    /\ UNCHANGED <<table, memory, process, faults>>

(* The publication failed, or the process that owed it died.               *)
PublishFails(j) ==
    /\ j \in dispatching
    /\ dispatching' = dispatching \ {j}
    /\ UNCHANGED <<table, memory, process, messages, faults>>

LoseMessage(j) ==
    /\ j \in messages
    /\ messages' = messages \ {j}
    /\ UNCHANGED <<table, memory, process, dispatching, faults>>

-----------------------------------------------------------------------------
(* Claiming.                                                               *)

Claimed(S) ==
    [j \in Jobs |-> IF j \in S
                    THEN [row[j] EXCEPT !.status = "processing", !.attempts = Bump(@)]
                    ELSE row[j]]

TakeInHand(w, S) ==
    /\ row' = Claimed(S)
    /\ holder' = [j \in Jobs |-> IF j \in S THEN w ELSE holder[j]]
    /\ seen' = [j \in Jobs |-> IF j \in S THEN 0 ELSE seen[j]]

(* Claim + ProcessBatch: the poller takes up to Batch due rows, and takes  *)
(* none before every row of its last batch is finished.  SKIP LOCKED may   *)
(* step over any row, so any non-empty set of due rows can be the batch.   *)
ClaimBatch(w, S) ==
    /\ process[w] = "up"
    /\ HeldBy(w) \cap polled = {}
    /\ S # {}
    /\ Cardinality(S) <= Batch
    /\ \A j \in S : Claimable(j)
    /\ TakeInHand(w, S)
    /\ polled' = polled \cup S
    /\ UNCHANGED <<process, transport, events, served, parked, faults>>

(* ClaimByID + ProcessMessage: a delivery whose row is not claimable is    *)
(* acknowledged and changes nothing.                                       *)
Deliver(w, j) ==
    /\ process[w] = "up"
    /\ j \in messages
    /\ Cardinality(HeldBy(w) \ polled) < Prefetch
    /\ messages' = messages \ {j}
    /\ IF Claimable(j)
       THEN TakeInHand(w, {j})
       ELSE UNCHANGED <<row, holder, seen>>
    /\ UNCHANGED <<polled, process, dispatching, events, served, parked, faults>>

-----------------------------------------------------------------------------
(* Running one claimed job: Worker.run.                                    *)

(* The handler reads the state it acts on: every event so far is in it.    *)
Observe(j) ==
    /\ j \in Held
    /\ seen[j] = 0
    /\ seen' = [seen EXCEPT ![j] = events[row[j].key]]
    /\ UNCHANGED <<table, holder, polled, process, transport, faults>>

(* The run is over.  A broker delivery is acknowledged; when the           *)
(* acknowledgement is lost the broker delivers the reference again.        *)
LetGo(j) ==
    /\ holder' = [holder EXCEPT ![j] = NoWorker]
    /\ seen' = [seen EXCEPT ![j] = 0]
    /\ polled' = polled \ {j}
    /\ \/ UNCHANGED messages
       \/ j \notin polled /\ messages' = messages \cup {j}

(* Mutants of Complete: the rerun mark ignored, a status nothing knows.    *)
CompleteForgetsRerun(j) ==
    row' = [row EXCEPT ![j] = [@ EXCEPT !.status = "done"]]
CompleteMisspelt(j) ==
    row' = [row EXCEPT ![j] = [@ EXCEPT !.status = "completed"]]

Complete(j) ==
    row' = [row EXCEPT ![j] =
              IF @.rerun
              THEN [@ EXCEPT !.status = "pending", !.due = TRUE, !.attempts = 0, !.rerun = FALSE]
              ELSE [@ EXCEPT !.status = "done"]]

Retry(j) ==
    row' = [row EXCEPT ![j] = [@ EXCEPT !.status = "pending", !.due = FALSE, !.rerun = FALSE]]

Kill(j) ==
    /\ row' = [row EXCEPT ![j] = [@ EXCEPT !.status = "dead", !.rerun = FALSE]]
    /\ parked' = [parked EXCEPT ![row[j].key] = events[row[j].key]]

(* Handler returned nil.                                                   *)
Succeed(j) ==
    /\ j \in Held
    /\ seen[j] > 0
    /\ Complete(j)
    /\ served' = [served EXCEPT ![row[j].key] = IF seen[j] > @ THEN seen[j] ELSE @]
    /\ LetGo(j)
    /\ UNCHANGED <<process, dispatching, events, parked, faults>>

(* Handler returned an error that may pass, with attempts to spare.        *)
FailForNow(j) ==
    /\ j \in Held
    /\ row[j].attempts < MaxAttempts
    /\ Retry(j)
    /\ LetGo(j)
    /\ UNCHANGED <<process, dispatching, events, served, parked, faults>>

(* A permanent error, a type without a handler, or the last attempt.       *)
FailForGood(j) ==
    /\ j \in Held
    /\ Kill(j)
    /\ LetGo(j)
    /\ UNCHANGED <<process, dispatching, events, served, faults>>

(* The handler ended but its Complete, Retry or Kill statement failed:     *)
(* logged, and the row is left as it was.                                  *)
BookkeepingFails(j) ==
    /\ j \in Held
    /\ faults < MaxFaults
    /\ faults' = faults + 1
    /\ LetGo(j)
    /\ UNCHANGED <<table, process, dispatching>>

-----------------------------------------------------------------------------
(* Processes and maintenance.                                              *)

(* Shutdown cancels the claiming context only; what is in hand runs on.    *)
Shutdown(w) ==
    /\ process[w] = "up"
    /\ faults < MaxFaults
    /\ faults' = faults + 1
    /\ process' = [process EXCEPT ![w] = "draining"]
    /\ UNCHANGED <<table, memory, transport>>

Exit(w) ==
    /\ process[w] = "draining"
    /\ HeldBy(w) = {}
    /\ process' = [process EXCEPT ![w] = "down"]
    /\ UNCHANGED <<table, memory, transport, faults>>

(* Everything in the process's memory is gone, its rows stay processing,   *)
(* and the broker takes its unacknowledged deliveries back.                *)
Crash(w) ==
    /\ process[w] # "down"
    /\ faults < MaxFaults
    /\ faults' = faults + 1
    /\ process' = [process EXCEPT ![w] = "down"]
    /\ holder' = [j \in Jobs |-> IF holder[j] = w THEN NoWorker ELSE holder[j]]
    /\ seen' = [j \in Jobs |-> IF holder[j] = w THEN 0 ELSE seen[j]]
    /\ polled' = polled \ HeldBy(w)
    /\ messages' = messages \cup (HeldBy(w) \ polled)
    /\ UNCHANGED <<table, dispatching>>

Restart(w) ==
    /\ process[w] = "down"
    /\ process' = [process EXCEPT ![w] = "up"]
    /\ UNCHANGED <<table, memory, transport, faults>>

(* The sweep of any live worker.  locked_at differs per row, so it may     *)
(* find any of the abandoned rows old enough.  Attempts and rerun stay.    *)
ReclaimStale(S) ==
    /\ S # {}
    /\ S \subseteq Orphans
    /\ \E w \in Workers : process[w] = "up"
    /\ row' = [j \in Jobs |-> IF j \in S THEN [row[j] EXCEPT !.status = "pending"] ELSE row[j]]
    /\ UNCHANGED <<memory, process, transport, events, served, parked, faults>>

(* Retention: finished rows only.                                          *)
DeleteCompleted(j) ==
    /\ row[j].status = "done"
    /\ row' = [row EXCEPT ![j] = AbsentRow]
    /\ UNCHANGED <<memory, process, transport, events, served, parked, faults>>

-----------------------------------------------------------------------------
Next ==
    \/ \E k \in Keys : \E j \in Jobs : \E due \in BOOLEAN : EnqueueNew(k, j, due)
    \/ \E k \in Keys : EnqueueDuplicate(k)
    \/ \E j \in Jobs : BecomeDue(j)
    \/ \E j \in Jobs : Publish(j)
    \/ \E j \in Jobs : PublishFails(j)
    \/ \E j \in Jobs : LoseMessage(j)
    \/ \E w \in Workers : \E S \in SUBSET Jobs : ClaimBatch(w, S)
    \/ \E w \in Workers : \E j \in Jobs : Deliver(w, j)
    \/ \E j \in Jobs : Observe(j)
    \/ \E j \in Jobs : Succeed(j)
    \/ \E j \in Jobs : FailForNow(j)
    \/ \E j \in Jobs : FailForGood(j)
    \/ \E j \in Jobs : BookkeepingFails(j)
    \/ \E w \in Workers : Shutdown(w)
    \/ \E w \in Workers : Exit(w)
    \/ \E w \in Workers : Crash(w)
    \/ \E w \in Workers : Restart(w)
    \/ \E S \in SUBSET Jobs : ReclaimStale(S)
    \/ \E j \in Jobs : DeleteCompleted(j)

Spec == Init /\ [][Next]_vars

(* The poller ticks, a handler is bounded by its own deadline, the stale   *)
(* sweep ticks, and a process that went down is started again.  Claim      *)
(* takes rows in run_at order, so a due row cannot be passed over for      *)
(* ever: SF per row.  Nothing is assumed of the broker.                    *)
Finish(j) == Succeed(j) \/ FailForNow(j) \/ FailForGood(j)

Fairness ==
    /\ \A j \in Jobs :
         /\ WF_vars(BecomeDue(j))
         /\ SF_vars(\E w \in Workers, S \in SUBSET Jobs : j \in S /\ ClaimBatch(w, S))
         /\ WF_vars(Observe(j))
         /\ WF_vars(seen[j] > 0 /\ Finish(j))
         /\ WF_vars(\E S \in SUBSET Jobs : j \in S /\ ReclaimStale(S))
    /\ \A w \in Workers : WF_vars(Exit(w)) /\ WF_vars(Restart(w))

FairSpec == Spec /\ Fairness

-----------------------------------------------------------------------------
(* The shape of the table, of the workers' memory and of the broker.       *)
TypeOK ==
    /\ row \in [Jobs -> Rows]
    /\ holder \in [Jobs -> Workers \cup {NoWorker}]
    /\ polled \subseteq Jobs
    /\ seen \in [Jobs -> Nat]
    /\ process \in [Workers -> {"up", "draining", "down"}]
    /\ dispatching \subseteq Jobs
    /\ messages \subseteq Jobs
    /\ events \in [Keys -> Nat]
    /\ served \in [Keys -> Nat]
    /\ parked \in [Keys -> Nat]
    /\ faults \in 0 .. MaxFaults

(* Two workers never have a job of the same dedupe key in hand at once: a  *)
(* webhook delivered five times cannot settle the same payment             *)
(* concurrently, whatever the poller, the broker and the sweep do.         *)
SerialPerKey ==
    \A i, j \in Held : row[i].key = row[j].key => i = j

(* An event announced for a key is never forgotten: until a run that read  *)
(* the state after the event succeeds, or a job is parked for a human,     *)
(* some row is still going to be run, or is being run by a handler that    *)
(* has yet to read or has read everything, or will be run again.           *)
WillRead(j) ==
    \/ row[j].status = "pending"
    \/ /\ row[j].status = "processing"
       /\ \/ row[j].rerun
          \/ holder[j] = NoWorker
          \/ seen[j] \in {0, events[row[j].key]}

NoLostEvent ==
    \A k \in Keys :
        Covered(k) < events[k] => \E j \in OpenFor(k) : WillRead(j)

(* A job in hand is never taken by another process: it is let go first.    *)
(* Redelivered messages, pollers and reclaims all race for the same row.   *)
ExclusiveClaim ==
    [][\A j \in Held : holder'[j] \in {holder[j], NoWorker}]_vars

(* A finished job is never run again, and a parked job is never deleted or *)
(* retried behind the operator's back, however often its message returns.  *)
FinishedStaysFinished ==
    [][\A j \in Jobs :
         /\ row[j].status = "done" => row'[j].status \in {"done", "absent"}
         /\ row[j].status = "dead" => row'[j] = row[j]]_vars

(* Every event is eventually acted on or parked, on the poller alone: with *)
(* every publication lost, and after any bounded number of crashes.        *)
EventuallyServed ==
    \A k \in Keys : \A n \in 1 .. MaxEvents :
        events[k] >= n ~> Covered(k) >= n

(* "a job that reliably kills its worker gets parked instead of looping"   *)
(* (comment of ReclaimStale): no row is ever claimed more often than its   *)
(* budget allows.                                                          *)
AttemptsWithinBudget ==
    \A j \in Jobs : row[j].attempts <= MaxAttempts
=============================================================================
