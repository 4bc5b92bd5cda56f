------------------------------- MODULE Broker -------------------------------
(* One process and its message broker: a connection watched and dialled    *)
(* again, publications that wait to be confirmed, deliveries handled side  *)
(* by side, a poller beside them, and the order in which all this stops.   *)
EXTENDS Integers, FiniteSets

CONSTANTS
    Messages,               \* references to jobs, each job's row its own
    Prefetch,
    MaxConnections,         \* bound on the connections made
    MaxDeliveries           \* bound on the deliveries of one reference

BrokerAssumption == Prefetch \in Nat /\ MaxConnections \in Nat \ {0} /\ MaxDeliveries \in Nat

VARIABLES
    spoiled,    \* messages whose body does not decode
    open,       \* connections that stand, as the broker sees it
    dials,      \* connections made so far
    broker,     \* the connection the Broker uses, 0 for nil
    watch,      \* its watcher: [at, on]
    published,  \* message -> how far its publication got, and on which connection
    work, dead, \* the broker's two queues
    consume,    \* the worker's consumer: [at, on]
    hand,       \* deliveries this process has: [message, on, stage]
    delivered,  \* message -> deliveries so far
    job,        \* message -> the status of its job
    polled,     \* jobs in the poller's hand
    process,    \* how far the process has got with stopping
    spent,      \* the shutdown's budget ran out before its drain ended
    handled     \* history: messages a handler returned for

brokerVars == <<spoiled, open, dials, broker, watch, published, work, dead, consume, hand, delivered, job, polled,
                process, spent, handled>>
life == <<spoiled, polled, process, spent>>

Idle == [at |-> "none", on |-> 0]
Alive == process # "gone"
Cancelled == process # "up"
Closed == process \notin {"up", "stopping"}
Unacked(c) == {h \in hand : h.on = c}

Init ==
    /\ spoiled \in SUBSET Messages /\ open = {1} /\ dials = 1 /\ broker = 1
    /\ watch = [at |-> "starts", on |-> 0]
    /\ published = [m \in Messages |-> Idle] /\ work = {} /\ dead = {}
    /\ consume = [at |-> "starts", on |-> 0] /\ hand = {}
    /\ delivered = [m \in Messages |-> 0] /\ job = [m \in Messages |-> "pending"]
    /\ polled = {} /\ process = "up" /\ spent = FALSE /\ handled = {}

-----------------------------------------------------------------------------
(* Publishing.  The dispatcher drops what is beyond its bound.             *)
At(m, stages) == published[m].at \in stages
Goes(m, at, on) == published' = [published EXCEPT ![m] = [at |-> at, on |-> on]]

Dispatch(m) ==
    /\ process = "up" /\ At(m, {"none"})
    /\ (Goes(m, "dispatched", 0) \/ Goes(m, "lost", 0))
    /\ UNCHANGED <<open, dials, broker, watch, work, dead, consume, hand, delivered, job, handled, life>>
Publish(m) ==
    /\ Alive /\ At(m, {"dispatched"})
    /\ IF broker \in open THEN Goes(m, "sent", broker) ELSE Goes(m, "lost", 0)
    /\ UNCHANGED <<open, dials, broker, watch, work, dead, consume, hand, delivered, job, handled, life>>
Stores(m) ==
    /\ At(m, {"sent"}) /\ published[m].on \in open
    /\ work' = work \cup {m} /\ Goes(m, "stored", published[m].on)
    /\ UNCHANGED <<open, dials, broker, watch, dead, consume, hand, delivered, job, handled, life>>
Confirmed(m) ==
    /\ Alive /\ At(m, {"stored"}) /\ published[m].on \in open
    /\ Goes(m, "confirmed", 0)
    /\ UNCHANGED <<open, dials, broker, watch, work, dead, consume, hand, delivered, job, handled, life>>
(* Refused, timed out, or the connection went.                             *)
Unconfirmed(m) ==
    /\ Alive /\ At(m, {"sent", "stored"})
    /\ Goes(m, "lost", 0)
    /\ UNCHANGED <<open, dials, broker, watch, work, dead, consume, hand, delivered, job, handled, life>>

-----------------------------------------------------------------------------
(* The connection.  What it had not acknowledged is queued again.          *)
Given(S) == {h.message : h \in {h \in hand : h.on \in S}}
ConnectionLost(c) ==
    /\ c \in open /\ MaxConnections > dials
    /\ open' = open \ {c} /\ work' = work \cup Given({c})
    /\ UNCHANGED <<dials, broker, watch, published, dead, consume, hand, delivered, job, handled, life>>

Watches(at, on) == watch' = [at |-> at, on |-> on]
WatchStarts ==
    /\ Alive /\ watch.at = "starts"
    /\ IF Closed \/ broker = 0 THEN Watches("gone", 0) ELSE Watches("listens", broker)
    /\ UNCHANGED <<open, dials, broker, published, work, dead, consume, hand, delivered, job, handled, life>>
HearsClose ==
    /\ Alive /\ watch.at = "listens" /\ watch.on \notin open
    /\ Watches(IF Closed THEN "gone" ELSE "sleeps", 0)
    /\ UNCHANGED <<open, dials, broker, published, work, dead, consume, hand, delivered, job, handled, life>>
(* A dial that fails sleeps again.                                         *)
Wakes ==
    /\ Alive /\ watch.at = "sleeps" /\ Closed /\ Watches("gone", 0)
    /\ UNCHANGED <<open, dials, broker, published, work, dead, consume, hand, delivered, job, handled, life>>
Dials ==
    /\ Alive /\ watch.at = "sleeps" /\ ~Closed /\ dials < MaxConnections
    /\ dials' = dials + 1 /\ open' = open \cup {dials + 1} /\ Watches("declares", dials + 1)
    /\ UNCHANGED <<broker, published, work, dead, consume, hand, delivered, job, handled, life>>
connect ==
    /\ Alive /\ watch.at = "declares"
    /\ \/ watch.on \in open /\ broker' = watch.on /\ Watches("starts", 0) /\ UNCHANGED open
       \/ open' = open \ {watch.on} /\ Watches("sleeps", 0) /\ UNCHANGED broker
    /\ UNCHANGED <<dials, published, work, dead, consume, hand, delivered, job, handled, life>>

-----------------------------------------------------------------------------
(* The consumer: its loop, and one Consume of it.                          *)
Consumer(at, on) == consume' = [at |-> at, on |-> on]
Consume ==
    /\ Alive /\ consume.at = "starts"
    /\ IF Cancelled THEN Consumer("over", 0)
       ELSE IF broker \in open THEN Consumer("consumes", broker) ELSE Consumer("pauses", 0)
    /\ UNCHANGED <<open, dials, broker, watch, published, work, dead, hand, delivered, job, handled, life>>
Pause ==
    /\ Alive /\ consume.at = "pauses" /\ Consumer("starts", 0)
    /\ UNCHANGED <<open, dials, broker, watch, published, work, dead, hand, delivered, job, handled, life>>
Delivers(m) ==
    /\ Alive /\ consume.at \in {"consumes", "drains"} /\ consume.on \in open
    /\ m \in work /\ Cardinality(Unacked(consume.on)) < Prefetch /\ delivered[m] < MaxDeliveries
    /\ work' = work \ {m} /\ delivered' = [delivered EXCEPT ![m] = @ + 1]
    /\ hand' = hand \cup {[message |-> m, on |-> consume.on, stage |-> "pushed"]}
    /\ UNCHANGED <<open, dials, broker, watch, published, dead, consume, job, handled, life>>

Moves(h, stage) == hand' = (hand \ {h}) \cup {[h EXCEPT !.stage = stage]}
(* A body that does not decode goes to the dead-letter queue.  Any other   *)
(* is claimed under the process's context and worked under its own.        *)
Take(h) ==
    LET m == h.message
        claimed == job[m] = "pending" /\ ~Cancelled
    IN  /\ Alive /\ h.stage = "pushed" /\ consume.at = "consumes" /\ consume.on = h.on
        /\ IF m \in spoiled
           THEN /\ hand' = hand \ {h} /\ UNCHANGED <<job, handled>>
                /\ dead' = IF h.on \in open THEN dead \cup {m} ELSE dead
           ELSE /\ Moves(h, IF claimed THEN "runs" ELSE "handled") /\ UNCHANGED dead
                /\ job' = IF claimed THEN [job EXCEPT ![m] = "processing"] ELSE job
                /\ handled' = IF claimed THEN handled ELSE handled \cup {m}
        /\ UNCHANGED <<open, dials, broker, watch, published, work, consume, delivered, life>>
(* The context ends, or the deliveries do: Consume waits for what it       *)
(* started.                                                                *)
Leave ==
    /\ Alive /\ consume.at = "consumes" /\ (Cancelled \/ consume.on \notin open)
    /\ Consumer("drains", consume.on)
    /\ UNCHANGED <<open, dials, broker, watch, published, work, dead, hand, delivered, job, handled, life>>
Return ==
    /\ Alive /\ consume.at = "drains" /\ \A h \in Unacked(consume.on) : h.stage = "pushed"
    /\ work' = work \cup {h.message : h \in {h \in Unacked(consume.on) : h.on \in open}}
    /\ hand' = hand \ Unacked(consume.on)
    /\ Consumer(IF Cancelled THEN "over" ELSE "pauses", 0)
    /\ UNCHANGED <<open, dials, broker, watch, published, dead, delivered, job, handled, life>>

(* The rest of ProcessMessage: the bookkeeping, and the acknowledgement.   *)
Records(m) == job' = IF process = "closed" THEN job ELSE [job EXCEPT ![m] = "done"]
Run(h) ==
    /\ Alive /\ h.stage = "runs"
    /\ Records(h.message) /\ Moves(h, "handled") /\ handled' = handled \cup {h.message}
    /\ UNCHANGED <<open, dials, broker, watch, published, work, dead, consume, delivered, life>>
Ack(h) ==
    /\ Alive /\ h.stage = "handled" /\ hand' = hand \ {h}
    /\ UNCHANGED <<open, dials, broker, watch, published, work, dead, consume, delivered, job, handled, life>>

-----------------------------------------------------------------------------
(* The poller, which Run waits for.                                        *)
ProcessBatch(m) ==
    /\ process = "up" /\ job[m] = "pending"
    /\ job' = [job EXCEPT ![m] = "processing"] /\ polled' = polled \cup {m}
    /\ UNCHANGED <<open, dials, broker, watch, published, work, dead, consume, hand, delivered, process, spent, handled, spoiled>>
BatchRuns(m) ==
    /\ Alive /\ m \in polled
    /\ Records(m) /\ polled' = polled \ {m}
    /\ UNCHANGED <<open, dials, broker, watch, published, work, dead, consume, hand, delivered, process, spent, handled, spoiled>>

(* A deploy, and what it waits for while its budget lasts.                 *)
(* Mutant of Drained: nothing.                                             *)
DrainedAtOnce == polled \subseteq Messages
Drained == polled = {}
Shutdown ==
    /\ process = "up" /\ process' = "stopping"
    /\ UNCHANGED <<open, dials, broker, watch, published, work, dead, consume, hand, delivered, job, polled, spent, handled, spoiled>>
Close ==
    /\ process = "stopping" /\ spent' = ~Drained
    /\ process' = "disconnected" /\ broker' = 0
    /\ open' = open \ {broker} /\ work' = work \cup Given({broker} \cap open)
    /\ UNCHANGED <<dials, watch, published, dead, consume, hand, delivered, job, polled, handled, spoiled>>
CloseDatabase ==
    /\ process = "disconnected" /\ process' = "closed"
    /\ UNCHANGED <<open, dials, broker, watch, published, work, dead, consume, hand, delivered, job, polled, spent, handled, spoiled>>
Exit ==
    /\ process = "closed" /\ process' = "gone"
    /\ work' = work \cup Given(open) /\ open' = {} /\ hand' = {}
    /\ UNCHANGED <<dials, broker, watch, published, dead, consume, delivered, job, polled, spent, handled, spoiled>>

Next ==
    \/ \E m \in Messages :
          \/ Dispatch(m) \/ Publish(m) \/ Stores(m) \/ Confirmed(m) \/ Unconfirmed(m) \/ Delivers(m)
          \/ ProcessBatch(m) \/ BatchRuns(m)
    \/ (\E c \in open : ConnectionLost(c))
    \/ WatchStarts \/ HearsClose \/ Wakes \/ Dials \/ connect
    \/ Consume \/ Pause \/ Leave \/ Return
    \/ \E h \in hand : Take(h) \/ Run(h) \/ Ack(h)
    \/ Shutdown \/ Close \/ CloseDatabase \/ Exit
Spec == Init /\ [][Next]_brokerVars

-----------------------------------------------------------------------------
(* The shape of both ends.                                                 *)
TypeOK ==
    /\ open \subseteq 1..dials /\ dials \in 1..MaxConnections
    /\ broker \in 0..dials
    /\ watch \in [at : {"starts", "listens", "sleeps", "declares", "gone"}, on : 0..dials]
    /\ spoiled \subseteq Messages
    /\ published \in [Messages -> [at : {"none", "dispatched", "sent", "stored", "confirmed", "lost"}, on : 0..dials]]
    /\ work \subseteq Messages /\ dead \subseteq Messages /\ handled \subseteq Messages /\ polled \subseteq Messages
    /\ consume \in [at : {"starts", "pauses", "consumes", "drains", "over"}, on : 0..dials]
    /\ hand \subseteq [message : Messages, on : 1..dials, stage : {"pushed", "runs", "handled"}]
    /\ delivered \in [Messages -> 0..MaxDeliveries]
    /\ job \in [Messages -> {"pending", "processing", "done"}]
    /\ process \in {"up", "stopping", "disconnected", "closed", "gone"} /\ spent \in BOOLEAN

(* A consumer never has more handlers at work than its prefetch, not even  *)
(* when the connection goes and the deliveries come again on another: the  *)
(* handlers of the old one are waited for first.                           *)
WithinPrefetch == Cardinality({h \in hand : h.stage # "pushed"}) <= Prefetch

(* What the broker confirmed is in one of its queues, in a delivery it     *)
(* will queue again unless it is acknowledged, or was handled.             *)
NothingForgotten ==
    \A m \in Messages : At(m, {"confirmed"}) => m \in work \cup dead \cup handled \cup Given(open)

(* A process that had the time to drain leaves no job of its poller's      *)
(* marked processing.                                                      *)
Left == {m \in Messages : process = "gone" /\ ~spent /\ job[m] = "processing"}
BatchesDrained == \A m \in Left : delivered[m] > 0

BrokerSound == WithinPrefetch /\ NothingForgotten /\ BatchesDrained

(* Nor any other: "the jobs already in hand run to their end and record    *)
(* themselves, and c.workersDone is what waits for them" (container.go:    *)
(* 851-855).  Run does not wait for the consumer it started.               *)
DrainWaits == Left = {}
=============================================================================
