-------------------------------- MODULE Gate --------------------------------
(* What a request passes before its handler: the gauge of requests in      *)
(* flight and the bulkhead of its replica, the session, and the budgets of *)
(* the caller, counted in Redis over fixed windows for all replicas.       *)
EXTENDS Integers, Sequences, FiniteSets

CONSTANTS
    Replicas, Requests,
    Journeys,       \* what may be asked: [kind, budgets: the keys it is counted under, in order]
    LimitOf,        \* key -> how many a window allows
    CheckoutMaxInFlight,
    Window,         \* in half seconds
    MaxFaults

GateAssumption ==
    /\ IsFiniteSet(Requests) /\ LimitOf \in [DOMAIN LimitOf -> Nat]
    /\ \A j \in Journeys : j.budgets \in Seq(DOMAIN LimitOf) /\ j.budgets # <<>>
    /\ CheckoutMaxInFlight \in Nat /\ Window \in Nat \ {0} /\ MaxFaults \in Nat

VARIABLES
    slots, gauge,   \* replica -> taken, under way
    request,
    counter,        \* key -> [n, ttl]; ttl 0 when there is none
    admitted,       \* key -> requests it let through in its window
    faults

Gone == [at |-> "none", replica |-> 0, journey |-> [kind |-> "", budgets |-> <<>>], next |-> 1, held |-> FALSE,
         status |-> 0, wait |-> 0, ended |-> FALSE]
NoCount == [n |-> 0, ttl |-> 0]
Keys == DOMAIN LimitOf
UnderWay(q) == request[q].at \in {"session", "count", "work", "over"}

Init ==
    /\ slots = [p \in Replicas |-> 0] /\ gauge = [p \in Replicas |-> 0]
    /\ request = [q \in Requests |-> Gone]
    /\ counter = [k \in Keys |-> NoCount] /\ admitted = [k \in Keys |-> 0]
    /\ faults = 0

Becomes(q, next) == request' = [request EXCEPT ![q] = next]
Over(q, status, wait) == [request[q] EXCEPT !.at = "over", !.status = status, !.wait = wait]

-----------------------------------------------------------------------------
(* The bulkhead does not queue: it turns away, before anything is spent.   *)
Enters(q, p, j) ==
    LET arrived == [Gone EXCEPT !.replica = p, !.journey = j] IN
    /\ request[q] = Gone
    /\ gauge' = [gauge EXCEPT ![p] = @ + 1]
    /\ \/ /\ j.kind = "checkout" /\ slots[p] < CheckoutMaxInFlight
          /\ slots' = [slots EXCEPT ![p] = @ + 1]
          /\ Becomes(q, [arrived EXCEPT !.at = "session", !.held = TRUE])
       \/ /\ j.kind = "checkout" /\ slots[p] >= CheckoutMaxInFlight
          /\ Becomes(q, [arrived EXCEPT !.at = "over", !.status = 503, !.wait = 2])
          /\ UNCHANGED slots
       \/ /\ j.kind = "login"
          /\ Becomes(q, [arrived EXCEPT !.at = "count"])
          /\ UNCHANGED slots
    /\ UNCHANGED <<counter, admitted, faults>>

Authenticates(q) ==
    /\ request[q].at = "session"
    /\ \/ Becomes(q, [request[q] EXCEPT !.at = "count"])
       \/ Becomes(q, Over(q, 401, 0))
       \/ Becomes(q, Over(q, 503, 2))
    /\ UNCHANGED <<slots, gauge, counter, admitted, faults>>

-----------------------------------------------------------------------------
(* The script counts and sets the expiry of a new counter at once.         *)
Key(q) == request[q].journey.budgets[request[q].next]
IncrementedUnset(k) == [n |-> counter[k].n + 1, ttl |-> counter[k].ttl]
Incremented(k) == [n |-> counter[k].n + 1, ttl |-> IF counter[k].n = 0 THEN Window ELSE counter[k].ttl]
(* Whole seconds, and one more.                                            *)
WaitShort(ttl) == 2 * (ttl \div 2)
Wait(ttl) == 2 * (ttl \div 2 + 1)
Allowed(q) == [request[q] EXCEPT !.next = @ + 1,
                                 !.at = IF request[q].next = Len(request[q].journey.budgets) THEN "work" ELSE "count"]
Count(q) ==
    LET now == Incremented(Key(q)) IN
    /\ request[q].at = "count"
    /\ counter' = [counter EXCEPT ![Key(q)] = now]
    /\ IF now.n <= LimitOf[Key(q)]
       THEN Becomes(q, Allowed(q)) /\ admitted' = [admitted EXCEPT ![Key(q)] = @ + 1]
       ELSE Becomes(q, Over(q, 429, Wait(now.ttl))) /\ UNCHANGED admitted
    /\ UNCHANGED <<slots, gauge, faults>>
(* Redis does not answer, with or without having counted: it opens.        *)
CountFails(q) ==
    /\ request[q].at = "count" /\ faults < MaxFaults /\ faults' = faults + 1
    /\ counter' \in {counter, [counter EXCEPT ![Key(q)] = Incremented(Key(q))]}
    /\ Becomes(q, Allowed(q)) /\ admitted' = [admitted EXCEPT ![Key(q)] = @ + 1]
    /\ UNCHANGED <<slots, gauge>>

-----------------------------------------------------------------------------
(* The handler answers or panics; either way what was taken is given back. *)
Works(q) ==
    /\ request[q].at = "work" /\ \E status \in {200, 0} : Becomes(q, Over(q, status, 0))
    /\ UNCHANGED <<slots, gauge, counter, admitted, faults>>
LeavesAnswered(q) == IF request[q].held /\ request[q].status # 0 THEN [slots EXCEPT ![request[q].replica] = @ - 1] ELSE slots
Leaves(q) == IF request[q].held THEN [slots EXCEPT ![request[q].replica] = @ - 1] ELSE slots
Ends(q) ==
    /\ request[q].at = "over"
    /\ slots' = Leaves(q)
    /\ gauge' = [gauge EXCEPT ![request[q].replica] = @ - 1]
    /\ Becomes(q, IF request[q].status = 429 THEN [request[q] EXCEPT !.at = "waits", !.held = FALSE] ELSE Gone)
    /\ UNCHANGED <<counter, admitted, faults>>
(* One that was told to wait comes back when it has.                       *)
Returns(q) ==
    /\ request[q].at = "waits" /\ request[q].wait = 0
    /\ Becomes(q, Gone)
    /\ UNCHANGED <<slots, gauge, counter, admitted, faults>>

Crash(p) ==
    /\ faults < MaxFaults /\ faults' = faults + 1
    /\ slots' = [slots EXCEPT ![p] = 0] /\ gauge' = [gauge EXCEPT ![p] = 0]
    /\ request' = [q \in Requests |-> IF UnderWay(q) /\ request[q].replica = p THEN Gone ELSE request[q]]
    /\ UNCHANGED <<counter, admitted>>

(* A window that ends takes its counter with it.                           *)
Tick ==
    LET Ended == {k \in Keys : counter[k].ttl = 1} IN
    /\ counter' = [k \in Keys |-> IF counter[k].ttl <= 1 THEN NoCount ELSE [counter[k] EXCEPT !.ttl = @ - 1]]
    /\ admitted' = [k \in Keys |-> IF k \in Ended THEN 0 ELSE admitted[k]]
    /\ request' = [q \in Requests |->
         IF request[q].at \in {"over", "waits"} /\ request[q].status = 429
         THEN [request[q] EXCEPT !.wait = IF @ = 0 THEN 0 ELSE @ - 1, !.ended = @ \/ Key(q) \in Ended] ELSE request[q]]
    /\ UNCHANGED <<slots, gauge, faults>>

Next ==
    \/ \E q \in Requests : \/ \E p \in Replicas, j \in Journeys : Enters(q, p, j)
                           \/ Authenticates(q) \/ Count(q) \/ CountFails(q) \/ Works(q) \/ Ends(q) \/ Returns(q)
    \/ (\E p \in Replicas : Crash(p)) \/ Tick

-----------------------------------------------------------------------------
TypeOK ==
    /\ \A k \in Keys : counter[k].ttl \in 0..Window /\ (counter[k].n = 0 <=> counter[k].ttl = 0)
    /\ \A q \in Requests : request[q].at \in {"none", "session", "count", "work", "over", "waits"}

(* A slot is one request's, whichever way requests end, and the gauge      *)
(* counts those under way: nothing leaks until checkouts are refused for   *)
(* good.                                                                   *)
SlotsHeld == \A p \in Replicas :
    /\ slots[p] = Cardinality({q \in Requests : UnderWay(q) /\ request[q].replica = p /\ request[q].held})
    /\ gauge[p] = Cardinality({q \in Requests : UnderWay(q) /\ request[q].replica = p})
    /\ slots[p] <= CheckoutMaxInFlight

(* All replicas together let a caller through as often as a window allows. *)
BudgetKept == faults = 0 => \A k \in Keys : admitted[k] <= LimitOf[k]

(* Who waits as long as he was told finds the window that refused him      *)
(* over.                                                                   *)
PatienceRewarded == \A q \in Requests : request[q].at = "waits" /\ request[q].wait = 0 => request[q].ended

GateSound == SlotsHeld /\ BudgetKept /\ PatienceRewarded
=============================================================================
