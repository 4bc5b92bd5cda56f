------------------------------- MODULE Startup -------------------------------
(* A deploy: replicas of the new release start beside the old one, move    *)
(* the data to the new schema in one transaction, build the indexes one at *)
(* a time outside it, serve, and are stopped.                              *)
EXTENDS Integers, Sequences, FiniteSets, FiniteSetsExt

CONSTANTS
    Replicas,
    Tiers,          \* tier -> [owner, name, drawn]: drawn when it has a picture
    Sales,          \* order -> [tier, quantity, total, new]: new when the new release sells it
    Rules,          \* indexes that are rules, in order
    Speed,          \* and those that only make queries fast
    Replacing,      \* the rule that used to be enforced by another index
    MaxFaults,
    Nobody

StartupAssumption ==
    /\ Nobody \notin Replicas /\ MaxFaults \in Nat
    /\ Tiers \in Seq([owner : STRING, name : STRING, drawn : BOOLEAN])
    /\ Sales \in Seq([tier : DOMAIN Tiers, quantity : Nat, total : Nat, new : BOOLEAN])
    /\ Rules \in Seq(STRING) /\ Speed \in Seq(STRING)

VARIABLES
    schema,         \* "old" or "new"
    event,          \* tier -> its event, 0 before it has one
    events,         \* event -> [owner, slug]
    media,          \* tier with a picture -> what the picture's row names
    order,          \* sold order -> its row
    index, superseded, twice,   \* twice: rows some rule forbids
    lock, replica, oldServes, faults

All == Rules \o Speed
Names == {All[i] : i \in DOMAIN All}
IsRule(i) == \E n \in DOMAIN Rules : Rules[n] = i
Down == [at |-> "down", missing |-> {}, skipped |-> FALSE]

Init ==
    /\ schema = "old" /\ oldServes = TRUE
    /\ event = [t \in DOMAIN Tiers |-> 0] /\ events = <<>>
    /\ media = [t \in {u \in DOMAIN Tiers : Tiers[u].drawn} |-> t]
    /\ order = <<>>
    /\ index = [i \in Names |-> "none"] /\ superseded = TRUE /\ twice = {}
    /\ lock = Nobody /\ replica = [r \in Replicas |-> Down] /\ faults = 0

bootVars == <<lock, replica, faults>>
dataVars == <<schema, event, events, media, order>>
indexVars == <<index, superseded, twice>>

-----------------------------------------------------------------------------
(* Both releases sell; the old one until its columns are gone.             *)
OldRow(o) == [tier |-> Sales[o].tier, quantity |-> Sales[o].quantity, total |-> Sales[o].total, event |-> 0,
              lines |-> {}, subtotal |-> 0, fee |-> 0]
(* The fee is on top of what the organiser asks; a free ticket has none.   *)
Fee(o) == IF Sales[o].total = 0 THEN 0 ELSE 1
NewRow(o) == [tier |-> 0, quantity |-> 0, total |-> Sales[o].total + Fee(o), event |-> event[Sales[o].tier],
              lines |-> {[tier |-> Sales[o].tier, quantity |-> Sales[o].quantity, total |-> Sales[o].total]},
              subtotal |-> Sales[o].total, fee |-> Fee(o)]
With(f, k, v) == [x \in DOMAIN f \cup {k} |-> IF x = k THEN v ELSE f[x]]
OldSells(o) ==
    /\ oldServes /\ schema = "old" /\ ~Sales[o].new /\ o \notin DOMAIN order
    /\ order' = With(order, o, OldRow(o))
    /\ UNCHANGED <<schema, event, events, media, indexVars, bootVars, oldServes>>
NewSells(o) ==
    /\ \E r \in Replicas : replica[r].at \in {"serving", "draining"}
    /\ Sales[o].new /\ o \notin DOMAIN order
    /\ order' = With(order, o, NewRow(o))
    /\ UNCHANGED <<schema, event, events, media, indexVars, bootVars, oldServes>>

-----------------------------------------------------------------------------
(* The migration, step after step, in one transaction.                     *)
Data == [event |-> event, events |-> events, media |-> media, order |-> order]
Group(t) == <<Tiers[t].owner, Tiers[t].name>>
(* An event for each owner and name; its address is its name unless some   *)
(* other event has that already.                                           *)
Loose(d) == {t \in DOMAIN Tiers : d.event[t] = 0}
Heads(d) == {t \in Loose(d) : \A u \in Loose(d) : Group(u) = Group(t) => t <= u}
HeadOf(d, t) == CHOOSE u \in Heads(d) : Group(u) = Group(t)
uniqueSlug(d, t) ==
    IF \E u \in Heads(d) : Tiers[u].name = Tiers[t].name /\ u < t THEN <<Tiers[t].name, t>> ELSE <<Tiers[t].name, 0>>
backfillEvents(d) ==
    [d EXCEPT !.event = [t \in DOMAIN Tiers |-> IF t \in Loose(d) THEN HeadOf(d, t) ELSE @[t]],
              !.events = [e \in DOMAIN @ \cup Heads(d) |->
                            IF e \in DOMAIN @ THEN @[e] ELSE [owner |-> Tiers[e].owner, slug |-> uniqueSlug(d, e)]]]
(* Pictures follow their tier to its event; those that cannot are deleted. *)
moveMediaToEvents(d) ==
    [d EXCEPT !.media = [t \in {u \in DOMAIN @ : d.event[u] \in DOMAIN d.events} |-> d.event[t]]]
backfillOrderItems(d) ==
    [d EXCEPT !.order = [o \in DOMAIN @ |->
        IF @[o].tier # 0 /\ @[o].lines = {}
        THEN [@[o] EXCEPT !.lines = {[tier |-> d.order[o].tier, quantity |-> d.order[o].quantity, total |-> d.order[o].total]}]
        ELSE @[o]]]
backfillOrderEvents(d) ==
    [d EXCEPT !.order = [o \in DOMAIN @ |->
        IF @[o].event = 0 /\ @[o].lines # {}
        THEN [@[o] EXCEPT !.event = d.event[(CHOOSE l \in d.order[o].lines : TRUE).tier]] ELSE @[o]]]
Unlined(d) == {o \in DOMAIN d.order : d.order[o].tier # 0 /\ d.order[o].lines = {}}
dropSupersededOrderColumns(d) ==
    [d EXCEPT !.order = [o \in DOMAIN @ |-> [@[o] EXCEPT !.tier = 0, !.quantity = 0]]]
backfillOrderPricing(d) ==
    [d EXCEPT !.order = [o \in DOMAIN @ |->
        IF @[o].subtotal = 0 /\ @[o].total # 0 THEN [@[o] EXCEPT !.subtotal = d.order[o].total, !.fee = 0] ELSE @[o]]]

MediaFirst(d) == backfillEvents(moveMediaToEvents(d))
Happenings(d) == moveMediaToEvents(backfillEvents(d))
Receipts(d) == backfillOrderEvents(backfillOrderItems(d))
RunMigrations(r) ==
    /\ replica[r].at = "down"
    /\ LET first == IF schema = "old" THEN Receipts(Happenings(Data)) ELSE Receipts(backfillEvents(Data))
           last == backfillOrderPricing(dropSupersededOrderColumns(first))
       IN  /\ Unlined(first) = {}
           /\ event' = last.event /\ events' = last.events /\ media' = last.media /\ order' = last.order
    /\ schema' = "new"
    /\ replica' = [replica EXCEPT ![r] = [Down EXCEPT !.at = "migrated"]]
    /\ UNCHANGED <<indexVars, lock, faults, oldServes>>

-----------------------------------------------------------------------------
(* The indexes: what is missing is built by one replica; another that      *)
(* meets it at work goes on without waiting.                               *)
missingIndexes == {i \in Names : index[i] # "valid"}
Goes(r, at) == replica' = [replica EXCEPT ![r].at = at]
LookForIndexes(r) ==
    /\ replica[r].at = "migrated"
    /\ replica' = [replica EXCEPT ![r].at = IF missingIndexes = {} THEN "dropping" ELSE "trying", ![r].missing = missingIndexes]
    /\ UNCHANGED <<dataVars, indexVars, lock, faults, oldServes>>
Unread(r) == replica[r].missing
Reread(r) == missingIndexes
TryLock(r) ==
    /\ replica[r].at = "trying"
    /\ IF lock = Nobody
       THEN lock' = r /\ replica' = [replica EXCEPT ![r].at = "building", ![r].missing = Reread(r)]
       ELSE UNCHANGED lock /\ replica' = [replica EXCEPT ![r].at = "serving", ![r].skipped = TRUE]
    /\ UNCHANGED <<dataVars, indexVars, faults, oldServes>>

NextIndex(r) == All[CHOOSE n \in DOMAIN All : All[n] \in replica[r].missing /\ \A m \in 1..(n - 1) : All[m] \notin replica[r].missing]
(* What a failed attempt left is dropped first.                            *)
BuildBegins(r) ==
    /\ replica[r].at = "building" /\ replica[r].missing # {}
    /\ index' = [index EXCEPT ![NextIndex(r)] = "invalid"]
    /\ Goes(r, "creating")
    /\ UNCHANGED <<dataVars, superseded, twice, lock, faults, oldServes>>
Built(r) == [replica EXCEPT ![r].at = "building", ![r].missing = @ \ {NextIndex(r)}]
BuildEnds(r) ==
    /\ replica[r].at = "creating" /\ NextIndex(r) \notin twice
    /\ index' = [index EXCEPT ![NextIndex(r)] = "valid"]
    /\ replica' = Built(r)
    /\ UNCHANGED <<dataVars, superseded, twice, lock, faults, oldServes>>
(* It runs out of time, or meets rows its rule forbids: without a rule the *)
(* replica does not start, without speed it does.                          *)
Stops(r) == replica' = [replica EXCEPT ![r] = Down] /\ lock' = IF lock = r THEN Nobody ELSE lock
BuildFails(r) ==
    /\ replica[r].at = "creating"
    /\ \/ NextIndex(r) \in twice /\ UNCHANGED faults
       \/ NextIndex(r) \notin twice /\ faults < MaxFaults /\ faults' = faults + 1
    /\ IF IsRule(NextIndex(r)) THEN Stops(r) ELSE replica' = Built(r) /\ UNCHANGED lock
    /\ UNCHANGED <<dataVars, indexVars, oldServes>>
dropSupersededIndexes(r) ==
    /\ \/ replica[r].at = "dropping"
       \/ replica[r].at = "building" /\ replica[r].missing = {}
    /\ superseded' = FALSE
    /\ lock' = IF lock = r THEN Nobody ELSE lock
    /\ Goes(r, "serving")
    /\ UNCHANGED <<dataVars, index, twice, faults, oldServes>>

(* Two requests meet where only the rule would have stopped the second.    *)
Collide(i) ==
    /\ IsRule(i) /\ index[i] # "valid" /\ (i = Replacing => ~superseded) /\ i \notin twice
    /\ \E r \in Replicas : replica[r].at \in {"serving", "draining"}
    /\ twice' = twice \cup {i}
    /\ UNCHANGED <<dataVars, index, superseded, bootVars, oldServes>>

-----------------------------------------------------------------------------
(* The server drains before it stops; a crash gives its locks back.        *)
Shutdown(r) ==
    /\ replica[r].at = "serving" /\ Goes(r, "draining")
    /\ UNCHANGED <<dataVars, indexVars, lock, faults, oldServes>>
Drained(r) ==
    /\ replica[r].at = "draining" /\ Stops(r)
    /\ UNCHANGED <<dataVars, indexVars, faults, oldServes>>
Crash(r) ==
    /\ replica[r].at # "down" /\ faults < MaxFaults /\ faults' = faults + 1
    /\ Stops(r)
    /\ UNCHANGED <<dataVars, indexVars, oldServes>>
OldRetires ==
    /\ oldServes /\ oldServes' = FALSE
    /\ UNCHANGED <<dataVars, indexVars, bootVars>>

Next ==
    \/ \E o \in DOMAIN Sales : OldSells(o) \/ NewSells(o)
    \/ \E r \in Replicas : \/ RunMigrations(r) \/ LookForIndexes(r) \/ TryLock(r) \/ BuildBegins(r) \/ BuildEnds(r)
                           \/ BuildFails(r) \/ dropSupersededIndexes(r) \/ Shutdown(r) \/ Drained(r) \/ Crash(r)
    \/ (\E i \in Names : Collide(i)) \/ OldRetires

-----------------------------------------------------------------------------
TypeOK ==
    /\ schema \in {"old", "new"} /\ lock \in Replicas \cup {Nobody}
    /\ \A i \in Names : index[i] \in {"none", "invalid", "valid"}
    /\ \A r \in Replicas : replica[r].at \in
         {"down", "migrated", "trying", "building", "creating", "dropping", "serving", "draining"}

(* A sale of the old release reads afterwards as it was sold: one line, at *)
(* its price, for the event of its tier, without a fee nobody charged; and *)
(* a sale of the new one is not touched by a replica that starts later.    *)
ReceiptsStand == schema = "new" => \A o \in DOMAIN order :
    LET sale == Sales[o]  row == order[o] IN
    /\ row.lines = {[tier |-> sale.tier, quantity |-> sale.quantity, total |-> sale.total]}
    /\ row.event = event[sale.tier] /\ row.event \in DOMAIN events
    /\ row.subtotal = sale.total /\ row.subtotal + row.fee = row.total

(* Tiers of one owner and one name share an event that is the owner's, at  *)
(* an address of its own, and no picture is lost on the way.               *)
ShowsStand == schema = "new" =>
    /\ \A t, u \in DOMAIN Tiers : event[t] = event[u] <=> Group(t) = Group(u)
    /\ \A t \in DOMAIN Tiers : events[event[t]].owner = Tiers[t].owner /\ (Tiers[t].drawn => t \in DOMAIN media /\ media[t] = event[t])
    /\ \A e, f \in DOMAIN events : events[e].slug = events[f].slug => e = f

(* The index a rule replaces goes only when every rule is in force, and no *)
(* rule in force is taken down by a replica that starts later.             *)
RulesInForce ==
    /\ ~superseded => \A i \in Names : IsRule(i) => index[i] = "valid"
    /\ \A r \in Replicas : replica[r].at = "serving" /\ ~replica[r].skipped => ~superseded

StartupSound == ReceiptsStand /\ ShowsStand /\ RulesInForce

(* Refuted: "a failure has to abort the boot".  The replica that fails     *)
(* does not start; one that found the lock taken serves without the rule.  *)
NoRuleNoService == \A r \in Replicas : replica[r].at = "serving" => \A i \in Names : IsRule(i) => index[i] = "valid"
=============================================================================
