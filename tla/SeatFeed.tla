------------------------------- MODULE SeatFeed -------------------------------
(***************************************************************************)
(* The map a crowd polls: every change of a chair takes the next number of *)
(* one sequence, and a client asks for what is newer than the newest it    *)
(* has seen.  The number is taken when the statement runs and is seen when *)
(* its transaction commits; the two orders differ.                         *)
(***************************************************************************)
EXTENDS Integers, FiniteSets

CONSTANTS
    Seats,
    Orders,
    Clients,
    MaxVersion,     \* bound on the numbers taken
    None

FeedAssumption == IsFiniteSet(Seats) /\ MaxVersion \in Nat \ {0} /\ None \notin Orders

VARIABLES sequence, seat, change, screen

feedVars == <<sequence, seat, change, screen>>

Free == [status |-> "available", order |-> None, version |-> 1]
NoChange == [kind |-> "none"]

Init ==
    /\ sequence = 1
    /\ seat = [s \in Seats |-> Free]
    /\ change = [o \in Orders |-> NoChange]
    /\ screen = [c \in Clients |-> [cursor |-> 0, shows |-> [s \in Seats |-> None]]]

-----------------------------------------------------------------------------
(* A transaction in hand holds the rows it has changed.                    *)
Written(o) == IF change[o] = NoChange THEN {} ELSE DOMAIN change[o].rows
Locked == UNION {Written(o) : o \in Orders}

(* One statement stamps its rows in turn from the sequence.                *)
Stamp(rows, status, order) ==
    LET first == sequence + 1 IN
    {f \in [rows -> [status : {status}, order : {order}, version : first..(sequence + Cardinality(rows))]] :
        \A s, t \in rows : s # t => f[s].version # f[t].version}

Change(o, rows, status, order, kind) ==
    /\ change[o] = NoChange /\ rows \cap Locked = {} /\ sequence + Cardinality(rows) <= MaxVersion
    /\ \E stamped \in Stamp(rows, status, order) :
          change' = [change EXCEPT ![o] = [kind |-> kind, rows |-> stamped]]
    /\ sequence' = sequence + Cardinality(rows)
    /\ UNCHANGED <<seat, screen>>

(* Mutant of Claimable: a chair somebody holds may be claimed over.        *)
ClaimableHeld(s) == seat[s].status # "blocked"
Claimable(s) == seat[s].status = "available"

(* All of what was asked, or the transaction is undone; the numbers it     *)
(* took are not given back.                                                *)
Claim(o, wanted) ==
    /\ wanted # {} /\ \A s \in Seats : seat[s].order # o
    /\ \A s \in wanted : Claimable(s)
    /\ Change(o, wanted, "held", o, "claim")

Mine(o, status) == {s \in Seats : seat[s].order = o /\ seat[s].status = status}
ReleaseForOrder(o) == Mine(o, "held") # {} /\ Change(o, Mine(o, "held"), "available", None, "release")
CommitForOrder(o) == Mine(o, "held") # {} /\ Change(o, Mine(o, "held"), "sold", o, "commit")
ReleaseSoldForOrder(o) == Mine(o, "sold") # {} /\ Change(o, Mine(o, "sold"), "available", None, "return")

Commits(o) ==
    /\ change[o] # NoChange
    /\ seat' = [s \in Seats |-> IF s \in Written(o) THEN change[o].rows[s] ELSE seat[s]]
    /\ change' = [change EXCEPT ![o] = NoChange]
    /\ UNCHANGED <<sequence, screen>>

RollsBack(o) ==
    /\ change[o] # NoChange
    /\ change' = [change EXCEPT ![o] = NoChange]
    /\ UNCHANGED <<sequence, seat, screen>>

-----------------------------------------------------------------------------
(* The poll: the whole map from no cursor, what is newer from one; nothing *)
(* newer is answered with no cursor at all, and the client keeps its own.  *)
ListByEvent(since) == {s \in Seats : since = 0 \/ seat[s].version > since}
Newest(rows, kept) ==
    CHOOSE v \in {seat[s].version : s \in rows} \cup {kept} :
        \A w \in {seat[s].version : s \in rows} \cup {kept} : w <= v

Map(c) ==
    LET rows == ListByEvent(screen[c].cursor) IN
    /\ screen' = [screen EXCEPT ![c] =
          [cursor |-> Newest(rows, @.cursor),
           shows |-> [s \in Seats |-> IF s \in rows THEN [status |-> seat[s].status, version |-> seat[s].version]
                                      ELSE @.shows[s]]]]
    /\ UNCHANGED <<sequence, seat, change>>

Reload(c) ==
    /\ screen' = [screen EXCEPT ![c].cursor = 0]
    /\ UNCHANGED <<sequence, seat, change>>

Next ==
    \/ \E o \in Orders :
          \/ \E wanted \in SUBSET Seats : Claim(o, wanted)
          \/ ReleaseForOrder(o) \/ CommitForOrder(o) \/ ReleaseSoldForOrder(o)
          \/ Commits(o) \/ RollsBack(o)
    \/ \E c \in Clients : Map(c) \/ Reload(c)

Spec == Init /\ [][Next]_feedVars

-----------------------------------------------------------------------------
(* Type invariant of chairs and screens.                                   *)
TypeOK ==
    /\ sequence \in 1..MaxVersion
    /\ \A s \in Seats : seat[s].status \in {"available", "held", "sold"} /\ seat[s].version \in 1..sequence
    /\ \A c \in Clients : screen[c].cursor \in 0..sequence

(* An old map costs a refused claim and no more.  A chair is one order's   *)
(* at a time, from the claim to its release, whatever a screen showed; no  *)
(* two changes carry one number, and what a screen shows of a chair is     *)
(* something that chair was, never older than what it showed before.       *)
OldMapSellsNothing ==
    /\ \A s \in Seats : seat[s].order # None /\ seat'[s].order # None => seat'[s].order = seat[s].order
    /\ \A s \in Seats : seat'[s] # seat[s] => seat'[s].version > seat[s].version
    /\ \A s, t \in Seats : s # t /\ seat'[s].version # 1 => seat'[s].version # seat'[t].version
    /\ \A c \in Clients, s \in Seats : screen[c].shows[s] # None =>
          screen'[c].shows[s].version >= screen[c].shows[s].version
OldMapSellsNothingTwice == [][OldMapSellsNothing]_feedVars

(* What the cursor promises: a client asks what changed since a number and *)
(* gets that.  A change numbered before the cursor and committed after it  *)
(* is never sent.                                                          *)
DeltaMissesNothing ==
    \A c \in Clients, s \in Seats :
        screen[c].cursor > 0 /\ seat[s].version <= screen[c].cursor =>
            screen[c].shows[s] = [status |-> seat[s].status, version |-> seat[s].version]
=============================================================================
