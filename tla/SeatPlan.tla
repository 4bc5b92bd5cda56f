------------------------------- MODULE SeatPlan -------------------------------
(***************************************************************************)
(* A venue's layout and the night cut from it: the editor saves whole      *)
(* drawings over one another, one event takes the chairs and freezes the   *)
(* layout, and standing areas are given tickets of their own.              *)
(*                                                                         *)
(* A section stands for its chairs.  Saving is a transaction of two deletes *)
(* and an insert, each of which sees what is committed when it begins, and *)
(* waits for the rows another transaction has deleted.                     *)
(***************************************************************************)
EXTENDS Integers

CONSTANTS
    Callers,        \* concurrent requests of organisers and buyers
    Drawings,       \* what an organiser may draw: sets of sections
    PriceLists,     \* functions from bands to tickets
    Tickets,
    Quantities,     \* what a ticket's stock may be set to
    MaxSaves,       \* bound on the drawings saved
    Nothing

Bindings == [area : [section : UNION Drawings, save : 1..MaxSaves], ticket : Tickets, capacity : Nat]
PlanAssumption ==
    /\ Quantities \subseteq Nat /\ MaxSaves \in Nat
    /\ \A s \in UNION Drawings : s.capacity \in Nat
    /\ Nothing \notin [areas : SUBSET Bindings]

VARIABLES layout, stored, saves, desk, chairs, manifest, stock

planVars == <<layout, stored, saves, desk, chairs, manifest, stock>>

Free == [stage |-> "free"]
Hand(c, record) == desk' = [desk EXCEPT ![c] = record]

Init ==
    /\ layout = [status |-> "draft", frozen |-> FALSE]
    /\ stored = {}
    /\ saves = 0
    /\ desk = [c \in Callers |-> Free]
    /\ chairs = {}
    /\ manifest = Nothing
    /\ stock \in [Tickets -> [quantity : Quantities, taken : {0}, ordered : {FALSE}]]

-----------------------------------------------------------------------------
(* Saving a drawing.  A frozen layout and a drawing whose sections stand   *)
(* on each other are refused; sections get new ids every time.             *)
OnOneFloor(sections) == \E s, t \in sections : s # t /\ s.floor = t.floor

Save(c, drawing) ==
    /\ desk[c].stage = "free" /\ saves < MaxSaves
    /\ IF layout.frozen \/ OnOneFloor(drawing)
       THEN UNCHANGED <<saves, desk>>
       ELSE /\ saves' = saves + 1
            /\ Hand(c, [stage |-> "seats", new |-> {[section |-> s, save |-> saves'] : s \in drawing}])
    /\ UNCHANGED <<layout, stored, chairs, manifest, stock>>

(* Rows another transaction has deleted hold this one up.                  *)
Others(c, stages) == {d \in Callers \ {c} : desk[d].stage \in stages}
SeatedOf(rows) == {r \in rows : r.section.seated}

DeleteSeats(c) ==
    /\ desk[c].stage = "seats"
    /\ \A d \in Others(c, {"sections", "insert"}) : desk[d].seats \cap SeatedOf(stored) = {}
    /\ Hand(c, [stage |-> "sections", new |-> desk[c].new, seats |-> SeatedOf(stored)])
    /\ UNCHANGED <<layout, stored, saves, chairs, manifest, stock>>

DeleteSections(c) ==
    /\ desk[c].stage = "sections"
    /\ Hand(c, [stage |-> "insert", new |-> desk[c].new, seats |-> desk[c].seats, doomed |-> stored,
                first |-> \A d \in Others(c, {"insert"}) : desk[d].doomed \cap stored = {}])
    /\ UNCHANGED <<layout, stored, saves, chairs, manifest, stock>>

ReplaceSections(c) ==
    /\ desk[c].stage = "insert"
    /\ desk[c].first \/ \A d \in Others(c, {"insert"}) : desk[d].first => desk[d].doomed \cap desk[c].doomed = {}
    /\ \/ stored' = (stored \ desk[c].doomed) \cup desk[c].new
       \/ UNCHANGED stored          \* the transaction failed
    /\ Hand(c, Free)
    /\ UNCHANGED <<layout, saves, chairs, manifest, stock>>

PublishLayout ==
    /\ stored # {}
    /\ layout' = [layout EXCEPT !.status = "published"]
    /\ UNCHANGED <<stored, saves, desk, chairs, manifest, stock>>

-----------------------------------------------------------------------------
(* Cutting the night: the sections are read, then their chairs, then one   *)
(* transaction writes the manifest, the chairs and the freeze.             *)
ReadSections(c, prices) ==
    /\ desk[c].stage = "free" /\ manifest = Nothing
    /\ Hand(c, [stage |-> "chairs", sections |-> SeatedOf(stored), prices |-> prices])
    /\ UNCHANGED <<layout, stored, saves, chairs, manifest, stock>>

Priced(k) == {r \in k.sections \cap stored : r.section.band \in DOMAIN k.prices}
ReadChairs(c) ==
    LET k == desk[c] IN
    /\ k.stage = "chairs"
    /\ IF DOMAIN k.prices = {r.section.band : r \in Priced(k)}
       THEN Hand(c, [stage |-> "cut", rows |-> {[at |-> r, ticket |-> k.prices[r.section.band], by |-> c] : r \in Priced(k)}])
       ELSE Hand(c, Free)
    /\ UNCHANGED <<layout, stored, saves, chairs, manifest, stock>>

(* Mutant of ManifestFree: the earlier look decides.                       *)
ManifestFreeUnkeyed == desk # Nothing
ManifestFree == manifest = Nothing

Materialise(c) ==
    /\ desk[c].stage = "cut"
    /\ IF ManifestFree
       THEN /\ manifest' = [areas |-> {}]
            /\ chairs' = chairs \cup desk[c].rows
            /\ layout' = [status |-> "published", frozen |-> TRUE]
       ELSE UNCHANGED <<manifest, chairs, layout>>
    /\ Hand(c, Free)
    /\ UNCHANGED <<stored, saves, stock>>

-----------------------------------------------------------------------------
(* Giving areas their tickets, under the manifest's lock and the tickets'. *)
Untouched(t) == stock[t].taken = 0 /\ ~stock[t].ordered

(* Mutant of MayPrice: a numbered ticket may price a floor.                *)
MayPriceNumbered(area, t) == stock[t].quantity <= area.section.capacity
MayPrice(area, t) == stock[t].quantity <= area.section.capacity /\ \A k \in chairs : k.ticket # t

BindAreas(areas, price) ==
    LET next == {[area |-> a, ticket |-> price[a], capacity |-> a.section.capacity] : a \in areas} IN
    /\ manifest # Nothing /\ \A c \in Callers : desk[c].stage = "start" => ~desk[c].shares
    /\ \A a, b \in areas : a # b => price[a] # price[b]
    /\ \A n \in next : MayPrice(n.area, n.ticket) /\ (n \in manifest.areas \/ Untouched(n.ticket))
    /\ \A n \in manifest.areas \ next : Untouched(n.ticket)
    /\ manifest' = [areas |-> next]
    /\ UNCHANGED <<layout, stored, saves, desk, chairs, stock>>

(* Buying from a count: the manifest, if there is one, is held in share    *)
(* while the stock is taken, and the area's size caps what is taken.       *)
StartReads(c, t) ==
    /\ desk[c].stage = "free" /\ \A k \in chairs : k.ticket # t
    /\ Hand(c, [stage |-> "start", ticket |-> t, shares |-> manifest # Nothing])
    /\ UNCHANGED <<layout, stored, saves, chairs, manifest, stock>>

(* Mutant of Cap: the area is not asked.                                   *)
CapTicket(t) == stock[t].quantity
Cap(t) ==
    LET priced == IF manifest = Nothing THEN {} ELSE {n \in manifest.areas : n.ticket = t}
    IN  IF priced = {} THEN stock[t].quantity
        ELSE CHOOSE q \in {n.capacity : n \in priced} : \A n \in priced : q <= n.capacity

Reserve(c) ==
    LET t == desk[c].ticket IN
    /\ desk[c].stage = "start"
    /\ stock' = IF stock[t].taken < stock[t].quantity /\ stock[t].taken + 1 <= Cap(t)
                THEN [stock EXCEPT ![t].taken = @ + 1, ![t].ordered = TRUE] ELSE stock
    /\ Hand(c, Free)
    /\ UNCHANGED <<layout, stored, saves, chairs, manifest>>

Release(t) ==
    /\ stock[t].taken > 0
    /\ stock' = [stock EXCEPT ![t].taken = @ - 1]
    /\ UNCHANGED <<layout, stored, saves, desk, chairs, manifest>>

EditTier(t, quantity) ==
    /\ quantity >= stock[t].taken
    /\ stock' = [stock EXCEPT ![t].quantity = quantity]
    /\ UNCHANGED <<layout, stored, saves, desk, chairs, manifest>>

Next ==
    \/ \E c \in Callers :
          \/ \E drawing \in Drawings : Save(c, drawing)
          \/ DeleteSeats(c) \/ DeleteSections(c) \/ ReplaceSections(c)
          \/ \E prices \in PriceLists : ReadSections(c, prices)
          \/ ReadChairs(c) \/ Materialise(c) \/ Reserve(c)
          \/ \E t \in Tickets : StartReads(c, t)
    \/ PublishLayout
    \/ \E areas \in SUBSET {r \in stored : ~r.section.seated} :
          \E price \in [areas -> Tickets] : BindAreas(areas, price)
    \/ \E t \in Tickets : Release(t) \/ \E q \in Quantities : EditTier(t, q)

Spec == Init /\ [][Next]_planVars

-----------------------------------------------------------------------------
(* Type invariant of the layout and the night.                             *)
TypeOK ==
    /\ layout \in [status : {"draft", "published"}, frozen : BOOLEAN]
    /\ \A r \in stored : r.save \in 1..MaxSaves
    /\ \A t \in Tickets : stock[t].quantity \in Quantities /\ stock[t].taken \in 0..stock[t].quantity

(* A night is cut by one caller and its floors are counted.  Of two who    *)
(* bind the event at once one cuts the chairs, each place of what is       *)
(* stored once, and the layout is frozen with them: two saves that left    *)
(* both drawings stored are cut together.  A floor's ticket prices no      *)
(* other floor and no numbered chair, and no more people are let onto a    *)
(* floor than it holds, whatever its ticket's stock is edited to.          *)
NightCutOnce ==
    /\ chairs # {} => layout.frozen /\ manifest # Nothing
    /\ \A k, l \in chairs : k.by = l.by /\ (k.at = l.at => k = l)
    /\ manifest # Nothing => \A n \in manifest.areas :
          /\ stock[n.ticket].taken <= n.capacity
          /\ \A k \in chairs : k.ticket # n.ticket
          /\ \A m \in manifest.areas : m.ticket = n.ticket => m = n

(* What must not happen, in the save's words: a room stored with two       *)
(* sectors on the same floor.  Each save looks at its own drawing, and two *)
(* at once leave both.                                                     *)
RoomStoredOnce == \A r, q \in stored : r # q => r.section.floor # q.section.floor

(* What freezing is for: nobody edits the room under a night that is       *)
(* already selling.  A save that was let in before the freeze lands after. *)
FrozenRoomStands == [][layout.frozen => stored' = stored]_planVars
=============================================================================
