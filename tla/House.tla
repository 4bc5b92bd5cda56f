------------------------------- MODULE House -------------------------------
(***************************************************************************)
(* The house: the door, events and their pictures, rooms from the drawing  *)
(* to the map on a buyer's screen, tiers, and the orders' own endpoints,   *)
(* side by side.  One of them moves in a behaviour; the others stand where *)
(* they began.  Every constant of a part is a constant here.               *)
(***************************************************************************)
EXTENDS Door, Integers

CONSTANTS
    idle,                                           \* a part that does not move, and no row or owner
    Callers,                                        \* the requests that meet
    EventIds, Drafts,                               \* events
    Slots, MaxItems, MaxPictures,                   \* pictures
    Sections, Specs, Letters, MaxSold, Parties,     \* rooms
    Drawings, PriceLists, PlanTickets,              \* the night cut from a layout
    Quantities, MaxSaves,
    Seats, Clients, MaxVersion,                     \* the map
    TierEvent, TierStatuses, MaxQuantity, Moments,  \* tiers
    PageOrders, First, Owner, Asks, Legal,          \* a buyer's order page
    BasketRefusals, CartHoldFor, HoldFor, MaxNow, MaxFaults, Root

VARIABLES
    part,
    events, tiers, eventDesk,
    eventRow, gallery, objects, hands, named, doubted,
    drawn, seats, marks, saved, gone,
    layout, stored, saves, planDesk, chairs, manifest, stock,
    sequence, seat, change, screen,
    clock, event, tier, copies, list, tierDesk, panel, left,
    purchase, kept, now, visit, mishaps

Shows == INSTANCE EventDesk WITH Events <- EventIds, desk <- eventDesk
Pictures == INSTANCE Gallery WITH Uploaders <- Callers
Room == INSTANCE SeatRoom WITH chairs <- seats
Plan == INSTANCE SeatPlan WITH Tickets <- PlanTickets, Nothing <- idle, desk <- planDesk
Feed == INSTANCE SeatFeed WITH Orders <- Callers, None <- idle
Box == INSTANCE TierDesk WITH
    EventOf <- TierEvent, Statuses <- TierStatuses, None <- idle, one <- copies, desk <- tierDesk,
    screen <- panel
Counter == INSTANCE OrderPage WITH
    Orders <- PageOrders, Requests <- Callers, Nothing <- idle, order <- purchase, copy <- kept,
    request <- visit, faults <- mishaps

(* What the parts with theorems ask of their constants.                    *)
ASSUME HouseAssumption ==
    /\ Shows!DraftsAssumption /\ Pictures!GalleryAssumption /\ Plan!PlanAssumption
    /\ Feed!FeedAssumption /\ Box!TierAssumption /\ Counter!PageAssumption

planIdle ==
    /\ layout = idle /\ stored = idle /\ saves = idle /\ planDesk = idle /\ chairs = idle
    /\ manifest = idle /\ stock = idle
boxIdle ==
    /\ clock = idle /\ event = idle /\ tier = idle /\ copies = idle /\ list = idle /\ tierDesk = idle
    /\ panel = idle /\ left = idle
counterIdle == purchase = idle /\ kept = idle /\ now = idle /\ visit = idle /\ mishaps = idle

showsVars == <<events, tiers, eventDesk>>
picturesVars == <<eventRow, gallery, objects, hands, named, doubted>>
roomVars == <<drawn, seats, marks, saved, gone>>
planVars == <<layout, stored, saves, planDesk, chairs, manifest, stock>>
feedVars == <<sequence, seat, change, screen>>
boxVars == <<clock, event, tier, copies, list, tierDesk, panel, left>>
counterVars == <<purchase, kept, now, visit, mishaps>>
houseVars == <<part, vars, showsVars, picturesVars, roomVars, planVars, feedVars, boxVars, counterVars>>

Shut == [stage |-> "idle", ticket |-> CHOOSE t \in Tickets : TRUE, by |-> Nobody]
HouseInit ==
    /\ Init /\ (part = "door" \/ scan = [d \in Doors |-> Shut])
    /\ Shows!Init /\ Pictures!Init /\ Room!Init /\ Feed!Init
    /\ \/ part \in {"door", "shows", "pictures", "room", "feed"} /\ planIdle /\ boxIdle /\ counterIdle
       \/ part = "plan" /\ Plan!Init /\ boxIdle /\ counterIdle
       \/ part = "box" /\ Box!Init /\ planIdle /\ counterIdle
       \/ part = "counter" /\ Counter!Init /\ planIdle /\ boxIdle

DoorMoves ==
    /\ part = "door" /\ Next
    /\ UNCHANGED <<part, showsVars, picturesVars, roomVars, planVars, feedVars, boxVars, counterVars>>
ShowsMove ==
    /\ part = "shows" /\ Shows!Next
    /\ UNCHANGED <<part, vars, picturesVars, roomVars, planVars, feedVars, boxVars, counterVars>>
PicturesMove ==
    /\ part = "pictures" /\ Pictures!Next
    /\ UNCHANGED <<part, vars, showsVars, roomVars, planVars, feedVars, boxVars, counterVars>>
RoomMoves ==
    /\ part = "room" /\ Room!Next
    /\ UNCHANGED <<part, vars, showsVars, picturesVars, planVars, feedVars, boxVars, counterVars>>
PlanMoves ==
    /\ part = "plan" /\ Plan!Next
    /\ UNCHANGED <<part, vars, showsVars, picturesVars, roomVars, feedVars, boxVars, counterVars>>
FeedMoves ==
    /\ part = "feed" /\ Feed!Next
    /\ UNCHANGED <<part, vars, showsVars, picturesVars, roomVars, planVars, boxVars, counterVars>>
BoxMoves ==
    /\ part = "box" /\ Box!Next
    /\ UNCHANGED <<part, vars, showsVars, picturesVars, roomVars, planVars, feedVars, counterVars>>
CounterMoves ==
    /\ part = "counter" /\ Counter!Next
    /\ UNCHANGED <<part, vars, showsVars, picturesVars, roomVars, planVars, feedVars, boxVars>>

HouseNext ==
    DoorMoves \/ ShowsMove \/ PicturesMove \/ RoomMoves \/ PlanMoves \/ FeedMoves \/ BoxMoves \/ CounterMoves
HouseSpec == HouseInit /\ [][HouseNext]_houseVars

(* Type invariant of the parts with theorems.                              *)
HouseTypes ==
    /\ part = "door" => TypeOK
    /\ part = "shows" => Shows!TypeOK
    /\ part = "pictures" => Pictures!TypeOK
    /\ part = "plan" => Plan!TypeOK
    /\ part = "feed" => Feed!TypeOK
    /\ part = "box" => Box!TypeOK
    /\ part = "counter" => Counter!TypeOK

(* The parts' own properties, where the part moves: what each says is in   *)
(* its module.                                                             *)
(* EventDesk: a public address leads to one event.                         *)
(* Gallery: no row points at bytes that are gone.                          *)
(* SeatPlan: one caller cuts a night, and its floors are counted.          *)
(* TierDesk: a tier never owes more than it has, nor shows for long after. *)
CatalogueSound ==
    /\ part = "shows" => Shows!AddressesStand
    /\ part = "pictures" => Pictures!NoBrokenTile
    /\ part = "plan" => Plan!NightCutOnce
    /\ part = "box" => Box!TierSound
(* SeatRoom: chairs are told apart, a saved room can be walked, what the   *)
(* suggestion marks was short, and a party is offered neighbours.          *)
SeatingSound == part = "room" => Room!TypeOK /\ Room!RoomSound
(* SeatFeed: an old map costs a refused claim and no more.                 *)
OldMapSellsNothingTwice == [][part = "feed" => Feed!OldMapSellsNothing]_houseVars
(* OrderPage: what was done is told, an order is confirmed once, a page    *)
(* stands, and a refusal is true.                                          *)
OrderPageSound == part = "counter" => Counter!OrderPageSound
=============================================================================
