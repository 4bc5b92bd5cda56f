------------------------------ MODULE EventDesk ------------------------------
(***************************************************************************)
(* An organiser's events: the row, its public address and its pin on the   *)
(* map.  Every operation reads the event first, to see whose it is, and    *)
(* writes later, in a statement of its own: other requests come between    *)
(* the two.                                                                *)
(***************************************************************************)
EXTENDS Naturals, FiniteSets

CONSTANTS
    Events,     \* the ids of events of one name
    Callers,    \* concurrent requests
    Drafts      \* what clients send: [status, moved, coords, valid]

VARIABLES
    events,     \* id -> row, or Absent
    tiers,      \* events with ticket tiers
    desk        \* what each request has in hand

eventVars == <<events, tiers, desk>>

Absent == [status |-> "absent"]
Statuses == {"draft", "published", "cancelled"}
(* Where the pin came from.                                                *)
Pins == {"none", "geocoded", "hand"}

DraftsAssumption ==
    Drafts \subseteq [status : Statuses \cup {""}, moved : BOOLEAN, coords : BOOLEAN, valid : BOOLEAN]

Free == [stage |-> "free"]
InHand(c, record) == desk' = [desk EXCEPT ![c] = record]
Answer(c) == InHand(c, Free)

Init ==
    /\ events = [e \in Events |-> Absent]
    /\ tiers = {}
    /\ desk = [c \in Callers |-> Free]

-----------------------------------------------------------------------------
(* Slug: the name, or the name and the event's id if it is already taken.  *)
SlugExists(slug) == \E e \in Events : events[e] # Absent /\ events[e].slug = slug
AvailableSlug(e) == IF SlugExists("name") THEN e ELSE "name"

(* Coordinates the client gave are kept; an address that did not change is *)
(* not looked up again; a geocoder that fails costs the pin and no more.   *)
Located(draft, previous) ==
    IF draft.coords THEN {"hand"}
    ELSE IF previous # "none" /\ ~draft.moved THEN {previous}
    ELSE {"geocoded", "none"}

Applied(draft, status) == IF draft.status = "" THEN status ELSE draft.status

Create(c, e, draft) ==
    /\ desk[c].stage = "free" /\ events[e] = Absent
    /\ \A d \in Callers : desk[d].stage = "insert" => desk[d].event # e
    /\ IF draft.valid
       THEN \E pin \in Located(draft, "none") :
              InHand(c, [stage |-> "insert", event |-> e,
                         row |-> [status |-> Applied(draft, "draft"), slug |-> AvailableSlug(e), pin |-> pin]])
       ELSE Answer(c)
    /\ UNCHANGED <<events, tiers>>

(* Mutant of SlugFree: the index is gone, and the earlier look decides.    *)
SlugFreeUnindexed(slug) == slug # ""
SlugFree(slug) == ~SlugExists(slug)

Insert(c) ==
    /\ desk[c].stage = "insert"
    /\ events' = IF SlugFree(desk[c].row.slug)
                 THEN [events EXCEPT ![desk[c].event] = desk[c].row] ELSE events
    /\ Answer(c)
    /\ UNCHANGED tiers

(* The read every operation on an existing event begins with.              *)
Intents == {"edit", "publish", "unpublish", "pin", "delete"}
Read(c, e, mine, intent) ==
    /\ desk[c].stage = "free"
    /\ IF events[e] # Absent /\ mine
       THEN InHand(c, [stage |-> intent, event |-> e,
                      row |-> [status |-> events[e].status, pin |-> events[e].pin]])
       ELSE Answer(c)
    /\ UNCHANGED <<events, tiers>>

(* The update writes every column but the slug, from the copy.             *)
Write(c, row) ==
    LET e == desk[c].event IN
    /\ events' = IF events[e] = Absent THEN events
                 ELSE [events EXCEPT ![e] = [slug |-> @.slug, status |-> row.status, pin |-> row.pin]]
    /\ Answer(c)
    /\ UNCHANGED tiers

Update(c, draft) ==
    /\ desk[c].stage = "edit"
    /\ IF draft.valid
       THEN \E pin \in Located(draft, desk[c].row.pin) :
              Write(c, [desk[c].row EXCEPT !.status = Applied(draft, @), !.pin = pin])
       ELSE Answer(c) /\ UNCHANGED <<events, tiers>>

ChangeStatus(c) ==
    /\ desk[c].stage \in {"publish", "unpublish"}
    /\ Write(c, [desk[c].row EXCEPT !.status = IF desk[c].stage = "publish" THEN "published" ELSE "draft"])

PlacePin(c) ==
    /\ desk[c].stage = "pin"
    /\ Write(c, [desk[c].row EXCEPT !.pin = "hand"])

(* Mutant of MayDrop: the tiers are not asked.                             *)
MayDropAnyway(e) == events[e] # Absent
MayDrop(e) == events[e] # Absent /\ e \notin tiers

Drop(c) ==
    /\ desk[c].stage = "delete"
    /\ events' = IF MayDrop(desk[c].event) THEN [events EXCEPT ![desk[c].event] = Absent] ELSE events
    /\ Answer(c)
    /\ UNCHANGED tiers

(* A tier refers to its event for as long as there is one.                 *)
AddTier(e) ==
    /\ events[e] # Absent /\ e \notin tiers /\ tiers' = tiers \cup {e}
    /\ UNCHANGED <<events, desk>>
DropTier(e) ==
    /\ e \in tiers /\ tiers' = tiers \ {e}
    /\ UNCHANGED <<events, desk>>

Next ==
    \/ \E e \in Events : AddTier(e) \/ DropTier(e)
    \/ \E c \in Callers :
          \/ \E e \in Events, draft \in Drafts : Create(c, e, draft)
          \/ \E e \in Events, mine \in BOOLEAN, intent \in Intents : Read(c, e, mine, intent)
          \/ \E draft \in Drafts : Update(c, draft)
          \/ Insert(c) \/ ChangeStatus(c) \/ PlacePin(c) \/ Drop(c)

Spec == Init /\ [][Next]_eventVars

-----------------------------------------------------------------------------
(* Type invariant of the events' rows.                                     *)
TypeOK ==
    \A e \in Events : events[e] # Absent =>
        events[e].status \in Statuses /\ events[e].pin \in Pins /\ events[e].slug \in Events \cup {"name"}

(* A public address leads to one event: two organisers creating events of  *)
(* one name at once never share it, though both found it free; and no tier *)
(* outlives its event, though the delete looked before it was added.       *)
AddressesStand ==
    /\ \A e, f \in Events :
          events[e] # Absent /\ events[f] # Absent /\ events[e].slug = events[f].slug => e = f
    /\ \A e \in tiers : events[e] # Absent

(* What publishing is apart for: an event's visibility does not change by  *)
(* accident while a description is edited.  An edit that leaves the status *)
(* alone writes the one it read, and undoes a publication in between.      *)
EditKeepsVisibility ==
    [][\A c \in Callers, draft \in Drafts :
          draft.status = "" /\ Update(c, draft) =>
              \A e \in Events : events[e] # Absent => events'[e].status = events[e].status]_eventVars
=============================================================================
