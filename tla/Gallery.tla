------------------------------- MODULE Gallery -------------------------------
(***************************************************************************)
(* An event's pictures: bytes in object storage and rows that point at     *)
(* them.  A picture is stored before its row exists, and its row is gone   *)
(* before its bytes are; the two cannot be one transaction.  Decoding is   *)
(* bounded.  Deleting an event empties its gallery first.                  *)
(***************************************************************************)
EXTENDS Naturals, FiniteSets

CONSTANTS
    Uploaders,   \* concurrent requests
    Slots,       \* decodes at a time
    MaxItems,    \* pictures a gallery may hold
    MaxPictures  \* bound: pictures ever named

GalleryAssumption == IsFiniteSet(Uploaders) /\ Slots \in Nat /\ MaxPictures \in Nat

VARIABLES
    eventRow,    \* "plain", with "tiers", or "gone"
    gallery,     \* the rows: picture -> position
    objects,     \* stored: <<picture, "original">>, <<picture, "variant">>
    hands,       \* how far each request has got
    named,       \* pictures named so far
    doubted      \* history: pictures whose insert was never answered

galleryVars == <<eventRow, gallery, objects, hands, named, doubted>>

Free == [stage |-> "free"]
Goes(u, record) == hands' = [hands EXCEPT ![u] = record]
Ends(u) == Goes(u, Free)
Rows == DOMAIN gallery
Without(ids) == [m \in Rows \ ids |-> gallery[m]]

Init ==
    /\ eventRow = "plain" /\ gallery = <<>> /\ objects = {} /\ named = 0 /\ doubted = {}
    /\ hands = [u \in Uploaders |-> Free]

-----------------------------------------------------------------------------
(* Adding.  A file of no supported type, empty, or too large goes no       *)
(* further, nor one to a full gallery.  A video is not decoded.            *)
Kinds == {"image", "video", "unsupported", "empty", "too large"}

Full == Cardinality(Rows) >= MaxItems

Add(u, kind) ==
    /\ hands[u].stage = "free" /\ eventRow # "gone" /\ named < MaxPictures
    /\ IF kind \in {"image", "video"} /\ ~Full
       THEN /\ named' = named + 1
            /\ Goes(u, [stage |-> IF kind = "image" THEN "queue" ELSE "store", id |-> named', derived |-> FALSE])
       ELSE Ends(u) /\ UNCHANGED named
    /\ UNCHANGED <<eventRow, gallery, objects, doubted>>

(* Mutant of SlotFree: the slot is taken without waiting for one.          *)
SlotFreeAlways == TRUE
SlotFree == Cardinality({u \in Uploaders : hands[u].stage = "decode"}) < Slots

(* An image that says it is too large is not decoded.                      *)
Inspect(u) ==
    /\ hands[u].stage = "queue"
    /\ \/ SlotFree /\ Goes(u, [hands[u] EXCEPT !.stage = "decode"])
       \/ Goes(u, [hands[u] EXCEPT !.stage = "store"])
    /\ UNCHANGED <<eventRow, gallery, objects, named, doubted>>

(* Deriving fails, and the original is stored alone.                       *)
Process(u) ==
    /\ hands[u].stage = "decode"
    /\ \E ok \in BOOLEAN : Goes(u, [hands[u] EXCEPT !.stage = "store", !.derived = ok])
    /\ UNCHANGED <<eventRow, gallery, objects, named, doubted>>

(* The original must be stored; a variant that is not is only logged.      *)
Store(u) ==
    LET id == hands[u].id IN
    /\ hands[u].stage = "store"
    /\ \/ /\ objects' \in {objects \cup {<<id, "original">>} \cup v :
                             v \in IF hands[u].derived THEN {{}, {<<id, "variant">>}} ELSE {{}}}
          /\ Goes(u, [hands[u] EXCEPT !.stage = "position"])
       \/ Ends(u) /\ UNCHANGED objects
    /\ UNCHANGED <<eventRow, gallery, named, doubted>>

(* Taking the original back; the error of doing so is ignored.             *)
TakeBack(id) == objects' \in {objects, objects \ {<<id, "original">>}}

NextPosition(u) ==
    /\ hands[u].stage = "position"
    /\ \/ /\ Goes(u, [stage |-> "row", id |-> hands[u].id,
                      position |-> Cardinality({p \in 0..MaxPictures : \E m \in Rows : gallery[m] >= p})])
          /\ UNCHANGED objects
       \/ TakeBack(hands[u].id) /\ Ends(u)
    /\ UNCHANGED <<eventRow, gallery, named, doubted>>

(* The row is written; or refused, as when the event is gone; or written   *)
(* with the answer lost, which looks like the second.                      *)
Create(u) ==
    LET id == hands[u].id
        added == [m \in Rows \cup {id} |-> IF m = id THEN hands[u].position ELSE gallery[m]]
    IN  /\ hands[u].stage = "row" /\ Ends(u)
        /\ \/ eventRow # "gone" /\ gallery' = added /\ UNCHANGED <<objects, doubted>>
           \/ TakeBack(id) /\ UNCHANGED <<gallery, doubted>>
           \/ eventRow # "gone" /\ gallery' = added /\ TakeBack(id) /\ doubted' = doubted \cup {id}
        /\ UNCHANGED <<eventRow, named>>

-----------------------------------------------------------------------------
(* Removing one.                                                           *)
Remove(u, m) ==
    /\ hands[u].stage = "free" /\ eventRow # "gone" /\ m \in Rows
    /\ Goes(u, [stage |-> "unlink", id |-> m])
    /\ UNCHANGED <<eventRow, gallery, objects, named, doubted>>

RemoveRow(u) ==
    LET m == hands[u].id IN
    /\ hands[u].stage = "unlink"
    /\ gallery' = Without({m})
    /\ IF m \in Rows THEN Goes(u, [stage |-> "discard", ids |-> {m}, next |-> "free"]) ELSE Ends(u)
    /\ UNCHANGED <<eventRow, objects, named, doubted>>

(* Only the originals are deleted; a failure is ignored.                   *)
Discard(u) ==
    /\ hands[u].stage = "discard"
    /\ \E gone \in SUBSET hands[u].ids : objects' = objects \ {<<m, "original">> : m \in gone}
    /\ Goes(u, [stage |-> hands[u].next])
    /\ UNCHANGED <<eventRow, gallery, named, doubted>>

-----------------------------------------------------------------------------
(* Deleting the event: the rows are listed, then deleted, then the objects *)
(* of those listed, then the event, unless tiers refer to it.  A picture   *)
(* added in between loses its row and keeps its bytes.                     *)
DeleteEvent(u) ==
    /\ hands[u].stage = "free" /\ eventRow # "gone"
    /\ Goes(u, IF Rows = {} THEN [stage |-> "drop"] ELSE [stage |-> "clear", ids |-> Rows])
    /\ UNCHANGED <<eventRow, gallery, objects, named, doubted>>

(* Mutant of ClearRows: the bytes go first.                                *)
ClearRowsLast(ids) == UNCHANGED gallery /\ objects' = objects \ {<<m, "original">> : m \in ids}
ClearRows(ids) == gallery' = <<>> /\ UNCHANGED objects

DeleteByEventID(u) ==
    /\ hands[u].stage = "clear"
    /\ ClearRows(hands[u].ids)
    /\ Goes(u, [stage |-> "discard", ids |-> hands[u].ids, next |-> "drop"])
    /\ UNCHANGED <<eventRow, named, doubted>>

Drop(u) ==
    /\ hands[u].stage = "drop" /\ Ends(u)
    /\ IF eventRow = "plain" THEN eventRow' = "gone" /\ gallery' = <<>> ELSE UNCHANGED <<eventRow, gallery>>
    /\ UNCHANGED <<objects, named, doubted>>

Tiers ==
    /\ \/ eventRow = "plain" /\ eventRow' = "tiers"
       \/ eventRow = "tiers" /\ eventRow' = "plain"
    /\ UNCHANGED <<gallery, objects, hands, named, doubted>>

(* The process dies, and the request with it.                              *)
Dies(u) ==
    /\ hands[u].stage # "free" /\ Ends(u)
    /\ UNCHANGED <<eventRow, gallery, objects, named, doubted>>

Next ==
    \/ Tiers
    \/ \E u \in Uploaders :
          \/ \E kind \in Kinds : Add(u, kind)
          \/ \E m \in Rows : Remove(u, m)
          \/ Inspect(u) \/ Process(u) \/ Store(u) \/ NextPosition(u) \/ Create(u)
          \/ RemoveRow(u) \/ Discard(u) \/ DeleteEvent(u) \/ DeleteByEventID(u) \/ Drop(u) \/ Dies(u)

Spec == Init /\ [][Next]_galleryVars

-----------------------------------------------------------------------------
(* Type invariant of the gallery's rows.                                   *)
TypeOK ==
    /\ eventRow \in {"plain", "tiers", "gone"}
    /\ Rows \subseteq 1..named /\ \A m \in Rows : gallery[m] \in 0..MaxPictures

(* No broken tile: a row never points at bytes that are gone, however      *)
(* uploads, removals, deletions and crashes interleave, but for a row      *)
(* whose own insert was never answered; an event that is gone has no rows; *)
(* and no more images are in memory than there are slots.                  *)
NoBrokenTile ==
    /\ \A m \in Rows \ doubted : <<m, "original">> \in objects
    /\ eventRow = "gone" => Rows = {}
    /\ Cardinality({u \in Uploaders : hands[u].stage = "decode"}) <= Slots

(* What a gallery's limit says; the count is read before the upload, and   *)
(* two uploads can both find room for one.                                 *)
GalleryWithinLimit == Cardinality(Rows) <= MaxItems
=============================================================================
