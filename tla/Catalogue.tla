------------------------------ MODULE Catalogue ------------------------------
(* The listing of events, as its reader walks it: filters, orders, pages   *)
(* with a total, and the filter options offered beside them.  Events are   *)
(* published and cancelled and their tickets sell while somebody reads.    *)
EXTENDS Integers, Sequences, FiniteSets, FiniteSetsExt

CONSTANTS
    Events,         \* numbered: a later id breaks a tie
    Card,           \* event -> [owner, city, category, starts, created]
    TiersOf,        \* event -> its tiers: tier -> price
    Cities,         \* spelling of a city -> its lower case
    Filters,        \* what may be asked: [owner, status, ids, city, category, from, until, available, most, free, sort]
    Limits,         \* page sizes asked for
    DefaultPageSize, MaxPageSize, MaxOffset, MaxCities,
    Changes         \* bound on what happens to the catalogue

VARIABLES
    status,         \* event -> "draft", "published" or "cancelled"
    sale,           \* event -> tier -> "open", "empty" or "off" sale
    reader,         \* the listing under way
    offered,        \* filter options shown that still hold: [kind, value, count]
    changes

catalogueVars == <<status, sale, reader, offered, changes>>

NoPrice == -1       \* no tier on sale, no bound asked for
Idle == [at |-> "none", seen |-> <<>>]

Init ==
    /\ status \in [Events -> {"draft", "published"}]
    /\ sale = [e \in Events |-> [t \in DOMAIN TiersOf[e] |-> "open"]]
    /\ reader = Idle /\ offered = {} /\ changes = 0

-----------------------------------------------------------------------------
(* The query.  A tier with nothing left is on sale still, for its price.   *)
OnSale(e) == {t \in DOMAIN sale[e] : sale[e][t] # "off"}
FromPrice(e) == IF OnSale(e) = {} THEN NoPrice ELSE Min({TiersOf[e][t] : t \in OnSale(e)})
Available(e) == Cardinality({t \in OnSale(e) : sale[e][t] = "open"})
Wants(value, field) == value = "" \/ value = field

(* What an empty page's total is counted by: the first part alone.         *)
CountedBy(f, e) ==
    /\ Wants(f.status, status[e]) /\ Wants(f.owner, Card[e].owner) /\ Wants(f.category, Card[e].category)
    /\ f.city = "" \/ Cities[f.city] = Cities[Card[e].city]
    /\ Card[e].starts >= f.from /\ Card[e].starts <= f.until
Matches(f, e) ==
    /\ CountedBy(f, e)
    /\ f.ids = {} \/ e \in f.ids
    /\ f.available => Available(e) > 0
    /\ f.most # NoPrice => FromPrice(e) # NoPrice /\ FromPrice(e) <= f.most
    /\ f.free => FromPrice(e) = 0
Matching(f) == {e \in Events : Matches(f, e)}

(* Lexicographic, with nothing on sale last and the id in the end.         *)
Precedes(p, q) == \E n \in DOMAIN p : p[n] < q[n] /\ \A m \in 1..(n - 1) : p[m] = q[m]
LastPrice == 1000
(* Mutant of Key: the id does not break a tie.                             *)
KeyTied(f, e) ==
    CASE f.sort = "price" -> <<FromPrice(e), Card[e].starts>>
      [] f.sort = "created_at" -> <<-Card[e].created>>
      [] OTHER -> <<Card[e].starts>>
Key(f, e) ==
    CASE f.sort = "price" -> <<IF FromPrice(e) = NoPrice THEN LastPrice ELSE FromPrice(e), Card[e].starts, e>>
      [] f.sort = "created_at" -> <<-Card[e].created, e>>
      [] OTHER -> <<Card[e].starts, e>>
Orders(f) ==
    {q \in [1..Cardinality(Matching(f)) -> Matching(f)] :
        \A i, j \in DOMAIN q : i < j => q[i] # q[j] /\ ~Precedes(Key(f, q[j]), Key(f, q[i]))}

Least(a, b) == IF a < b THEN a ELSE b
Normalize(f, limit, offset) ==
    [f |-> [f EXCEPT !.sort = IF @ = "relevance" THEN "starts_at" ELSE @],
     limit |-> IF limit <= 0 THEN DefaultPageSize ELSE Least(limit, MaxPageSize),
     offset |-> Least(offset, MaxOffset)]

-----------------------------------------------------------------------------
(* Who asks: a visitor, whose listing is of what is published and anyone's; *)
(* an organiser, whose listing is their own; whoever has the ids.          *)
Opens(f, limit, offset, about) ==
    LET n == Normalize(f, limit, offset)
    IN  reader' = [at |-> "list", f |-> n.f, limit |-> n.limit, offset |-> n.offset, seen |-> <<>>, size |-> 0,
                   total |-> 0, still |-> TRUE, about |-> about]
ListPublic(f, limit, about) ==
    Opens([f EXCEPT !.status = "published", !.owner = ""], limit, 0, about)
ListOwn(f, limit, who) == Opens([f EXCEPT !.owner = who], limit, 0, {})
ByIDs(f) == Opens([f EXCEPT !.status = "", !.owner = ""], Cardinality(f.ids), 0, {})
Asks(f, limit) ==
    /\ reader.at = "none"
    /\ ListPublic(f, limit, {}) \/ ListOwn(f, limit, "ana") \/ (f.ids # {} /\ ByIDs(f))
    /\ UNCHANGED <<status, sale, offered, changes>>

(* One statement answers a page and the total; a page with no row in it    *)
(* has its total counted by another.  Then the pictures, which may fail.   *)
List ==
    /\ reader.at = "list"
    /\ \E found \in Orders(reader.f) :
         LET page == SubSeq(found, reader.offset + 1, Least(reader.offset + reader.limit, Len(found)))
         IN  reader' = [reader EXCEPT !.at = IF page = <<>> THEN "count" ELSE "page",
                                      !.seen = IF reader.still THEN @ \o page ELSE <<>>,
                                      !.size = Len(page), !.total = IF page = <<>> THEN 0 ELSE Len(found)]
    /\ UNCHANGED <<status, sale, offered, changes>>
Count ==
    /\ reader.at = "count"
    /\ reader' = [reader EXCEPT !.at = "page", !.total = Cardinality({e \in Events : CountedBy(reader.f, e)})]
    /\ UNCHANGED <<status, sale, offered, changes>>
Fails ==
    /\ reader.at \in {"list", "count"} \/ (reader.at = "page" /\ reader.size > 0)
    /\ reader' = Idle /\ UNCHANGED <<status, sale, offered, changes>>
NextPage ==
    /\ reader.at = "page" /\ reader.offset + reader.limit < reader.total /\ reader.offset < MaxOffset
    /\ reader' = [reader EXCEPT !.at = "list", !.offset = Least(@ + reader.limit, MaxOffset)]
    /\ UNCHANGED <<status, sale, offered, changes>>
Leaves ==
    /\ reader.at = "page" /\ reader' = Idle /\ UNCHANGED <<status, sale, offered, changes>>

(* The options: counts of categories, then of cities as they are spelt,    *)
(* busiest first.                                                          *)
Published == {e \in Events : status[e] = "published"}
CountOf(kind, value) == Cardinality({e \in Published : Card[e][kind] = value})
CategoryCounts ==
    /\ reader.at = "none"
    /\ offered' = {[kind |-> "category", value |-> c, count |-> CountOf("category", c)] :
                       c \in {Card[e].category : e \in Events}}
    /\ reader' = [at |-> "cities", seen |-> <<>>] /\ UNCHANGED <<status, sale, changes>>
CitiesListed ==
    /\ reader.at = "cities"
    /\ LET here == {Card[e].city : e \in Published} \ {""}
           busier(c) == {d \in here : CountOf("city", d) > CountOf("city", c)}
       IN  \E kept \in SUBSET here :
             /\ Cardinality(kept) = Least(MaxCities, Cardinality(here))
             /\ \A c \in kept : busier(c) \subseteq kept
             /\ offered' = offered \cup {[kind |-> "city", value |-> c, count |-> CountOf("city", c)] : c \in kept}
    /\ reader' = Idle /\ UNCHANGED <<status, sale, changes>>
Picks(option, f) ==
    /\ reader.at = "none" /\ option.count > 0
    /\ ListPublic([f EXCEPT ![option.kind] = option.value], DefaultPageSize, {option})
    /\ UNCHANGED <<status, sale, offered, changes>>

-----------------------------------------------------------------------------
(* What happens to the catalogue meanwhile.                                *)
Moves(e) ==
    /\ changes < Changes /\ changes' = changes + 1
    /\ \/ \E s \in {"published", "cancelled"} : s # status[e] /\ status' = [status EXCEPT ![e] = s] /\ UNCHANGED sale
       \/ \E t \in OnSale(e), s \in {"empty", "off"} : sale' = [sale EXCEPT ![e][t] = s] /\ UNCHANGED status
    /\ reader' = IF reader.at \notin {"none", "cities"}
                 THEN [reader EXCEPT !.still = FALSE, !.seen = <<>>, !.about = {}] ELSE reader
    /\ offered' = {}

Plain == CHOOSE f \in Filters : f.ids = {} /\ f.city = "" /\ f.category = "" /\ ~f.available /\ ~f.free /\ f.most = NoPrice
Next ==
    \/ \E f \in Filters, limit \in Limits : Asks(f, limit)
    \/ \E option \in offered : Picks(option, Plain)
    \/ List \/ Count \/ Fails \/ NextPage \/ Leaves \/ CategoryCounts \/ CitiesListed
    \/ \E e \in Events : Moves(e)
Spec == Init /\ [][Next]_catalogueVars

-----------------------------------------------------------------------------
Shown == reader.at = "page" /\ reader.still
Whole == Shown /\ (reader.size = 0 \/ reader.offset + reader.limit >= reader.total)

TypeOK ==
    /\ status \in [Events -> {"draft", "published", "cancelled"}]
    /\ \A e \in Events : sale[e] \in [DOMAIN TiersOf[e] -> {"open", "empty", "off"}]
    /\ reader.at \in {"none", "list", "count", "page", "cities"}

(* Whoever reads a still catalogue to its last page has seen every event   *)
(* they asked for, once, unless it lies deeper than pages go.              *)
PagesWhole == Whole /\ Cardinality(Matching(reader.f)) <= MaxOffset + reader.limit =>
    /\ Len(reader.seen) = Cardinality({reader.seen[i] : i \in DOMAIN reader.seen})
    /\ {reader.seen[i] : i \in DOMAIN reader.seen} = Matching(reader.f)

(* The total beside a page is of what was asked for.                       *)
TotalTrue == Shown /\ reader.size > 0 => reader.total = Cardinality(Matching(reader.f))

(* A category holds as many events as its option said; a city, which is    *)
(* spelt in more ways than one, at least as many.                          *)
OptionsTrue == Shown => \A option \in reader.about :
    IF option.kind = "category" THEN reader.total = option.count
    ELSE reader.total >= option.count /\ reader.size > 0

CatalogueTrue == PagesWhole /\ TotalTrue /\ OptionsTrue

(* "An empty page still has to report the real total" (event_repository.go *)
(* 265-268): of a narrower question it reports the wider one's.            *)
EmptyPageTotal == Shown => reader.total = Cardinality(Matching(reader.f))
=============================================================================
