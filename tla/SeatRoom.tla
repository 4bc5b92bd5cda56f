------------------------------- MODULE SeatRoom -------------------------------
(***************************************************************************)
(* Drawing a room: sections of chairs generated from a specification, the  *)
(* quota of accessible places and the chairs suggested for it, whether two *)
(* sections stand on each other, and the best places left for a party.     *)
(*                                                                         *)
(* Lengths are integers; a chair on an arc is placed by its bearing.  The  *)
(* constants of the floor are the code's: twelve units a chair.            *)
(***************************************************************************)
EXTENDS Integers, FiniteSetsExt, SequencesExt

CONSTANTS
    Sections,       \* ids, 1..n
    Specs,          \* what an organiser may ask a section to be
    Letters,        \* how many row letters there are; 24 in the code
    MaxSold,        \* bound on the chairs sold
    Parties         \* sizes a buyer asks for

VARIABLES drawn, chairs, marks, saved, gone

roomVars == <<drawn, chairs, marks, saved, gone>>

Chair == 12
Touching == 1
SeatGap == 24
RowGap == 28

Init ==
    /\ drawn = [s \in Sections |-> [kind |-> "none"]]
    /\ chairs = [s \in Sections |-> {}]
    /\ marks = [s \in Sections |-> <<>>]
    /\ saved = FALSE
    /\ gone = {}

-----------------------------------------------------------------------------
(* The generator.  A label counts from the left, or outwards from the      *)
(* centre aisle, odds one way and evens the other.                         *)
Label(numbering, position, perRow) ==
    IF numbering # "odd_even" THEN position
    ELSE IF position <= perRow \div 2
         THEN (perRow \div 2 - position) * 2 + 1
         ELSE (position - perRow \div 2) * 2

(* A row of an arc takes the chairs its length has room for: one more than *)
(* the gaps, except on a full ring, whose ends are the same place.  355 to *)
(* 113 is the half turn.                                                   *)
ArcLength(spec, row) == ((spec.radius + row * RowGap) * spec.sweep * 355) \div (180 * 113)
PerRow(spec, row) ==
    IF spec.kind # "arc" \/ spec.pitch = 0 THEN spec.perRow
    ELSE LET fits == ArcLength(spec, row) \div spec.pitch + (IF spec.sweep = 360 THEN 0 ELSE 1)
         IN  IF fits < 1 THEN 1 ELSE fits
(* Mutant of Divisor: a full ring is spaced like a sector.                 *)
DivisorSeam(spec, row) == IF PerRow(spec, row) > 1 THEN PerRow(spec, row) - 1 ELSE 1
Divisor(spec, row) ==
    IF spec.sweep < 360 /\ PerRow(spec, row) > 1 THEN PerRow(spec, row) - 1 ELSE PerRow(spec, row)

Refused(spec) ==
    \/ spec.kind \in {"rows", "arc"} /\ spec.lettered /\ spec.first + spec.rows > Letters
    \/ spec.kind = "arc" /\ (spec.radius <= 0 \/ spec.sweep \notin 0..360)
    \/ spec.kind \in {"rows", "arc", "tables"} /\
          (spec.rows <= 0 \/ spec.perRow <= 0 \/ 1..spec.perRow \subseteq spec.skips)

(* Chairs of a section: row and position are their order, row name and     *)
(* label what is printed on them.                                          *)
Generate(sec, spec) ==
    IF spec.kind \notin {"rows", "arc", "tables"} THEN {}
    ELSE UNION {{[section |-> sec, row |-> row, position |-> position,
                  key |-> <<spec.first + row, Label(spec.numbering, position, PerRow(spec, row))>>] :
                    position \in (1..PerRow(spec, row)) \ spec.skips} :
                row \in 0..(spec.rows - 1)}

Chairs == UNION {chairs[sec] : sec \in Sections}
KindOf(chair) ==
    IF chair.key \in DOMAIN marks[chair.section] THEN marks[chair.section][chair.key] ELSE "standard"

(* Where a chair of a block of rows stands, once the block is turned by a  *)
(* quarter or not at all and moved so that its corner is at the offset.    *)
At(chair) ==
    LET spec == drawn[chair.section]
        first == CHOOSE p \in (1..spec.perRow) \ spec.skips :
                    \A q \in (1..spec.perRow) \ spec.skips : p <= q
        along == (chair.position - first) * SeatGap
    IN  IF spec.turned
        THEN <<spec.x + (spec.rows - 1 - chair.row) * RowGap, spec.y + along>>
        ELSE <<spec.x + along, spec.y + chair.row * RowGap>>

-----------------------------------------------------------------------------
(* The quota of the decree and what the room has of it.                    *)
Quota(capacity) ==
    IF capacity <= 0 THEN 0
    ELSE LET required == IF capacity <= 1000 THEN (capacity * 2 + 99) \div 100
                         ELSE 20 + (capacity - 1000 + 99) \div 100
         IN  IF required < 1 THEN 1 ELSE required

Have(kind) == Cardinality({c \in Chairs : KindOf(c) = kind})
Standing ==
    LET upTo[n \in {0} \cup Sections] ==
            IF n = 0 THEN 0 ELSE upTo[n - 1] + IF drawn[n].kind = "area" THEN drawn[n].capacity ELSE 0
    IN  upTo[Cardinality(Sections)]
Required == Quota(Cardinality(Chairs) + Standing)
RequiredObese == IF Required > 0 /\ Required \div 2 < 1 THEN 1 ELSE Required \div 2

Shortfall ==
    LET required == Required
        obese == RequiredObese - Have("obese")
        reduced == required - Have("reduced") - Have("obese")
    IN  [wheelchair |-> required - Have("wheelchair"), companion |-> required - Have("companion"),
         obese |-> obese, reduced |-> IF obese > 0 THEN reduced - obese ELSE reduced]
Compliant ==
    LET required == Required
    IN  /\ Have("wheelchair") >= required /\ Have("companion") >= required
        /\ Have("reduced") + Have("obese") >= required /\ Have("obese") >= RequiredObese

(* The chairs of the last rows, section by section, the ends first.        *)
BackRow(sec) == {c \in chairs[sec] : c.row = drawn[sec].rows - 1}
FromMiddle(row) ==
    LET sum == MapThenSumSet(LAMBDA c : c.position, row)
        off(c) == c.position * Cardinality(row) - sum
    IN  [c \in row |-> IF off(c) < 0 THEN -off(c) ELSE off(c)]
EndsFirst(sec) ==
    LET far == FromMiddle(BackRow(sec))
        before(a) == {b \in DOMAIN far : far[b] > far[a] \/ (far[b] = far[a] /\ b.position < a.position)}
    IN  [i \in 1..Cardinality(DOMAIN far) |-> CHOOSE c \in DOMAIN far : Cardinality(before(c)) = i - 1]
Unmarked(c) == KindOf(c) = "standard"
(* Mutant of Back: a chair already marked is a candidate too.              *)
BackMarked == FlattenSeq([sec \in Sections |-> EndsFirst(sec)])
Back == SelectSeq(FlattenSeq([sec \in Sections |-> EndsFirst(sec)]), Unmarked)

(* Wheelchair and companion in turn, then the obese, then the others.      *)
Wanted ==
    LET short == Shortfall
        times(kind, n) == [i \in 1..(IF n < 0 THEN 0 ELSE n) |-> kind]
        pairs == IF short.companion > short.wheelchair THEN short.companion ELSE short.wheelchair
        turn(i) == times("wheelchair", IF i <= short.wheelchair THEN 1 ELSE 0)
                   \o times("companion", IF i <= short.companion THEN 1 ELSE 0)
    IN  FlattenSeq([i \in 1..(IF pairs < 0 THEN 0 ELSE pairs) |-> turn(i)])
        \o times("obese", short.obese) \o times("reduced", short.reduced)

(* The answer is keyed by what is printed, so of two chairs printed alike  *)
(* the later stands.                                                       *)
Suggestion ==
    LET back == Back
        wanted == Wanted
        filled == DOMAIN back \cap DOMAIN wanted
    IN  [key \in {back[i].key : i \in filled} |->
            wanted[CHOOSE i \in filled : back[i].key = key /\
                      \A j \in filled : back[j].key = key => j <= i]]

-----------------------------------------------------------------------------
(* Two sections on one floor.  Chairs are looked for cell by cell, a cell  *)
(* the size of a chair, with the division that rounds towards zero.        *)
Toward0(x) == IF x >= 0 THEN x \div Chair ELSE -((-x) \div Chair)
Cell(p) == <<Toward0(p[1]), Toward0(p[2])>>
Apart(p, q) == (p[1] - q[1]) * (p[1] - q[1]) + (p[2] - q[2]) * (p[2] - q[2])

(* Mutant of Around: the cells above and below are forgotten.              *)
AroundSideways(cell) == {<<cell[1] + dx, cell[2]>> : dx \in -1..1}
Around(cell) == {<<cell[1] + dx, cell[2] + dy>> : dx \in -1..1, dy \in -1..1}
Occupied(points, at) == \E p \in points : Cell(p) \in Around(Cell(at)) /\ Apart(p, at) < Chair * Chair

(* An area is its box, or the ellipse in it.                               *)
Inside(spec, p) ==
    LET g == Chair - Touching
        w == spec.width + 2 * g
        h == spec.height + 2 * g
        dx == 2 * (p[1] - (spec.x - g)) - w
        dy == 2 * (p[2] - (spec.y - g)) - h
    IN  IF spec.round
        THEN dx * dx * h * h + dy * dy * w * w <= w * w * h * h
        ELSE dx \in -w..w /\ dy \in -h..h

Shared(a, wa, b, wb) == (IF a + wa < b + wb THEN a + wa ELSE b + wb) - (IF a > b THEN a ELSE b)
Points(sec) == {At(c) : c \in chairs[sec]}
Meet(a, b) ==
    CASE drawn[a].kind = "rows" /\ drawn[b].kind = "rows" ->
            \E p \in Points(a) : Occupied(Points(b), p)
      [] drawn[a].kind = "rows" /\ drawn[b].kind = "area" ->
            \E p \in Points(a) : Inside(drawn[b], p)
      [] drawn[a].kind = "area" /\ drawn[b].kind = "rows" ->
            \E p \in Points(b) : Inside(drawn[a], p)
      [] drawn[a].kind = "area" /\ drawn[b].kind = "area" ->
            /\ Shared(drawn[a].x, drawn[a].width, drawn[b].x, drawn[b].width) > Touching
            /\ Shared(drawn[a].y, drawn[a].height, drawn[b].y, drawn[b].height) > Touching
      [] OTHER -> FALSE
Overlaps == \E a, b \in Sections : a < b /\ Meet(a, b)

-----------------------------------------------------------------------------
(* The best places for a party: a run of neighbours in one row, scored by  *)
(* the row first and the places' numbers second.  Of equals, the first.    *)
Accessible(c) == KindOf(c) \in {"wheelchair", "reduced", "obese"}
Candidates(accessible) == {c \in Chairs \ gone : Accessible(c) = accessible}
Runs(n, accessible) ==
    LET free == Candidates(accessible)
        beside(c) == {d \in free : d.section = c.section /\ d.row = c.row
                                    /\ d.position \in c.position..(c.position + n - 1)}
    IN  [c \in {d \in free : Cardinality(beside(d)) = n} |-> beside(c)]
ScoreRun(c, n) == -(c.row * 10) - ((c.position + (c.position + n - 1)) \div 2)
Earlier(a, b) ==
    \/ a.section < b.section
    \/ a.section = b.section /\ a.row < b.row
    \/ a.section = b.section /\ a.row = b.row /\ a.position < b.position
BestAvailable(n, accessible) ==
    LET runs == Runs(n, accessible)
        better(c, d) == ScoreRun(c, n) > ScoreRun(d, n) \/ (ScoreRun(c, n) = ScoreRun(d, n) /\ Earlier(c, d))
    IN  IF DOMAIN runs = {} THEN {}
        ELSE runs[CHOOSE c \in DOMAIN runs : \A d \in DOMAIN runs \ {c} : better(c, d)]

-----------------------------------------------------------------------------
(* A section is drawn plain, or with its first chair a wheelchair's.       *)
Marked(spec) == {<<>>} \cup IF spec.kind = "area" THEN {} ELSE {<<spec.first, 1>> :> "wheelchair"}

(* The organiser draws, takes a suggestion, saves; the public buys.        *)
Draw(sec, spec, kinds) ==
    /\ ~saved /\ drawn[sec].kind = "none" /\ \A s \in Sections : s < sec => drawn[s].kind # "none"
    /\ IF Refused(spec) THEN UNCHANGED <<drawn, chairs, marks>>
       ELSE /\ drawn' = [drawn EXCEPT ![sec] = spec]
            /\ chairs' = [chairs EXCEPT ![sec] = Generate(sec, spec)]
            /\ marks' = [marks EXCEPT ![sec] = kinds]
    /\ UNCHANGED <<saved, gone>>

SuggestAccessibleSeats ==
    /\ ~saved /\ ~Compliant /\ \A s \in Sections : drawn[s].kind # "none"
    /\ \E suggested \in {Suggestion} :
          marks' = [s \in Sections |-> suggested @@ marks[s]]
    /\ UNCHANGED <<drawn, chairs, saved, gone>>

GenerateLayout ==
    /\ ~saved /\ \A s \in Sections : drawn[s].kind # "none"
    /\ ~Overlaps
    /\ saved' = TRUE
    /\ UNCHANGED <<drawn, chairs, marks, gone>>

Sell(c) ==
    /\ saved /\ Cardinality(gone) < MaxSold
    /\ gone' = gone \cup {c}
    /\ UNCHANGED <<drawn, chairs, marks, saved>>

Next ==
    \/ \E sec \in Sections, spec \in Specs : \E kinds \in Marked(spec) : Draw(sec, spec, kinds)
    \/ SuggestAccessibleSeats \/ GenerateLayout
    \/ \E c \in Chairs : Sell(c)

Spec == Init /\ [][Next]_roomVars

-----------------------------------------------------------------------------
(* Type invariant of the drawing.                                          *)
TypeOK ==
    /\ drawn \in [Sections -> Specs \cup {[kind |-> "none"]}]
    /\ \A s \in Sections : \A key \in DOMAIN marks[s] :
          marks[s][key] \in {"wheelchair", "companion", "obese", "reduced"}
    /\ saved \in BOOLEAN /\ gone \subseteq Chairs

(* A chair is found by what its ticket says: in a section no two are       *)
(* printed alike, whatever the numbering, and no two on an arc stand on    *)
(* one bearing, the seam of a full ring included.                          *)
ChairsApart ==
    \A sec \in Sections : \A c, d \in chairs[sec] : c # d =>
        /\ c.key # d.key
        /\ drawn[sec].kind = "arc" /\ c.row = d.row =>
              (drawn[sec].sweep * (c.position - d.position)) % (360 * Divisor(drawn[sec], c.row)) # 0

(* What was saved can be walked: no chair of one section within a chair's  *)
(* width of another section's, though each was compared with its own nine  *)
(* cells only.                                                             *)
SavedRoomStands ==
    saved => \A a, b \in {s \in Sections : drawn[s].kind = "rows"} : a # b =>
                 \A p \in Points(a), q \in Points(b) : Apart(p, q) >= Chair * Chair

(* The suggestion marks chairs of the last rows that nobody had marked,    *)
(* and where no two of those chairs are printed alike it marks what is     *)
(* short, as far as the last rows go.                                      *)
SuggestionFits ==
    \A back \in {Back}, wanted \in {Wanted}, suggested \in {Suggestion} :
        LET printed == {back[i].key : i \in DOMAIN back} IN
        /\ \A key \in DOMAIN suggested : \E i \in DOMAIN back : back[i].key = key /\ Unmarked(back[i])
        /\ Cardinality(printed) = Len(back) /\ Len(wanted) <= Len(back) =>
              \A kind \in {"wheelchair", "companion", "obese", "reduced"} :
                  Cardinality({key \in DOMAIN suggested : suggested[key] = kind})
                      = Cardinality({i \in DOMAIN wanted : wanted[i] = kind})

(* A party is offered neighbours or nothing: free places of the kind it    *)
(* asked for, side by side in one row, and nothing only when there are     *)
(* none such.                                                              *)
PartySitsTogether ==
    \A n \in Parties, accessible \in BOOLEAN :
        LET run == BestAvailable(n, accessible)
            free == Candidates(accessible)
        IN  IF run = {}
            THEN \A c \in free : \E p \in c.position..(c.position + n - 1) :
                    ~\E d \in free : d.section = c.section /\ d.row = c.row /\ d.position = p
            ELSE /\ run \subseteq free /\ Cardinality(run) = n
                 /\ \A c, d \in run : c.section = d.section /\ c.row = d.row
                                      /\ c.position - d.position \in (1 - n)..(n - 1)

RoomSound == ChairsApart /\ SavedRoomStands /\ SuggestionFits /\ PartySitsTogether

(* What the suggestion's test says of it: apply it and the room must pass. *)
(* It is keyed by row and seat alone, so two floors lettered alike write   *)
(* over each other's chairs.                                               *)
SuggestionMakesTheRoomPass ==
    [][marks' # marks /\ drawn' = drawn /\ Len(Wanted) <= Len(Back) => Compliant']_roomVars

(* What the score's comment says: a centre seat two rows back beats an     *)
(* aisle seat at the very front, so a run at the row's left end is never   *)
(* preferred to one nearer the middle of the same row.                     *)
BestSitsCentral ==
    \A n \in Parties :
        LET runs == Runs(n, FALSE)
            off(c) == LET d == 2 * c.position + n - 2 - PerRow(drawn[c.section], c.row)
                      IN  IF d < 0 THEN -d ELSE d
        IN  DOMAIN runs # {} => \E c \in DOMAIN runs :
                /\ runs[c] = BestAvailable(n, FALSE)
                /\ \A d \in DOMAIN runs : d.section = c.section /\ d.row = c.row => off(c) <= off(d)
=============================================================================
