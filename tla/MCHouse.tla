------------------------------- MODULE MCHouse -------------------------------
(* Small instances of the house's parts.                                   *)
EXTENDS House, TLC

CONSTANTS
    o1, o2, t1, t2, d3, main, side,   \* the door
    one, two,                         \* the requests that meet
    x, y                              \* ids for events, chairs

HouseSymmetry == Permutations({one, two}) \cup Permutations({x, y})

(* Two orders of one ticket each, one for the stage two scanners stand at  *)
(* and one for the neighbouring stage, where the third stands.             *)
MCOrderOf == t1 :> o1 @@ t2 :> o2
MCEventOf == t1 :> main @@ t2 :> side
MCDoorAt == [d \in Doors |-> IF d = d3 THEN side ELSE main]

MCDrafts == {[status |-> "", moved |-> m, coords |-> FALSE, valid |-> v] : m \in BOOLEAN, v \in BOOLEAN}

(* Rows that face each other across a gap, a full ring and a half one,     *)
(* tables, and floors without chairs.                                      *)
RowsAt(rows, n, numbering, skips, left_, top, turned) ==
    [kind |-> "rows", rows |-> rows, perRow |-> n, numbering |-> numbering, skips |-> skips,
     lettered |-> TRUE, first |-> 1, x |-> left_, y |-> top, turned |-> turned]
RoomSpecs ==
    {RowsAt(2, 2, "sequential", {}, -13, 0, FALSE), RowsAt(1, 5, "odd_even", {}, 0, 0, FALSE),
     RowsAt(2, 4, "odd_even", {2}, 0, 9, FALSE), RowsAt(2, 4, "odd_even", {}, 0, -39, TRUE),
     RowsAt(30, 1, "sequential", {}, 200, 11, FALSE),
     [kind |-> "area", x |-> 20, y |-> 20, width |-> 30, height |-> 40, round |-> TRUE, capacity |-> 30],
     [kind |-> "arc", rows |-> 2, perRow |-> 3, pitch |-> 30, radius |-> 40, sweep |-> 360,
      numbering |-> "sequential", skips |-> {}, lettered |-> FALSE, first |-> 1],
     [kind |-> "tables", rows |-> 2, perRow |-> 2, skips |-> {}, numbering |-> "sequential",
      lettered |-> FALSE, first |-> 4]}

Sector(name, seated, band, capacity, floor) ==
    [name |-> name, seated |-> seated, band |-> band, capacity |-> capacity, floor |-> floor]
PlanDrawings ==
    {{Sector("stalls", TRUE, "gold", 0, 1), Sector("pit", FALSE, "floor", 1, 2)},
     {Sector("pit", FALSE, "floor", 1, 1), Sector("lawn", FALSE, "floor", 2, 2)}}
MCPriceLists == {"gold" :> "t1", "gold" :> "t2"}

MCTierEvent == "floor" :> "show"

(* Ana's basket or her paid order, and a second order free; Bia, a         *)
(* stranger to them; an operator.  A basket holds for one unit, a          *)
(* confirmed order for two.                                                *)
Asked(kind, who, id, sent) ==
    [kind |-> kind, who |-> who, id |-> id, sent |-> sent, confirm |-> kind = "create",
     want |-> IF kind = "list" /\ who = "root" THEN {"paid"} ELSE {}]
MCAsks ==
    {Asked("create", "ana", 2, "Ana"), Asked("confirm", "ana", 1, ""), Asked("confirm", "bia", 1, "Bia"),
     Asked("list", "ana", 0, ""), Asked("list", "root", 0, ""),
     Asked("get", "ana", 2, ""), Asked("cancel", "ana", 1, ""),
     Asked("cancel", "bia", 1, ""), Asked("refund", "root", 1, ""), Asked("refund", "ana", 1, "")}
MCLegal == "ana" :> "Ana"
=============================================================================
