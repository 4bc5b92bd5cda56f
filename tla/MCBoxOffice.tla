---------------------------- MODULE MCBoxOffice ----------------------------
(* Constants for model-checking BoxOffice: the sales worth checking        *)
(* separately, in a hall of one counted floor and one numbered row.        *)
EXTENDS BoxOffice, TLC

CONSTANTS o1, o2, floor, row, f1, f2, f3, f4, s1

(* Two baskets of two want more of the floor than there is: by its         *)
(* quantity in one edition, by its area in the other.                      *)
FloorTierOf == [u \in {f1, f2, f3, f4} |-> floor]
FloorBasket == (o1 :> {f1, f2}) @@ (o2 :> {f3, f4})
FloorCapacity == (floor :> 3)
FloorEditions == {<<3, TRUE>>, <<4, TRUE>>}
FloorSymmetry == {(o1 :> o2) @@ (o2 :> o1) @@ (f1 :> f3) @@ (f3 :> f1) @@ (f2 :> f4) @@ (f4 :> f2)}

(* Two baskets want the same chair; the counter alone would let both in.   *)
ChairTierOf == (s1 :> row)
ChairBasket == (o1 :> {s1}) @@ (o2 :> {s1})
ChairCapacity == (row :> 2)
ChairEditions == {<<2, TRUE>>}
ChairSymmetry == Permutations({o1, o2})

(* One buyer, and an organiser who may take the tier off sale, or leave it. *)
LoneTierOf == (f1 :> floor)
LoneBasket == (o1 :> {f1})
LoneCapacity == (floor :> 1)
LoneEditions == {<<1, TRUE>>, <<1, FALSE>>}
SteadyEdition == {<<1, TRUE>>}
=============================================================================
