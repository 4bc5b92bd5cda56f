------------------------------ MODULE MCOffice ------------------------------
(* A small office.                                                         *)
EXTENDS Office, TLC

CONSTANTS
    same, different,                        \* the bodies of checkouts under one key
    O, I, L, S,                             \* letters taken for digits
    one, two, three, other,                 \* the requests that meet; a buyer taps up to three times
    x, y, member                            \* ids for new rows, and an account there already

MCBodyOf == [r \in Requests |-> IF r = other THEN different ELSE same]

(* Words whose first, middle and last characters vary, over values half    *)
(* the alphabet apart, next to each other and at both ends.                *)
MCLookAlike == [c \in {O, I, L, S} |-> CASE c = O -> 0 [] c = S -> 5 [] OTHER -> 1]
MCDrawn == {[k \in 1..11 |-> CASE k = 1 -> a [] k = 6 -> b [] k = 11 -> c [] OTHER -> k + 11]
              : a \in {0, 30}, b \in {16}, c \in {0, 15}}

(* A show with no end stated, one with its end, one that ends before it    *)
(* begins.                                                                 *)
MCShowTimes ==
    {[starts |-> 20, ends |-> 0], [starts |-> 20, ends |-> 26], [starts |-> 118, ends |-> 100]}
MCMembers == member :> "b"

(* Two baskets of one buyer and one of another, lines out of order, of no  *)
(* quantity, and with a chair.                                             *)
Sending(t, n, chairs) == [tier |-> t, quantity |-> n, chairs |-> chairs]
MCBuyerOf == <<"ana", "ana", "bia">>
MCSent ==
    <<<<Sending(2, 1, {}), Sending(1, 1, {})>>, <<Sending(3, 0, {7}), Sending(1, 1, {})>>,
      <<Sending(1, 1, {}), Sending(3, 1, {7}), Sending(2, 1, {})>>>>
MCQuantity == <<2, 1, 1>>
MCTierOf == 7 :> 3

OfficeSymmetry == Permutations({one, two}) \cup Permutations({x, y})
=============================================================================
