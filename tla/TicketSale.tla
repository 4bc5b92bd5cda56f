----------------------------- MODULE TicketSale -----------------------------
(***************************************************************************)
(* What the box office promises, with nothing about how it keeps count:    *)
(* no counters, no chair rows, no charges and no jobs.  An order is out,   *)
(* holds its whole basket, is entitled to it, or was given its money back; *)
(* a basket is taken whole, only while there is room for it.               *)
(***************************************************************************)
EXTENDS Naturals, FiniteSets

CONSTANTS
    Orders, Tiers,
    Units,         \* what baskets are made of
    Seats,         \* the units that are numbered chairs
    TierOf,        \* the tier a unit is sold under
    Basket,        \* the units each order asks for
    AreaCapacity,  \* places in the area of a tier
    Offers         \* quantities a tier may be offered in

(* What makes the constants a hall.                                       *)
OffersAssumption ==
    /\ IsFiniteSet(Orders) /\ IsFiniteSet(Units) /\ Seats \subseteq Units
    /\ TierOf \in [Units -> Tiers]
    /\ Basket \in [Orders -> SUBSET Units]
    /\ AreaCapacity \in [Tiers -> Nat]
    /\ Offers \subseteq Nat

VARIABLES
    phase,     \* where each order stands
    offer,     \* how many of each tier are offered
    withheld   \* chairs the organiser keeps off sale

sale == <<phase, offer, withheld>>

Phases == {"out", "held", "entitled", "returned"}

Claimants == {o \in Orders : phase[o] \in {"held", "entitled"}}
Claims(S, t) == {line \in S \X Units : line[2] \in Basket[line[1]] /\ TierOf[line[2]] = t}
Claimed(t) == Cardinality(Claims(Claimants, t))

(* Room for a whole basket: places in every tier it names, every chair free. *)
Room(o) ==
    /\ \A t \in Tiers :
         Claims({o}, t) # {} =>
            /\ Claimed(t) + Cardinality(Claims({o}, t)) <= offer[t]
            /\ Claimed(t) + Cardinality(Claims({o}, t)) <= AreaCapacity[t]
    /\ \A s \in Basket[o] \cap Seats :
         s \notin withheld /\ \A p \in Claimants : s \notin Basket[p]

Init ==
    /\ phase = [o \in Orders |-> "out"]
    /\ offer \in [Tiers -> Offers]
    /\ withheld = {}

Become(S, p) == phase' = [o \in Orders |-> IF o \in S THEN p ELSE phase[o]]

Hold(o) ==
    /\ phase[o] = "out"
    /\ Room(o)
    /\ Become({o}, "held")
    /\ UNCHANGED <<offer, withheld>>

LetGo(S) ==
    /\ \A o \in S : phase[o] = "held"
    /\ Become(S, "out")
    /\ UNCHANGED <<offer, withheld>>

(* Money arrived: in time, or late and there is still room.                *)
Entitle(o) ==
    /\ phase[o] = "held" \/ (phase[o] = "out" /\ Room(o))
    /\ Become({o}, "entitled")
    /\ UNCHANGED <<offer, withheld>>

(* Money went back, for the tickets or for the want of them.               *)
Return(o) ==
    /\ phase[o] \in {"entitled", "out"}
    /\ Become({o}, "returned")
    /\ UNCHANGED <<offer, withheld>>

Offer(t, n) ==
    /\ Claimed(t) <= n
    /\ offer' = [offer EXCEPT ![t] = n]
    /\ UNCHANGED <<phase, withheld>>

Withhold(s) ==
    /\ \A p \in Claimants : s \notin Basket[p]
    /\ withheld' = withheld \cup {s}
    /\ UNCHANGED <<phase, offer>>

PutBack(s) ==
    /\ withheld' = withheld \ {s}
    /\ UNCHANGED <<phase, offer>>

Next ==
    \/ \E o \in Orders : Hold(o)
    \/ \E S \in SUBSET Orders : LetGo(S)
    \/ \E o \in Orders : Entitle(o)
    \/ \E o \in Orders : Return(o)
    \/ \E t \in Tiers : \E n \in Offers : Offer(t, n)
    \/ \E s \in Seats : Withhold(s)
    \/ \E s \in Seats : PutBack(s)

Spec == Init /\ [][Next]_sale

-----------------------------------------------------------------------------
(* A chair belongs to at most one standing order, and to none while the    *)
(* organiser withholds it: Claim's "status = 'available'" is the race.     *)
OneClaimant ==
    /\ \A o, p \in Claimants : (Basket[o] \cap Basket[p] \cap Seats # {}) => o = p
    /\ \A o \in Claimants : Basket[o] \cap withheld = {}

(* A tier is never promised beyond its offer or beyond its area: the       *)
(* guards of Reserve and the CHECK constraint on the counters.             *)
WithinOffer ==
    \A t \in Tiers : Claimed(t) <= offer[t] /\ Claimed(t) <= AreaCapacity[t]
=============================================================================
