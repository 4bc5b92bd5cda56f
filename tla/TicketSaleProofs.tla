-------------------------- MODULE TicketSaleProofs --------------------------
(***************************************************************************)
(* The ideal sale keeps its own promises, for every hall: what the box     *)
(* office inherits from implementing it.                                   *)
(***************************************************************************)
EXTENDS TicketSale, FiniteSetTheorems, TLAPS

ShapeOK ==
    /\ OffersAssumption
    /\ phase \in [Orders -> Phases]
    /\ offer \in [Tiers -> Nat]
    /\ withheld \subseteq Seats

Promise == ShapeOK /\ OneClaimant /\ WithinOffer

-----------------------------------------------------------------------------
(* Counting claims.                                                        *)

LEMMA ClaimsFinite ==
  ASSUME OffersAssumption, NEW S \in SUBSET Orders, NEW t
  PROVE  IsFiniteSet(Claims(S, t)) /\ Cardinality(Claims(S, t)) \in Nat
  <1>1. IsFiniteSet(S \X Units)
    BY FS_Subset, FS_Product DEF OffersAssumption
  <1>2. Claims(S, t) \in SUBSET (S \X Units)
    BY DEF Claims
  <1> QED
    BY <1>1, <1>2, FS_Subset, FS_CardinalityType

(* Fewer claimants claim no more.                                          *)
LEMMA FewerClaims ==
  ASSUME OffersAssumption, NEW S \in SUBSET Orders, NEW T \in SUBSET S, NEW t
  PROVE  Cardinality(Claims(T, t)) <= Cardinality(Claims(S, t))
  <1>1. Claims(T, t) \in SUBSET Claims(S, t)
    BY DEF Claims
  <1> QED
    BY <1>1, ClaimsFinite, FS_Subset

(* One more claims at most its basket more.                                *)
LEMMA OneMoreClaims ==
  ASSUME OffersAssumption, NEW S \in SUBSET Orders, NEW o \in Orders, NEW t
  PROVE  Cardinality(Claims(S \cup {o}, t)) <= Cardinality(Claims(S, t)) + Cardinality(Claims({o}, t))
  <1> DEFINE A == Claims(S, t)  B == Claims({o}, t)
  <1>1. Claims(S \cup {o}, t) = A \cup B
    BY DEF Claims
  <1>2. IsFiniteSet(A) /\ IsFiniteSet(B) /\ Cardinality(A) \in Nat /\ Cardinality(B) \in Nat
    BY ClaimsFinite
  <1>3. A \cap B \in SUBSET A
    OBVIOUS
  <1> HIDE DEF A, B
  <1>4. IsFiniteSet(A \cap B) /\ Cardinality(A \cap B) \in Nat
    BY <1>2, <1>3, FS_Subset, FS_CardinalityType
  <1>5. Cardinality(A \cup B) = Cardinality(A) + Cardinality(B) - Cardinality(A \cap B)
    BY <1>2, FS_Union
  <1>6. Cardinality(A \cup B) <= Cardinality(A) + Cardinality(B)
    BY <1>2, <1>4, <1>5
  <1> QED
    BY <1>1, <1>6 DEF A, B

(* After a step it is the new claimants who claim.                         *)
LEMMA ClaimedThen ==
  ASSUME NEW t
  PROVE  Claimed(t)' = Cardinality(Claims(Claimants', t))
  BY DEF Claimed, Claims

-----------------------------------------------------------------------------
LEMMA InitPromise == OffersAssumption /\ Init => Promise
  <1> SUFFICES ASSUME OffersAssumption, Init PROVE Promise
    OBVIOUS
  <1>1. Claimants = {} /\ ShapeOK
    BY DEF OffersAssumption, Init, Claimants, ShapeOK, Phases
  <1>2. \A t \in Tiers : Claimed(t) = 0
    BY <1>1, FS_EmptySet DEF Claimed, Claims
  <1>3. WithinOffer
    BY <1>1, <1>2 DEF OffersAssumption, WithinOffer, ShapeOK
  <1> QED
    BY <1>1, <1>3 DEF Promise, OneClaimant

(* What becoming does to the phases and to the claimants.                  *)
LEMMA BecomeFacts ==
  ASSUME ShapeOK, NEW S \in SUBSET Orders, NEW p \in Phases, Become(S, p)
  PROVE  /\ phase' \in [Orders -> Phases]
         /\ \A o \in Orders : phase'[o] = IF o \in S THEN p ELSE phase[o]
         /\ Claimants' = IF p \in {"held", "entitled"} THEN Claimants \cup S ELSE Claimants \ S
  <1>1. /\ phase' \in [Orders -> Phases]
        /\ \A o \in Orders : phase'[o] = IF o \in S THEN p ELSE phase[o]
    BY DEF Become, ShapeOK
  <1>2. Claimants' = IF p \in {"held", "entitled"} THEN Claimants \cup S ELSE Claimants \ S
    BY <1>1 DEF Claimants
  <1> QED
    BY <1>1, <1>2

(* A basket there is room for joins the claims.                            *)
LEMMA JoinsPromise ==
  ASSUME Promise, NEW o \in Orders, Room(o), ShapeOK', UNCHANGED <<offer, withheld>>,
         Claimants' = Claimants \cup {o}
  PROVE  Promise'
  <1>1. Claimants \in SUBSET Orders
    BY DEF Claimants
  <1>2. OneClaimant'
    <2>1. \A s \in Basket[o] \cap Seats : s \notin withheld /\ \A p \in Claimants : s \notin Basket[p]
      BY DEF Room
    <2>2. withheld \subseteq Seats
      BY DEF Promise, ShapeOK
    <2>3. \A p, q \in Claimants \cup {o} : (Basket[p] \cap Basket[q] \cap Seats # {}) => p = q
      BY <2>1 DEF Promise, OneClaimant
    <2>4. \A p \in Claimants \cup {o} : Basket[p] \cap withheld = {}
      BY <2>1, <2>2 DEF Promise, OneClaimant
    <2> QED
      BY <2>3, <2>4 DEF OneClaimant
  <1>3. ASSUME NEW t \in Tiers
        PROVE  Claimed(t)' <= offer[t] /\ Claimed(t)' <= AreaCapacity[t]
    <2> DEFINE n == Cardinality(Claims({o}, t))
    <2>1. Claimed(t)' <= Claimed(t) + n
      BY <1>1, OneMoreClaims, ClaimedThen DEF Claimed, Promise, ShapeOK
    <2>2. Claimed(t) \in Nat /\ n \in Nat /\ offer[t] \in Nat /\ AreaCapacity[t] \in Nat
      BY <1>1, ClaimsFinite DEF OffersAssumption, Claimed, Promise, ShapeOK
    <2>3. Claimed(t)' \in Nat
      <3>1. Claimants' \in SUBSET Orders
        BY <1>1
      <3> QED
        BY <3>1, ClaimsFinite, ClaimedThen DEF Promise, ShapeOK
    <2>4. Claimed(t) <= offer[t] /\ Claimed(t) <= AreaCapacity[t]
      BY DEF Promise, WithinOffer
    <2>5. CASE Claims({o}, t) = {}
      <3>1. n = 0
        BY <2>5, FS_EmptySet
      <3> HIDE DEF n
      <3> QED
        BY <2>1, <2>2, <2>3, <2>4, <3>1
    <2>6. CASE Claims({o}, t) # {}
      <3>1. Claimed(t) + n <= offer[t] /\ Claimed(t) + n <= AreaCapacity[t]
        BY <2>6 DEF Room
      <3> HIDE DEF n
      <3> QED
        BY <2>1, <2>2, <2>3, <3>1
    <2> QED
      BY <2>5, <2>6
  <1>4. WithinOffer'
    BY <1>3 DEF WithinOffer
  <1> QED
    BY <1>2, <1>4 DEF Promise

(* Claims that are let go of leave room.                                   *)
LEMMA LeavesPromise ==
  ASSUME Promise, ShapeOK', UNCHANGED <<offer, withheld>>, Claimants' \subseteq Claimants
  PROVE  Promise'
  <1>1. Claimants \in SUBSET Orders /\ Claimants' \in SUBSET Claimants
    BY DEF Claimants
  <1>2. OneClaimant'
    BY DEF Promise, OneClaimant
  <1>3. ASSUME NEW t \in Tiers
        PROVE  Claimed(t)' <= offer[t] /\ Claimed(t)' <= AreaCapacity[t]
    <2>1. Claimed(t)' <= Claimed(t)
      BY <1>1, FewerClaims, ClaimedThen DEF Claimed, Promise, ShapeOK
    <2>2. Claimed(t) \in Nat /\ offer[t] \in Nat /\ AreaCapacity[t] \in Nat
      BY <1>1, ClaimsFinite DEF OffersAssumption, Claimed, Promise, ShapeOK
    <2>3. Claimed(t)' \in Nat
      <3>1. Claimants' \in SUBSET Orders
        BY <1>1
      <3> QED
        BY <3>1, ClaimsFinite, ClaimedThen DEF Promise, ShapeOK
    <2>4. Claimed(t) <= offer[t] /\ Claimed(t) <= AreaCapacity[t]
      BY DEF Promise, WithinOffer
    <2> QED
      BY <2>1, <2>2, <2>3, <2>4
  <1>4. WithinOffer'
    BY <1>3 DEF WithinOffer
  <1> QED
    BY <1>2, <1>4 DEF Promise

LEMMA OfferPromise ==
  ASSUME Promise, NEW t \in Tiers, NEW n \in Offers, Offer(t, n)
  PROVE  Promise'
  <1>1. n \in Nat /\ offer' = [offer EXCEPT ![t] = n] /\ UNCHANGED <<phase, withheld>> /\ Claimed(t) <= n
    BY DEF Promise, ShapeOK, OffersAssumption, Offer
  <1>2. ShapeOK' /\ Claimants' = Claimants
    BY <1>1 DEF Promise, ShapeOK, Claimants
  <1>3. OneClaimant'
    BY <1>1, <1>2 DEF Promise, OneClaimant
  <1>4. \A u \in Tiers : Claimed(u)' = Claimed(u)
    BY <1>2 DEF Claimed, Claims
  <1>5. \A u \in Tiers : offer'[u] = IF u = t THEN n ELSE offer[u]
    BY <1>1 DEF Promise, ShapeOK
  <1>6. WithinOffer'
    BY <1>1, <1>4, <1>5 DEF Promise, WithinOffer
  <1> QED
    BY <1>2, <1>3, <1>6 DEF Promise

(* The organiser's own chairs, and steps that change nothing.              *)
LEMMA WithholdPromise ==
  ASSUME Promise, UNCHANGED <<phase, offer>>, withheld' \subseteq Seats,
         \A s \in withheld' : s \in withheld \/ \A p \in Claimants : s \notin Basket[p]
  PROVE  Promise'
  <1>1. ShapeOK' /\ Claimants' = Claimants
    BY DEF Promise, ShapeOK, Claimants
  <1>2. OneClaimant'
    BY <1>1 DEF Promise, OneClaimant
  <1>3. WithinOffer'
    BY <1>1 DEF Promise, WithinOffer, Claimed, Claims
  <1> QED
    BY <1>1, <1>2, <1>3 DEF Promise

LEMMA StepPromise == Promise /\ [Next]_sale => Promise'
  <1> SUFFICES ASSUME Promise, [Next]_sale PROVE Promise'
    OBVIOUS
  <1>0. ShapeOK /\ {"out", "held", "entitled", "returned"} = Phases
    BY DEF Promise, Phases
  <1>1. ASSUME NEW o \in Orders, Hold(o) PROVE Promise'
    <2>1. ShapeOK' /\ Claimants' = Claimants \cup {o}
      <3>1. /\ {o} \in SUBSET Orders /\ "held" \in Phases
            /\ Become({o}, "held") /\ UNCHANGED <<offer, withheld>>
        BY <1>0, <1>1 DEF Hold
      <3>2. /\ phase' \in [Orders -> Phases]
            /\ Claimants' = IF "held" \in {"held", "entitled"} THEN Claimants \cup {o} ELSE Claimants \ {o}
        BY <1>0, <3>1, BecomeFacts
      <3> QED
        BY <1>0, <3>1, <3>2 DEF ShapeOK
    <2> QED
      BY <1>1, <2>1, JoinsPromise DEF Hold
  <1>2. ASSUME NEW S \in SUBSET Orders, LetGo(S) PROVE Promise'
    <2>1. ShapeOK' /\ Claimants' \subseteq Claimants
      <3>1. /\ S \in SUBSET Orders /\ "out" \in Phases
            /\ Become(S, "out") /\ UNCHANGED <<offer, withheld>>
        BY <1>0, <1>2 DEF LetGo
      <3>2. /\ phase' \in [Orders -> Phases]
            /\ Claimants' = IF "out" \in {"held", "entitled"} THEN Claimants \cup S ELSE Claimants \ S
        BY <1>0, <3>1, BecomeFacts
      <3> QED
        BY <1>0, <3>1, <3>2 DEF ShapeOK
    <2> QED
      BY <1>2, <2>1, LeavesPromise DEF LetGo
  <1>3. ASSUME NEW o \in Orders, Entitle(o) PROVE Promise'
    <2>1. ShapeOK' /\ Claimants' = Claimants \cup {o} /\ UNCHANGED <<offer, withheld>>
      <3>1. /\ {o} \in SUBSET Orders /\ "entitled" \in Phases
            /\ Become({o}, "entitled") /\ UNCHANGED <<offer, withheld>>
        BY <1>0, <1>3 DEF Entitle
      <3>2. /\ phase' \in [Orders -> Phases]
            /\ Claimants' = IF "entitled" \in {"held", "entitled"} THEN Claimants \cup {o} ELSE Claimants \ {o}
        BY <1>0, <3>1, BecomeFacts
      <3> QED
        BY <1>0, <3>1, <3>2 DEF ShapeOK
    <2>2. CASE phase[o] = "held"
      <3>1. Claimants' = Claimants
        BY <2>1, <2>2 DEF Claimants
      <3> QED
        BY <2>1, <3>1, LeavesPromise
    <2>3. CASE Room(o)
      BY <2>1, <2>3, JoinsPromise
    <2> QED
      BY <1>3, <2>2, <2>3 DEF Entitle
  <1>4. ASSUME NEW o \in Orders, Return(o) PROVE Promise'
    <2>1. ShapeOK' /\ Claimants' \subseteq Claimants
      <3>1. /\ {o} \in SUBSET Orders /\ "returned" \in Phases
            /\ Become({o}, "returned") /\ UNCHANGED <<offer, withheld>>
        BY <1>0, <1>4 DEF Return
      <3>2. /\ phase' \in [Orders -> Phases]
            /\ Claimants' = IF "returned" \in {"held", "entitled"} THEN Claimants \cup {o} ELSE Claimants \ {o}
        BY <1>0, <3>1, BecomeFacts
      <3> QED
        BY <1>0, <3>1, <3>2 DEF ShapeOK
    <2> QED
      BY <1>4, <2>1, LeavesPromise DEF Return
  <1>5. ASSUME NEW t \in Tiers, NEW n \in Offers, Offer(t, n) PROVE Promise'
    BY <1>5, OfferPromise
  <1>6. ASSUME NEW s \in Seats, Withhold(s) \/ PutBack(s) PROVE Promise'
    <2>1. withheld' \subseteq Seats /\ UNCHANGED <<phase, offer>>
      BY <1>0, <1>6 DEF Withhold, PutBack, ShapeOK
    <2>2. \A r \in withheld' : r \in withheld \/ \A p \in Claimants : r \notin Basket[p]
      BY <1>6 DEF Withhold, PutBack
    <2> QED
      BY <2>1, <2>2, WithholdPromise
  <1>7. CASE UNCHANGED sale
    BY <1>0, <1>7, WithholdPromise DEF sale, ShapeOK
  <1> QED
    BY <1>1, <1>2, <1>3, <1>4, <1>5, <1>6, <1>7 DEF Next

LEMMA AlwaysPromise == OffersAssumption /\ Spec => []Promise
  BY InitPromise, StepPromise, PTL DEF Spec

(* In the ideal sale no chair ever has two claimants, nor one while the    *)
(* organiser keeps it back.                                                *)
THEOREM OneChairOneClaimant == OffersAssumption /\ Spec => []OneClaimant
  <1>1. Promise => OneClaimant
    BY DEF Promise
  <1> QED
    BY <1>1, AlwaysPromise, PTL

(* And no tier is claimed beyond its offer or its area, though the offer   *)
(* moves while baskets come and go.                                        *)
THEOREM NeverBeyondOffer == OffersAssumption /\ Spec => []WithinOffer
  <1>1. Promise => WithinOffer
    BY DEF Promise
  <1> QED
    BY <1>1, AlwaysPromise, PTL
=============================================================================
