---------------------------- MODULE BasketsProofs ----------------------------
(***************************************************************************)
(* Why the box office's transactions add up, for any number of them at     *)
(* once, any baskets, tiers and chairs, and any limits.                    *)
(*                                                                         *)
(* Rows have locks, and what is committed is whole: TillInv says so of     *)
(* every moment, and of every connection that its view is whole too.  A    *)
(* transaction half done takes an order to hold a row it has taken and not *)
(* given back, and to own a row it has nothing left to do to; rows it has  *)
(* not locked are as committed.  So each statement keeps the view, a       *)
(* commit, when nothing is left, makes the view what others see, and a     *)
(* rollback leaves what they saw.  What one connection does touches only   *)
(* rows that are free or its own: OthersStay carries the rest over.        *)
(*                                                                         *)
(* The hold limits follow from the buyer's row, locked from the count to   *)
(* the commit; the order of the counters from the turns of what is left.   *)
(***************************************************************************)
EXTENDS Baskets, TLAPS, FiniteSetTheorems

-----------------------------------------------------------------------------
(* Sums.                                                                   *)
(* A set of which no finite part without a property is without a smaller   *)
(* one has the property for all its finite parts.                          *)
LEMMA SmallestFinite ==
  ASSUME NEW S, NEW Odd, Odd \subseteq FiniteSubsetsOf(S), Odd # {}
  PROVE  \E T \in Odd : \A x \in T : T \ {x} \notin Odd
  <1>1. IsWellFoundedOn(StrictSubsetOrdering(S), FiniteSubsetsOf(S))
    BY FS_StrictSubsetOrderingWellFounded
  <1>2. PICK T \in Odd : \A U \in Odd : ~ (<<U, T>> \in StrictSubsetOrdering(S))
    BY <1>1, WFMin
  <1>3. ASSUME NEW x \in T, T \ {x} \in Odd PROVE FALSE
    <2>1. T \in SUBSET S /\ T \ {x} \in SUBSET S /\ T \ {x} # T
      BY <1>2 DEF FiniteSubsetsOf
    <2>2. <<T \ {x}, T>> \in StrictSubsetOrdering(S)
      BY <2>1 DEF StrictSubsetOrdering
    <2> QED
      BY <1>2, <1>3, <2>2
  <1> QED
    BY <1>2, <1>3

(* A sum over a set is a function on its subsets that takes one member at  *)
(* a time.  There is one such function, so a sum does not depend on which  *)
(* set it is part of, nor on the order its members are taken in.           *)
Picked(T) == CHOOSE x \in T : TRUE
AddsUp(g, w, S) ==
    g = [s \in SUBSET S |-> IF s = {} THEN 0 ELSE w[Picked(s)] + g[s \ {Picked(s)}]]
Total(w, S) == SumFunctionOnSet(w, S)

LEMMA TotalIs == ASSUME NEW w, NEW S PROVE Total(w, S) = (CHOOSE g : AddsUp(g, w, S))[S]
  BY DEF Total, SumFunctionOnSet, FoldFunctionOnSet, MapThenFoldSet, AddsUp, Picked

LEMMA PickedIn == ASSUME NEW T, T # {} PROVE Picked(T) \in T
  BY DEF Picked

LEMMA SumUnfolds ==
  ASSUME NEW w, NEW S, NEW g, AddsUp(g, w, S), NEW U, U \subseteq S
  PROVE  g[U] = IF U = {} THEN 0 ELSE w[Picked(U)] + g[U \ {Picked(U)}]
  BY DEF AddsUp

LEMMA OneSum ==
  ASSUME NEW w, NEW S, NEW T, NEW g, NEW h, AddsUp(g, w, S), AddsUp(h, w, T),
         NEW U, U \subseteq S, U \subseteq T, IsFiniteSet(U)
  PROVE  g[U] = h[U]
  <1> DEFINE Odd == {V \in FiniteSubsetsOf(U) : g[V] # h[V]}
  <1>1. ASSUME g[U] # h[U] PROVE FALSE
    <2>1. U \in Odd /\ Odd \subseteq FiniteSubsetsOf(U)
      BY <1>1 DEF FiniteSubsetsOf
    <2>2. PICK V \in Odd : \A x \in V : V \ {x} \notin Odd
      <3> HIDE DEF Odd
      <3> QED
        BY <2>1, SmallestFinite
    <2>3. V \subseteq U /\ IsFiniteSet(V) /\ g[V] # h[V]
      BY <2>2 DEF FiniteSubsetsOf
    <2>4. g[V] = (IF V = {} THEN 0 ELSE w[Picked(V)] + g[V \ {Picked(V)}])
      BY <2>3, SumUnfolds
    <2>5. h[V] = (IF V = {} THEN 0 ELSE w[Picked(V)] + h[V \ {Picked(V)}])
      BY <2>3, SumUnfolds
    <2>6. V # {} /\ Picked(V) \in V
      BY <2>3, <2>4, <2>5, PickedIn
    <2>7. V \ {Picked(V)} \in FiniteSubsetsOf(U)
      BY <2>3, FS_Subset DEF FiniteSubsetsOf
    <2>8. g[V \ {Picked(V)}] = h[V \ {Picked(V)}]
      BY <2>2, <2>6, <2>7
    <2> QED
      BY <2>3, <2>4, <2>5, <2>6, <2>8
  <1> QED
    BY <1>1

LEMMA SumNarrows ==
  ASSUME NEW w, NEW S, NEW g, AddsUp(g, w, S), NEW U, U \subseteq S
  PROVE  AddsUp([s \in SUBSET U |-> g[s]], w, U)
  <1> DEFINE h == [s \in SUBSET U |-> g[s]]
  <1>1. ASSUME NEW s \in SUBSET U
        PROVE  h[s] = IF s = {} THEN 0 ELSE w[Picked(s)] + h[s \ {Picked(s)}]
    <2>1. g[s] = IF s = {} THEN 0 ELSE w[Picked(s)] + g[s \ {Picked(s)}]
      BY SumUnfolds
    <2>2. h[s] = g[s] /\ h[s \ {Picked(s)}] = g[s \ {Picked(s)}]
      OBVIOUS
    <2> QED
      BY <2>1, <2>2
  <1> QED
    BY <1>1 DEF AddsUp

LEMMA SumExists ==
  ASSUME NEW w, NEW S, IsFiniteSet(S)
  PROVE  \E g : AddsUp(g, w, S)
  <1> DEFINE Odd == {T \in FiniteSubsetsOf(S) : ~ \E g : AddsUp(g, w, T)}
  <1>1. ASSUME ~ \E g : AddsUp(g, w, S) PROVE FALSE
    <2>1. S \in Odd /\ Odd \subseteq FiniteSubsetsOf(S)
      BY <1>1 DEF FiniteSubsetsOf
    <2>2. PICK T \in Odd : \A x \in T : T \ {x} \notin Odd
      <3> HIDE DEF Odd
      <3> QED
        BY <2>1, SmallestFinite
    <2>3. T \subseteq S /\ IsFiniteSet(T) /\ ~ \E g : AddsUp(g, w, T)
      BY <2>2 DEF FiniteSubsetsOf
    <2> DEFINE G == [s \in SUBSET T |->
                       IF s = {} THEN 0 ELSE w[Picked(s)] + Total(w, s \ {Picked(s)})]
    <2>4. ASSUME NEW s \in SUBSET T, NEW x \in T, x \notin s
          PROVE  \E g : AddsUp(g, w, s)
      <3>1. T \ {x} \in FiniteSubsetsOf(S)
        BY <2>3, FS_Subset DEF FiniteSubsetsOf
      <3>2. PICK k : AddsUp(k, w, T \ {x})
        BY <2>2, <3>1
      <3>3. s \subseteq T \ {x}
        BY <2>4
      <3>4. AddsUp([v \in SUBSET s |-> k[v]], w, s)
        BY <3>2, <3>3, SumNarrows
      <3> QED
        BY <3>4
    <2>5. ASSUME NEW s \in SUBSET T, s # {}
          PROVE  Total(w, s \ {Picked(s)}) = G[s \ {Picked(s)}]
      <3> DEFINE u == s \ {Picked(s)}
      <3>1. Picked(s) \in T /\ Picked(s) \in s /\ u \in SUBSET T /\ Picked(s) \notin u
        BY <2>5, PickedIn
      <3>2. PICK h : AddsUp(h, w, u) /\ Total(w, u) = h[u]
        <4> HIDE DEF u
        <4> QED
          BY <2>4, <3>1, TotalIs
      <3>3. CASE u = {}
        BY <3>1, <3>2, <3>3, SumUnfolds
      <3>4. CASE u # {}
        <4> DEFINE v == u \ {Picked(u)}
        <4>1. v \in SUBSET T /\ v \subseteq u /\ Picked(s) \notin v /\ IsFiniteSet(v)
          BY <2>3, <3>1, FS_Subset
        <4>2. PICK k : AddsUp(k, w, v) /\ Total(w, v) = k[v]
          <5> HIDE DEF u, v
          <5> QED
            BY <2>4, <3>1, <4>1, TotalIs
        <4>3. k[v] = h[v]
          <5> HIDE DEF u, v
          <5> QED
            BY <3>2, <4>1, <4>2, OneSum
        <4>4. h[u] = w[Picked(u)] + h[v]
          <5> HIDE DEF u
          <5> QED
            BY <3>2, <3>4, SumUnfolds
        <4>5. G[u] = w[Picked(u)] + Total(w, v)
          <5> HIDE DEF u
          <5> QED
            BY <3>1, <3>4
        <4> QED
          BY <3>2, <4>2, <4>3, <4>4, <4>5
      <3> QED
        BY <3>3, <3>4
    <2>6. AddsUp(G, w, T)
      <3>1. \A s \in SUBSET T : G[s] = IF s = {} THEN 0 ELSE w[Picked(s)] + G[s \ {Picked(s)}]
        BY <2>5
      <3> QED
        BY <3>1 DEF AddsUp
    <2> QED
      BY <2>3, <2>6
  <1> QED
    BY <1>1

LEMMA TotalStep ==
  ASSUME NEW w, NEW S, IsFiniteSet(S)
  PROVE  Total(w, S) = IF S = {} THEN 0 ELSE w[Picked(S)] + Total(w, S \ {Picked(S)})
  <1>1. PICK g : AddsUp(g, w, S) /\ Total(w, S) = g[S]
    BY SumExists, TotalIs
  <1>2. g[S] = IF S = {} THEN 0 ELSE w[Picked(S)] + g[S \ {Picked(S)}]
    BY <1>1, SumUnfolds
  <1>3. IsFiniteSet(S \ {Picked(S)})
    BY FS_Subset
  <1>4. PICK h : AddsUp(h, w, S \ {Picked(S)}) /\ Total(w, S \ {Picked(S)}) = h[S \ {Picked(S)}]
    BY <1>3, SumExists, TotalIs
  <1>5. h[S \ {Picked(S)}] = g[S \ {Picked(S)}]
    BY <1>1, <1>3, <1>4, OneSum
  <1> QED
    BY <1>1, <1>2, <1>4, <1>5

LEMMA TotalInt ==
  ASSUME NEW w, NEW S, IsFiniteSet(S), \A x \in S : w[x] \in Int
  PROVE  Total(w, S) \in Int
  <1> DEFINE Odd == {T \in FiniteSubsetsOf(S) : Total(w, T) \notin Int}
  <1>1. ASSUME Total(w, S) \notin Int PROVE FALSE
    <2>1. S \in Odd /\ Odd \subseteq FiniteSubsetsOf(S)
      BY <1>1 DEF FiniteSubsetsOf
    <2>2. PICK T \in Odd : \A x \in T : T \ {x} \notin Odd
      <3> HIDE DEF Odd
      <3> QED
        BY <2>1, SmallestFinite
    <2>3. T \subseteq S /\ IsFiniteSet(T) /\ Total(w, T) \notin Int
      BY <2>2 DEF FiniteSubsetsOf
    <2>4. Total(w, T) = IF T = {} THEN 0 ELSE w[Picked(T)] + Total(w, T \ {Picked(T)})
      BY <2>3, TotalStep
    <2>5. T # {} /\ Picked(T) \in T
      BY <2>3, <2>4, PickedIn
    <2>6. T \ {Picked(T)} \in FiniteSubsetsOf(S)
      BY <2>3, FS_Subset DEF FiniteSubsetsOf
    <2>7. Total(w, T \ {Picked(T)}) \in Int
      BY <2>2, <2>5, <2>6
    <2> QED
      BY <2>3, <2>4, <2>5, <2>7
  <1> QED
    BY <1>1

LEMMA TotalWithout ==
  ASSUME NEW w, NEW S, IsFiniteSet(S), \A x \in S : w[x] \in Int, NEW x \in S
  PROVE  Total(w, S) = w[x] + Total(w, S \ {x})
  <1> DEFINE Odd == {T \in FiniteSubsetsOf(S) : \E y \in T : Total(w, T) # w[y] + Total(w, T \ {y})}
  <1>1. ASSUME Total(w, S) # w[x] + Total(w, S \ {x}) PROVE FALSE
    <2>1. S \in Odd /\ Odd \subseteq FiniteSubsetsOf(S)
      BY <1>1 DEF FiniteSubsetsOf
    <2>2. PICK T \in Odd : \A y \in T : T \ {y} \notin Odd
      <3> HIDE DEF Odd
      <3> QED
        BY <2>1, SmallestFinite
    <2>3. T \subseteq S /\ IsFiniteSet(T) /\ T \in FiniteSubsetsOf(S)
      BY <2>2 DEF FiniteSubsetsOf
    <2>4. PICK y \in T : Total(w, T) # w[y] + Total(w, T \ {y})
      BY <2>2
    <2> DEFINE c == Picked(T)
    <2>5. c \in T /\ Total(w, T) = w[c] + Total(w, T \ {c})
      BY <2>3, <2>4, TotalStep, PickedIn
    <2> HIDE DEF c
    <2>6. c # y
      BY <2>4, <2>5
    <2>7. T \ {c} \in FiniteSubsetsOf(S) /\ T \ {y} \in FiniteSubsetsOf(S)
      BY <2>3, FS_Subset DEF FiniteSubsetsOf
    <2>8. Total(w, T \ {c}) = w[y] + Total(w, (T \ {c}) \ {y})
      BY <2>2, <2>5, <2>6, <2>7
    <2>9. Total(w, T \ {y}) = w[c] + Total(w, (T \ {y}) \ {c})
      BY <2>2, <2>5, <2>6, <2>7
    <2>10. (T \ {c}) \ {y} = (T \ {y}) \ {c}
      OBVIOUS
    <2>11. IsFiniteSet((T \ {c}) \ {y})
      BY <2>3, FS_Subset
    <2>12. Total(w, (T \ {c}) \ {y}) \in Int
      BY <2>3, <2>11, TotalInt
    <2>13. w[c] \in Int /\ w[y] \in Int
      BY <2>3, <2>5
    <2>14. ASSUME NEW a \in Int, NEW b \in Int, NEW r \in Int, NEW t, NEW p, NEW q,
                  t = a + p, p = b + r, q = a + r
           PROVE  t = b + q
      BY <2>14
    <2>15. Total(w, T) = w[y] + Total(w, T \ {y})
      <3>1. Total(w, T \ {y}) = w[c] + Total(w, (T \ {c}) \ {y})
        BY <2>9, <2>10
      <3> QED
        BY <2>5, <2>8, <3>1, <2>12, <2>13, <2>14
    <2> QED
      BY <2>4, <2>15
  <1> QED
    BY <1>1

LEMMA TotalNone == ASSUME NEW w PROVE Total(w, {}) = 0
  BY TotalStep, FS_EmptySet

LEMMA TotalWith ==
  ASSUME NEW w, NEW S, IsFiniteSet(S), NEW x, x \notin S, \A y \in S \cup {x} : w[y] \in Int
  PROVE  Total(w, S \cup {x}) = w[x] + Total(w, S)
  <1>1. IsFiniteSet(S \cup {x}) /\ (S \cup {x}) \ {x} = S /\ x \in S \cup {x}
    BY FS_AddElement
  <1> DEFINE T == S \cup {x}
  <1>2. IsFiniteSet(T) /\ T \ {x} = S /\ x \in T /\ \A y \in T : w[y] \in Int
    BY <1>1
  <1> HIDE DEF T
  <1>3. Total(w, T) = w[x] + Total(w, S)
    BY <1>2, TotalWithout
  <1> QED
    BY <1>3 DEF T

(* A sum is of the weights of its members and of nothing else.             *)
LEMMA TotalSame ==
  ASSUME NEW w, NEW v, NEW S, IsFiniteSet(S), \A x \in S : w[x] = v[x]
  PROVE  Total(w, S) = Total(v, S)
  <1> DEFINE Odd == {T \in FiniteSubsetsOf(S) : Total(w, T) # Total(v, T)}
  <1>1. ASSUME Total(w, S) # Total(v, S) PROVE FALSE
    <2>1. S \in Odd /\ Odd \subseteq FiniteSubsetsOf(S)
      BY <1>1 DEF FiniteSubsetsOf
    <2>2. PICK T \in Odd : \A x \in T : T \ {x} \notin Odd
      <3> HIDE DEF Odd
      <3> QED
        BY <2>1, SmallestFinite
    <2>3. T \subseteq S /\ IsFiniteSet(T) /\ Total(w, T) # Total(v, T)
      BY <2>2 DEF FiniteSubsetsOf
    <2>4. /\ Total(w, T) = IF T = {} THEN 0 ELSE w[Picked(T)] + Total(w, T \ {Picked(T)})
          /\ Total(v, T) = IF T = {} THEN 0 ELSE v[Picked(T)] + Total(v, T \ {Picked(T)})
      BY <2>3, TotalStep
    <2>5. T # {} /\ Picked(T) \in T
      BY <2>3, <2>4, PickedIn
    <2>6. T \ {Picked(T)} \in FiniteSubsetsOf(S)
      BY <2>3, FS_Subset DEF FiniteSubsetsOf
    <2>7. Total(w, T \ {Picked(T)}) = Total(v, T \ {Picked(T)})
      BY <2>2, <2>5, <2>6
    <2> QED
      BY <2>3, <2>4, <2>5, <2>7
  <1> QED
    BY <1>1

(* A sum of numbers is a number, and grows with its members.               *)
LEMMA TotalNat ==
  ASSUME NEW w, NEW S, IsFiniteSet(S), \A x \in S : w[x] \in Nat
  PROVE  Total(w, S) \in Nat
  <1> DEFINE Odd == {T \in FiniteSubsetsOf(S) : Total(w, T) \notin Nat}
  <1>1. ASSUME Total(w, S) \notin Nat PROVE FALSE
    <2>1. S \in Odd /\ Odd \subseteq FiniteSubsetsOf(S)
      BY <1>1 DEF FiniteSubsetsOf
    <2>2. PICK T \in Odd : \A x \in T : T \ {x} \notin Odd
      <3> HIDE DEF Odd
      <3> QED
        BY <2>1, SmallestFinite
    <2>3. T \subseteq S /\ IsFiniteSet(T) /\ Total(w, T) \notin Nat
      BY <2>2 DEF FiniteSubsetsOf
    <2>4. Total(w, T) = IF T = {} THEN 0 ELSE w[Picked(T)] + Total(w, T \ {Picked(T)})
      BY <2>3, TotalStep
    <2>5. T # {} /\ Picked(T) \in T
      BY <2>3, <2>4, PickedIn
    <2>6. T \ {Picked(T)} \in FiniteSubsetsOf(S)
      BY <2>3, FS_Subset DEF FiniteSubsetsOf
    <2>7. Total(w, T \ {Picked(T)}) \in Nat
      BY <2>2, <2>5, <2>6
    <2> QED
      BY <2>3, <2>4, <2>5, <2>7
  <1> QED
    BY <1>1

LEMMA TotalGrows ==
  ASSUME NEW w, NEW S, IsFiniteSet(S), \A x \in S : w[x] \in Nat, NEW R, R \subseteq S
  PROVE  Total(w, R) <= Total(w, S)
  <1> DEFINE Odd == {T \in FiniteSubsetsOf(S) : R \subseteq T /\ ~ (Total(w, R) <= Total(w, T))}
  <1>1. ASSUME ~ (Total(w, R) <= Total(w, S)) PROVE FALSE
    <2>1. S \in Odd /\ Odd \subseteq FiniteSubsetsOf(S)
      BY <1>1 DEF FiniteSubsetsOf
    <2>2. PICK T \in Odd : \A x \in T : T \ {x} \notin Odd
      <3> HIDE DEF Odd
      <3> QED
        BY <2>1, SmallestFinite
    <2>3. T \subseteq S /\ IsFiniteSet(T) /\ R \subseteq T /\ ~ (Total(w, R) <= Total(w, T))
      BY <2>2 DEF FiniteSubsetsOf
    <2>4. Total(w, R) \in Nat /\ Total(w, T) \in Nat
      <3>1. IsFiniteSet(R)
        BY <2>3, FS_Subset
      <3> QED
        BY <2>3, <3>1, TotalNat
    <2>5. PICK x \in T : x \notin R
      BY <2>3, <2>4
    <2>6. T \ {x} \in FiniteSubsetsOf(S) /\ IsFiniteSet(T \ {x}) /\ R \subseteq T \ {x}
      BY <2>3, <2>5, FS_Subset DEF FiniteSubsetsOf
    <2>7. Total(w, R) <= Total(w, T \ {x}) /\ Total(w, T \ {x}) \in Nat
      <3>1. Total(w, R) <= Total(w, T \ {x})
        BY <2>2, <2>6
      <3> QED
        BY <3>1, <2>3, <2>6, TotalNat
    <2>8. Total(w, T) = w[x] + Total(w, T \ {x}) /\ w[x] \in Nat
      BY <2>3, TotalWithout
    <2> QED
      BY <2>3, <2>4, <2>7, <2>8
  <1> QED
    BY <1>1

-----------------------------------------------------------------------------
(* What an order buys, the rows that concerns, and what it takes of each.  *)
Bought(o) == NormalizeItems(Sent[o])
Proper(o) == \A l \in Bought(o) : \A c \in l.chairs : TierOf[c] = l.tier
Concerns(o, r) ==
    \E l \in Bought(o) : r = TierRow(l.tier) \/ \E c \in l.chairs : TierOf[c] = l.tier /\ r = ChairRow(c)
Wants(t) == [o \in Orders |-> Places(Bought(o), t)]

(* The rows have their columns; an order has lines once it is there.       *)
OrderShape(v, o) ==
    /\ v = [status |-> v.status, lines |-> IF v.status = "none" THEN {} ELSE Bought(o)]
    /\ v.status \in Statuses /\ (v.status # "none" => Proper(o))
RowShapes(rows) ==
    /\ DOMAIN rows = Rows
    /\ \A o \in Orders : OrderShape(rows[OrderRow(o)], o)
    /\ \A t \in Tiers : rows[TierRow(t)] \in [reserved : Nat, sold : Nat]
    /\ \A c \in Chairs : rows[ChairRow(c)] \in [by : Orders \cup {Nobody}, sold : BOOLEAN]
Shapes ==
    /\ RowShapes(row) /\ RowShapes(committed)
    /\ locks \in [Rows -> Connections \cup {Nobody}]
    /\ \A r \in Rows : IF locks[r] = Nobody THEN row[r] = committed[r] ELSE ~Idle(locks[r])
    /\ DOMAIN tx = Connections
    /\ \A k \in Connections : tx[k] = [kind |-> tx[k].kind, order |-> tx[k].order, todo |-> tx[k].todo, scan |-> tx[k].scan]

(* What a transaction still has to do to a row for an order; a claim that  *)
(* names the wrong tier never matches, and does nothing.                   *)
Taking == {"reserve", "claim"}
Giving == {"release", "free", "sell", "commit"}
Left(k, does, r, o) ==
    \E s \in tx[k].todo : s.does \in does /\ s.row = r /\ s.order = o /\ (s.does = "claim" => TierOf[s.row[2]] = s.by)

(* Which orders hold part of a row, and which own it: as committed, and as *)
(* a transaction that has written some of its rows takes it.               *)
Status(o) == committed[OrderRow(o)].status
Stands(o) == row[OrderRow(o)].status
InHand(k, o) == IF tx[k].kind = "start" THEN tx[k].order = o ELSE locks[OrderRow(o)] = k /\ Stands(o) # Status(o)
Has(o, status, r) == Status(o) = status /\ Concerns(o, r)
Held(k, o, r) ==
    IF InHand(k, o)
    THEN Concerns(o, r) /\ ~Left(k, Taking, r, o) /\ (tx[k].kind = "start" \/ Left(k, Giving, r, o))
    ELSE Has(o, "pending_payment", r)
Owned(k, o, r) ==
    IF InHand(k, o)
    THEN tx[k].kind # "start" /\ Stands(o) = "paid" /\ Concerns(o, r) /\ ~Left(k, Giving, r, o)
    ELSE Has(o, "paid", r)
Holding(r) == {o \in Orders : Has(o, "pending_payment", r)}
Owning(r) == {o \in Orders : Has(o, "paid", r)}
HoldingFor(k, r) == {o \in Orders : Held(k, o, r)}
OwningFor(k, r) == {o \in Orders : Owned(k, o, r)}

(* A tier's counters are sums over those orders; a chair has one of them.  *)
TierWhole(v, t, H, P) == v = [reserved |-> Total(Wants(t), H), sold |-> Total(Wants(t), P)]
ChairWhole(v, H, P) == H \cup P = {v.by} \ {Nobody} /\ (v.sold <=> P # {})
CommittedWhole ==
    /\ \A t \in Tiers : TierWhole(committed[TierRow(t)], t, Holding(TierRow(t)), Owning(TierRow(t)))
    /\ \A c \in Chairs : ChairWhole(committed[ChairRow(c)], Holding(ChairRow(c)), Owning(ChairRow(c)))
ViewWhole(k) ==
    /\ \A t \in Tiers : locks[TierRow(t)] = k =>
          TierWhole(row[TierRow(t)], t, HoldingFor(k, TierRow(t)), OwningFor(k, TierRow(t)))
    /\ \A c \in Chairs : locks[ChairRow(c)] = k =>
          ChairWhole(row[ChairRow(c)], HoldingFor(k, ChairRow(c)), OwningFor(k, ChairRow(c)))
(* What it has not locked it has not changed.                              *)
Untouched(k) == \A o \in Orders, r \in TierRows \cup ChairRows : locks[r] # k =>
    (Held(k, o, r) <=> Has(o, "pending_payment", r)) /\ (Owned(k, o, r) <=> Has(o, "paid", r))

(* The statements of a transaction.                                        *)
LocksNothing(k) == \A r \in Rows : locks[r] # k
Once(k) == \A s, u \in tx[k].todo : s.does = u.does /\ s.row = u.row /\ s.order = u.order /\ s.by = u.by => s = u
Inserting(o) == Do("insert", OrderRow(o), 0, o, <<2, 0, 0>>)
Starts(k) ==
    LET o == tx[k].order  todo == tx[k].todo
    IN  /\ o \in Orders /\ Status(o) = "none" /\ todo \subseteq Basket(o, Bought(o), tx[k].scan)
        /\ locks[OrderRow(o)] \in {Nobody, k}
        /\ \A j \in Connections \ {k} : ~(tx[j].kind = "start" /\ tx[j].order = o)
        /\ \A p \in Orders : locks[OrderRow(p)] = k => p = o
        /\ IF todo = {} THEN locks[OrderRow(o)] = k /\ Stands(o) = "pending_payment"
           ELSE Inserting(o) \in todo /\ locks[OrderRow(o)] # k
        /\ IF Counting(o) \in todo THEN LocksNothing(k)
           ELSE locks[BuyerRow(BuyerOf[o])] = k /\ Allows(o, Bought(o))
        /\ \A l \in Bought(o) : \A c \in l.chairs : TierOf[c] # l.tier =>
              Do("claim", ChairRow(c), l.tier, o, <<1, l.tier, tx[k].scan[c]>>) \in todo
Looks(k) ==
    LET o == tx[k].order
    IN  o \in Orders /\ tx[k].todo = {Looking(o)} /\ LocksNothing(k) /\ Status(o) # "none"
Moving(k, o) ==
    /\ Status(o) # "none" /\ (tx[k].kind # "sweep" => o = tx[k].order)
    /\ Stands(o) # Status(o) =>
         \/ tx[k].kind \in {"expire", "cancel", "sweep"} /\ Status(o) = "pending_payment" /\ Stands(o) \in {"expired", "cancelled"}
         \/ tx[k].kind = "pay" /\ Status(o) \in {"pending_payment", "expired", "cancelled"} /\ Stands(o) = "paid"
         \/ tx[k].kind = "pay" /\ Status(o) \in {"expired", "cancelled"} /\ Stands(o) = "refund_required" /\ tx[k].todo = {}
Statement(k, s) ==
    LET o == s.order
    IN  /\ o \in Orders /\ InHand(k, o)
        /\ IF tx[k].kind = "pay"
           THEN s \in CommitAll(o, Bought(o), tx[k].scan) \/ (Status(o) # "pending_payment" /\ s \in ReserveAll(o, Bought(o), tx[k].scan))
           ELSE \E n \in Nat : (tx[k].kind = "sweep" \/ n = 1) /\ s \in ReleaseAll(o, Bought(o), n, tx[k].scan)
(* A late payment takes every row before it sells any.                     *)
TakesFirst(k) == \A s \in tx[k].todo :
    /\ s.does \in Taking => Left(k, Giving, s.row, s.order)
    /\ s.does = "sell" /\ Status(s.order) # "pending_payment" => Left(k, {"reserve"}, s.row, s.order) \/ locks[s.row] = k
Works(k) ==
    /\ \A o \in Orders : locks[OrderRow(o)] = k => Moving(k, o)
    /\ \A s \in tx[k].todo : Statement(k, s)
    /\ tx[k].kind = "pay" => TakesFirst(k)
Working(k) ==
    \/ tx[k].kind = "idle" /\ tx[k].todo = {}
    \/ tx[k].kind = "start" /\ Starts(k)
    \/ tx[k].kind \in {"expire", "cancel", "pay"} /\ (Looks(k) \/ Works(k))
    \/ tx[k].kind = "sweep" /\ Works(k)
(* Tiers are locked by their ids, but by a sweep.                          *)
InOrder(k) == tx[k].kind # "sweep" =>
    \A s \in tx[k].todo, t \in Tiers, e \in Tiers :
        s.row = TierRow(e) /\ locks[TierRow(e)] # k /\ locks[TierRow(t)] = k => t < e

Sound(k) == Working(k) /\ Once(k) /\ ViewWhole(k) /\ Untouched(k) /\ InOrder(k)
TillInv == Shapes /\ CommittedWhole /\ WithinHoldLimits /\ \A k \in Connections : Sound(k)

-----------------------------------------------------------------------------
(* What an order buys: one line per tier, of at least one place.           *)
LEMMA LinesGood ==
  ASSUME TillAssumption, NEW o \in Orders, NEW l \in Bought(o)
  PROVE  /\ l = [tier |-> l.tier, quantity |-> l.quantity, chairs |-> l.chairs]
         /\ l.tier \in Tiers /\ l.tier \in Nat /\ l.quantity \in Nat \ {0} /\ l.chairs \subseteq Chairs
         /\ \A m \in Bought(o) : m.tier = l.tier => m = l
  <1> DEFINE lines == Sent[o]
  <1>1. PICK t \in TiersOf(lines) : l = Line(lines, t)
    BY DEF Bought, NormalizeItems
  <1>2. IsFiniteSet(DOMAIN lines) /\ \A k \in DOMAIN lines : lines[k] \in [tier : Tiers, quantity : Int, chairs : SUBSET Chairs]
    BY DEF TillAssumption
  <1> HIDE DEF lines
  <1>3. PICK k \in Meant(lines) : t = lines[k].tier
    BY <1>1 DEF TiersOf
  <1>4. k \in For(lines, t) /\ t \in Tiers /\ t \in Nat
    BY <1>2, <1>3 DEF For, Meant, TillAssumption
  <1>5. ChairsOf(lines, t) \subseteq Chairs
    BY <1>2 DEF ChairsOf, For, Meant
  <1>6. UnitsOf(lines, t) \in Nat \ {0}
    <2>1. CASE ChairsOf(lines, t) # {}
      <3>1. IsFiniteSet(ChairsOf(lines, t))
        BY <1>5, FS_Subset DEF TillAssumption
      <3> QED
        BY <2>1, <3>1, FS_CardinalityType, FS_EmptySet DEF UnitsOf
    <2>2. CASE ChairsOf(lines, t) = {}
      <3> DEFINE S == For(lines, t)  w == [j \in S |-> lines[j].quantity]
      <3>1. \A j \in S : w[j] \in Nat /\ w[j] > 0
        BY <1>2, <2>2 DEF ChairsOf, For, Meant
      <3>2. IsFiniteSet(S)
        BY <1>2, FS_Subset DEF For, Meant
      <3>3. UnitsOf(lines, t) = Total(w, S)
        BY <2>2 DEF UnitsOf, SumFunction, Total
      <3>4. k \in S
        BY <1>4
      <3> HIDE DEF S, w
      <3>5. Total(w, S) = w[k] + Total(w, S \ {k})
        BY <3>1, <3>2, <3>4, TotalWithout
      <3>6. IsFiniteSet(S \ {k})
        BY <3>2, FS_Subset
      <3>7. Total(w, S \ {k}) \in Nat
        BY <3>1, <3>6, TotalNat
      <3> QED
        BY <3>1, <3>3, <3>4, <3>5, <3>7
    <2> QED
      BY <2>1, <2>2
  <1>7. l = [tier |-> t, quantity |-> UnitsOf(lines, t), chairs |-> ChairsOf(lines, t)]
    BY <1>1 DEF Line
  <1>8. ASSUME NEW m \in Bought(o), m.tier = l.tier PROVE m = l
    <2>1. PICK e \in TiersOf(lines) : m = Line(lines, e)
      BY DEF Bought, NormalizeItems, lines
    <2>2. m.tier = e /\ l.tier = t
      BY <1>7, <2>1 DEF Line
    <2>3. e = t
      BY <1>8, <2>2
    <2> QED
      BY <1>1, <2>1, <2>3
  <1> QED
    BY <1>4, <1>5, <1>6, <1>7, <1>8

(* What it takes of a tier is what its line of that tier says, if any.     *)
LEMMA WantsOf ==
  ASSUME TillAssumption, NEW o \in Orders, NEW t \in Tiers
  PROVE  /\ Wants(t)[o] \in Nat
         /\ \A l \in Bought(o) : l.tier = t => Wants(t)[o] = l.quantity
         /\ (\A l \in Bought(o) : l.tier # t) => Wants(t)[o] = 0
  <1> DEFINE S == {m \in Bought(o) : m.tier = t}  w == [m \in S |-> m.quantity]
  <1>1. Wants(t)[o] = Total(w, S)
    BY DEF Wants, Places, SumFunction, Total
  <1>2. CASE \A l \in Bought(o) : l.tier # t
    <2>1. S = {}
      BY <1>2
    <2> QED
      BY <1>1, <1>2, <2>1, TotalNone
  <1>3. ASSUME NEW l \in Bought(o), l.tier = t PROVE Wants(t)[o] = l.quantity /\ l.quantity \in Nat
    <2>1. S = {l} /\ w[l] = l.quantity /\ l.quantity \in Nat
      BY <1>3, LinesGood
    <2> HIDE DEF S, w
    <2>2. IsFiniteSet(S) /\ S \ {l} = {} /\ l \in S /\ \A x \in S : w[x] \in Int
      BY <2>1, FS_Singleton
    <2>3. Total(w, S) = w[l] + Total(w, S \ {l})
      BY <2>2, TotalWithout
    <2> QED
      BY <1>1, <2>1, <2>2, <2>3, TotalNone
  <1> QED
    BY <1>2, <1>3

-----------------------------------------------------------------------------

(* Rows of different tables, and of different ids, are different rows.     *)
LEMMA RowsApart ==
  /\ \A o \in Orders : OrderRow(o) \in OrderRows /\ OrderRow(o) \in Rows /\ BuyerRow(BuyerOf[o]) \in Rows
  /\ \A t \in Tiers : TierRow(t) \in TierRows /\ TierRow(t) \in Rows /\ TierRow(t)[2] = t
  /\ \A c \in Chairs : ChairRow(c) \in ChairRows /\ ChairRow(c) \in Rows /\ ChairRow(c)[2] = c
  /\ \A o, p : OrderRow(o) = OrderRow(p) => o = p
  /\ \A t, e : TierRow(t) = TierRow(e) => t = e
  /\ \A c, d : ChairRow(c) = ChairRow(d) => c = d
  /\ \A o, t : OrderRow(o) # TierRow(t) /\ OrderRow(o) # ChairRow(t) /\ OrderRow(o) # BuyerRow(t)
  /\ \A b, t : BuyerRow(b) # TierRow(t) /\ BuyerRow(b) # ChairRow(t)
  /\ \A t, c : TierRow(t) # ChairRow(c)
  BY DEF OrderRow, TierRow, ChairRow, BuyerRow, OrderRows, TierRows, ChairRows, BuyerRows, Rows

(* Members that weigh nothing add nothing.                                 *)
LEMMA TotalZeros ==
  ASSUME NEW w, NEW S, IsFiniteSet(S), \A x \in S : w[x] \in Nat,
         NEW R, R \subseteq S, \A x \in S \ R : w[x] = 0
  PROVE  Total(w, S) = Total(w, R)
  <1> DEFINE Odd == {T \in FiniteSubsetsOf(S) : R \subseteq T /\ Total(w, T) # Total(w, R)}
  <1>1. ASSUME Total(w, S) # Total(w, R) PROVE FALSE
    <2>1. S \in Odd /\ Odd \subseteq FiniteSubsetsOf(S)
      BY <1>1 DEF FiniteSubsetsOf
    <2>2. PICK T \in Odd : \A x \in T : T \ {x} \notin Odd
      <3> HIDE DEF Odd
      <3> QED
        BY <2>1, SmallestFinite
    <2>3. T \subseteq S /\ IsFiniteSet(T) /\ R \subseteq T /\ Total(w, T) # Total(w, R)
      BY <2>2 DEF FiniteSubsetsOf
    <2>4. PICK x \in T : x \notin R
      BY <2>3
    <2>5. T \ {x} \in FiniteSubsetsOf(S) /\ IsFiniteSet(T \ {x}) /\ R \subseteq T \ {x}
      BY <2>3, <2>4, FS_Subset DEF FiniteSubsetsOf
    <2>6. Total(w, T \ {x}) = Total(w, R)
      BY <2>2, <2>5
    <2>7. Total(w, T) = w[x] + Total(w, T \ {x}) /\ w[x] = 0 /\ Total(w, T \ {x}) \in Nat
      <3>1. Total(w, T) = w[x] + Total(w, T \ {x}) /\ w[x] = 0
        BY <2>3, <2>4, TotalWithout
      <3>2. Total(w, T \ {x}) \in Nat
        BY <2>3, <2>5, TotalNat
      <3> QED
        BY <3>1, <3>2
    <2> QED
      BY <2>3, <2>6, <2>7
  <1> QED
    BY <1>1

LEMMA OrdersFinite ==
  ASSUME TillAssumption, NEW S, S \subseteq Orders
  PROVE  IsFiniteSet(S)
  BY FS_Subset DEF TillAssumption

(* An order that is there has the lines it was sent.                       *)
LEMMA OrderThere ==
  ASSUME Shapes, NEW o \in Orders
  PROVE  /\ Order(o).status = Status(o) /\ Status(o) \in Statuses
         /\ Status(o) # "none" => Order(o).lines = Bought(o) /\ Proper(o)
  <1>1. OrderShape(committed[OrderRow(o)], o)
    BY DEF Shapes, RowShapes
  <1> DEFINE v == committed[OrderRow(o)]
  <1>2. v = [status |-> v.status, lines |-> IF v.status = "none" THEN {} ELSE Bought(o)]
    BY <1>1 DEF OrderShape
  <1>3. v.lines = IF v.status = "none" THEN {} ELSE Bought(o)
    <2> HIDE DEF v
    <2> QED
      BY <1>2
  <1> QED
    BY <1>1, <1>3 DEF OrderShape, Order, Status

LEMMA UnitsTotal ==
  ASSUME TillAssumption, Shapes, NEW t \in Tiers, NEW os, os \subseteq Orders, \A o \in os : Status(o) # "none"
  PROVE  Units(os, t) = Total(Wants(t), os)
  <1> DEFINE w == [o \in os |-> Places(Order(o).lines, t)]
  <1>1. Units(os, t) = Total(w, os)
    BY DEF Units, SumFunction, Total
  <1>2. \A o \in os : w[o] = Wants(t)[o]
    BY OrderThere DEF Wants
  <1> HIDE DEF w
  <1>3. Total(w, os) = Total(Wants(t), os)
    BY <1>2, OrdersFinite, TotalSame
  <1> QED
    BY <1>1, <1>3

(* The orders that have a status weigh as those that also hold some of the *)
(* tier.                                                                   *)
LEMMA ConcernedWeigh ==
  ASSUME TillAssumption, NEW t \in Tiers, NEW os, os \subseteq Orders
  PROVE  Total(Wants(t), os) = Total(Wants(t), {o \in os : Concerns(o, TierRow(t))})
  <1> DEFINE R == {o \in os : Concerns(o, TierRow(t))}
  <1>1. ASSUME NEW o \in os \ R PROVE Wants(t)[o] = 0
    <2>1. \A l \in Bought(o) : l.tier # t
      BY DEF Concerns
    <2> QED
      BY <2>1, WantsOf
  <1>2. \A o \in os : Wants(t)[o] \in Nat
    BY WantsOf
  <1>3. IsFiniteSet(os) /\ R \subseteq os
    BY OrdersFinite
  <1> HIDE DEF R
  <1>4. Total(Wants(t), os) = Total(Wants(t), R)
    BY <1>1, <1>2, <1>3, TotalZeros
  <1> QED
    BY <1>4 DEF R

LEMMA SeenWholeHolds ==
  ASSUME TillAssumption, Shapes, CommittedWhole
  PROVE  SeenWhole
  <1>1. ASSUME NEW t \in Tiers, NEW status \in {"pending_payment", "paid"}
        PROVE  Units(In(status), t) = Total(Wants(t), {o \in Orders : Has(o, status, TierRow(t))})
    <2>1. In(status) \subseteq Orders /\ \A o \in In(status) : Status(o) # "none"
      BY OrderThere DEF In
    <2>2. {o \in In(status) : Concerns(o, TierRow(t))} = {o \in Orders : Has(o, status, TierRow(t))}
      BY OrderThere DEF In, Has
    <2> QED
      BY <2>1, <2>2, UnitsTotal, ConcernedWeigh
  <1>2. ASSUME NEW t \in Tiers
        PROVE  committed[TierRow(t)] = [reserved |-> Units(In("pending_payment"), t), sold |-> Units(In("paid"), t)]
    BY <1>1 DEF CommittedWhole, TierWhole, Holding, Owning
  <1>3. ASSUME NEW c \in Chairs
        PROVE  LET chair == committed[ChairRow(c)]
                   owners == {o \in In("pending_payment") \cup In("paid") : Names(Order(o).lines, c)}
               IN  /\ owners = {chair.by} \ {Nobody}
                   /\ chair.sold <=> owners \cap In("paid") # {}
    <2>1. ASSUME NEW o \in Orders, Status(o) # "none"
          PROVE  Names(Order(o).lines, c) <=> Concerns(o, ChairRow(c))
      BY <2>1, OrderThere, RowsApart DEF Names, Concerns, Proper
    <2>2. {o \in In("pending_payment") \cup In("paid") : Names(Order(o).lines, c)} = Holding(ChairRow(c)) \cup Owning(ChairRow(c))
      BY <2>1, OrderThere DEF In, Holding, Owning, Has
    <2>3. (Holding(ChairRow(c)) \cup Owning(ChairRow(c))) \cap In("paid") = Owning(ChairRow(c))
      BY OrderThere DEF In, Holding, Owning, Has
    <2> QED
      BY <2>2, <2>3 DEF CommittedWhole, ChairWhole
  <1> QED
    BY <1>2, <1>3 DEF SeenWhole

LEMMA TypeOKHolds == ASSUME Shapes PROVE TypeOK
  <1>1. \A r \in OrderRows : row[r].status \in Statuses
    BY DEF Shapes, RowShapes, OrderShape, OrderRows
  <1>2. \A r \in TierRows : row[r] \in [reserved : Nat, sold : Nat]
    BY DEF Shapes, RowShapes, TierRows
  <1>3. \A r \in ChairRows : row[r] \in [by : Orders \cup {Nobody}, sold : BOOLEAN]
    BY DEF Shapes, RowShapes, ChairRows
  <1> QED
    BY <1>1, <1>2, <1>3 DEF Shapes, TypeOK

(* A finite set of numbers has a greatest member.                          *)
LEMMA GreatestOf ==
  ASSUME NEW S, S \subseteq Nat, IsFiniteSet(S), S # {}
  PROVE  \E m \in S : \A n \in S : n <= m
  <1> DEFINE Odd == {T \in FiniteSubsetsOf(S) : T # {} /\ \A m \in T : \E n \in T : ~ (n <= m)}
  <1>1. ASSUME \A m \in S : \E n \in S : ~ (n <= m) PROVE FALSE
    <2>1. S \in Odd /\ Odd \subseteq FiniteSubsetsOf(S)
      BY <1>1 DEF FiniteSubsetsOf
    <2>2. PICK T \in Odd : \A x \in T : T \ {x} \notin Odd
      <3> HIDE DEF Odd
      <3> QED
        BY <2>1, SmallestFinite
    <2>3. T \subseteq S /\ IsFiniteSet(T) /\ T # {} /\ \A m \in T : \E n \in T : ~ (n <= m)
      BY <2>2 DEF FiniteSubsetsOf
    <2>4. PICK x \in T : TRUE
      BY <2>3
    <2>5. T \ {x} \in FiniteSubsetsOf(S)
      BY <2>3, FS_Subset DEF FiniteSubsetsOf
    <2>6. CASE T \ {x} = {}
      BY <2>3, <2>6
    <2>7. CASE T \ {x} # {}
      <3>1. PICK m \in T \ {x} : \A n \in T \ {x} : n <= m
        BY <2>2, <2>5, <2>7
      <3>2. x \in Nat /\ m \in Nat
        BY <2>3, <2>4, <3>1
      <3>3. PICK n \in T : ~ (n <= m)
        BY <2>3, <3>1
      <3>4. n = x /\ m < x
        BY <3>1, <3>2, <3>3
      <3>5. \A y \in T : y \in Nat
        BY <2>3
      <3>6. \A y \in T : y <= x
        BY <3>1, <3>2, <3>4, <3>5
      <3> QED
        BY <2>3, <2>4, <3>6
    <2> QED
      BY <2>6, <2>7
  <1> QED
    BY <1>1

-----------------------------------------------------------------------------
(* Statements.                                                             *)
Claiming(s, o, scan) ==
    \E l \in Bought(o) : \E c \in l.chairs : s = Do("claim", ChairRow(c), l.tier, o, <<1, l.tier, scan[c]>>)
OnTier(s, does, o, round) ==
    \E l \in Bought(o) : s = Do(does, TierRow(l.tier), l.quantity, o, <<round, l.tier, Cardinality(Chairs) + 1>>)
OnChair(s, does, o, round, scan) ==
    \E l \in Bought(o) : \E c \in l.chairs : s = Do(does, ChairRow(c), 1, o, <<round, 0, scan[c]>>)

LEMMA StatementSets ==
  ASSUME NEW o, NEW scan, NEW n, NEW s
  PROVE  /\ s \in Basket(o, Bought(o), scan) <=>
              s = Counting(o) \/ s = Inserting(o) \/ Claiming(s, o, scan) \/ OnTier(s, "reserve", o, 1)
         /\ s \in ReleaseAll(o, Bought(o), n, scan) <=>
              OnTier(s, "release", o, 2 * n) \/ OnChair(s, "free", o, 2 * n + 1, scan)
         /\ s \in CommitAll(o, Bought(o), scan) <=> OnTier(s, "sell", o, 3) \/ OnChair(s, "commit", o, 4, scan)
         /\ s \in ReserveAll(o, Bought(o), scan) <=> Claiming(s, o, scan) \/ OnTier(s, "reserve", o, 2)
  <1>1. ASSUME NEW does, NEW round
        PROVE  s \in Each(does, o, Bought(o), round) <=> OnTier(s, does, o, round)
    BY DEF Each, OnTier
  <1>2. ASSUME NEW does, NEW round
        PROVE  s \in ChairsInScan(does, o, Bought(o), round, scan) <=> OnChair(s, does, o, round, scan)
    BY DEF ChairsInScan, OnChair
  <1>3. s \in Claims(o, Bought(o), scan) <=> Claiming(s, o, scan)
    BY DEF Claims, Claiming
  <1> QED
    BY <1>1, <1>2, <1>3 DEF Basket, ReleaseAll, CommitAll, ReserveAll, Inserting

(* What each statement is.                                                 *)
WellMade(s) == s = Do(s.does, s.row, s.by, s.order, s.turn)

LEMMA StatementParts ==
  ASSUME NEW does, NEW r, NEW n, NEW o, NEW turn
  PROVE  /\ Do(does, r, n, o, turn).does = does /\ Do(does, r, n, o, turn).row = r
         /\ Do(does, r, n, o, turn).by = n /\ Do(does, r, n, o, turn).order = o
         /\ Do(does, r, n, o, turn).turn = turn
  BY DEF Do

LEMMA ClaimingSays ==
  ASSUME TillAssumption, NEW o \in Orders, NEW s, NEW scan, Claiming(s, o, scan)
  PROVE  /\ s.does = "claim" /\ s.order = o /\ s.by \in Tiers /\ s.row \in ChairRows /\ s.row \in Rows /\ WellMade(s)
         /\ \E c \in Chairs : s.row = ChairRow(c) /\ s.row[2] = c /\ s.turn = <<1, s.by, scan[c]>>
  <1>1. PICK l \in Bought(o) : \E c \in l.chairs : s = Do("claim", ChairRow(c), l.tier, o, <<1, l.tier, scan[c]>>)
    BY DEF Claiming
  <1>2. PICK c \in l.chairs : s = Do("claim", ChairRow(c), l.tier, o, <<1, l.tier, scan[c]>>)
    BY <1>1
  <1>3. c \in Chairs /\ l.tier \in Tiers
    BY LinesGood
  <1> QED
    BY <1>2, <1>3, StatementParts, RowsApart DEF WellMade

LEMMA OnTierSays ==
  ASSUME TillAssumption, NEW o \in Orders, NEW s, NEW does, NEW round, OnTier(s, does, o, round)
  PROVE  /\ s.does = does /\ s.order = o /\ s.row \in TierRows /\ s.row \in Rows /\ Concerns(o, s.row) /\ WellMade(s)
         /\ \E t \in Tiers : /\ s.row = TierRow(t) /\ s.row[2] = t /\ s.by = Wants(t)[o]
                            /\ s.turn = <<round, t, Cardinality(Chairs) + 1>>
  <1>1. PICK l \in Bought(o) : s = Do(does, TierRow(l.tier), l.quantity, o, <<round, l.tier, Cardinality(Chairs) + 1>>)
    BY DEF OnTier
  <1>2. l.tier \in Tiers
    BY LinesGood
  <1>3. Wants(l.tier)[o] = l.quantity /\ Concerns(o, TierRow(l.tier))
    BY <1>2, WantsOf DEF Concerns
  <1> QED
    BY <1>1, <1>2, <1>3, StatementParts, RowsApart DEF WellMade

LEMMA OnChairSays ==
  ASSUME TillAssumption, NEW o \in Orders, NEW s, NEW does, NEW round, NEW scan, OnChair(s, does, o, round, scan)
  PROVE  /\ s.does = does /\ s.order = o /\ s.by = 1 /\ s.row \in ChairRows /\ s.row \in Rows /\ WellMade(s)
         /\ \E c \in Chairs : s.row = ChairRow(c) /\ s.row[2] = c /\ s.turn = <<round, 0, scan[c]>>
  <1>1. PICK l \in Bought(o) : \E c \in l.chairs : s = Do(does, ChairRow(c), 1, o, <<round, 0, scan[c]>>)
    BY DEF OnChair
  <1>2. PICK c \in l.chairs : s = Do(does, ChairRow(c), 1, o, <<round, 0, scan[c]>>)
    BY <1>1
  <1>3. c \in Chairs
    BY LinesGood
  <1> QED
    BY <1>2, <1>3, StatementParts, RowsApart DEF WellMade

LEMMA OwnRowSays ==
  ASSUME NEW o \in Orders, NEW s
  PROVE  /\ s = Counting(o) => s.does = "count" /\ s.order = o /\ s.row = BuyerRow(BuyerOf[o]) /\ s.turn = <<0, 0, 0>> /\ s.row \in Rows
         /\ s = Inserting(o) => s.does = "insert" /\ s.order = o /\ s.row = OrderRow(o) /\ s.turn = <<2, 0, 0>> /\ s.row \in Rows
         /\ s = Counting(o) \/ s = Inserting(o) => WellMade(s)
         /\ s = Looking(o) => s.does = "look" /\ s.order = o /\ s.row = OrderRow(o) /\ s.row \in Rows
  BY StatementParts, RowsApart DEF WellMade, Counting, Inserting, Looking

(* Whatever is done to a working transaction's orders is one of these.     *)
LEMMA WorkSays ==
  ASSUME NEW k, NEW s, Statement(k, s)
  PROVE  /\ s.order \in Orders /\ InHand(k, s.order)
         /\ \/ tx[k].kind = "pay" /\ OnTier(s, "sell", s.order, 3)
            \/ tx[k].kind = "pay" /\ OnChair(s, "commit", s.order, 4, tx[k].scan)
            \/ tx[k].kind = "pay" /\ Status(s.order) # "pending_payment" /\ Claiming(s, s.order, tx[k].scan)
            \/ tx[k].kind = "pay" /\ Status(s.order) # "pending_payment" /\ OnTier(s, "reserve", s.order, 2)
            \/ \E n \in Nat : /\ tx[k].kind # "pay" /\ (tx[k].kind = "sweep" \/ n = 1)
                             /\ \/ OnTier(s, "release", s.order, 2 * n)
                                \/ OnChair(s, "free", s.order, 2 * n + 1, tx[k].scan)
  <1>1. s.order \in Orders /\ InHand(k, s.order)
    BY DEF Statement
  <1>2. CASE tx[k].kind = "pay"
    BY <1>1, <1>2, StatementSets DEF Statement
  <1>3. CASE tx[k].kind # "pay"
    <2>1. PICK n \in Nat : (tx[k].kind = "sweep" \/ n = 1) /\ s \in ReleaseAll(s.order, Bought(s.order), n, tx[k].scan)
      BY <1>3 DEF Statement
    <2> QED
      BY <1>1, <1>3, <2>1, StatementSets
  <1> QED
    BY <1>2, <1>3

(* Statements are about rows that are there: of tiers and chairs once the  *)
(* transaction works.                                                      *)
LEMMA WorkRows ==
  ASSUME TillAssumption, NEW k, NEW s, Statement(k, s)
  PROVE  s.row \in Rows /\ (s.row \in TierRows \/ s.row \in ChairRows)
  <1>1. \/ \E does, round : OnTier(s, does, s.order, round) \/ OnChair(s, does, s.order, round, tx[k].scan)
        \/ Claiming(s, s.order, tx[k].scan)
    BY WorkSays
  <1>2. s.order \in Orders
    BY WorkSays
  <1> QED
    BY <1>1, <1>2, ClaimingSays, OnTierSays, OnChairSays

LEMMA BasketRows ==
  ASSUME TillAssumption, NEW o \in Orders, NEW scan, NEW s \in Basket(o, Bought(o), scan)
  PROVE  s.row \in Rows /\ (s = Counting(o) \/ s = Inserting(o) \/ s.row \in TierRows \/ s.row \in ChairRows)
  <1>1. s = Counting(o) \/ s = Inserting(o) \/ Claiming(s, o, scan) \/ OnTier(s, "reserve", o, 1)
    BY StatementSets
  <1> QED
    BY <1>1, ClaimingSays, OnTierSays, OwnRowSays

LEMMA StatementRows ==
  ASSUME TillAssumption, NEW k \in Connections, Working(k), NEW s \in tx[k].todo
  PROVE  s.row \in Rows
  <1>1. CASE tx[k].kind = "start" /\ Starts(k)
    BY <1>1, BasketRows DEF Starts
  <1>2. CASE Looks(k)
    BY <1>2, OwnRowSays DEF Looks
  <1>3. CASE Works(k)
    BY <1>3, WorkRows DEF Works
  <1> QED
    BY <1>1, <1>2, <1>3 DEF Working

(* A transaction that holds rows and waits, but for a chair, waits for a   *)
(* tier.                                                                   *)
LEMMA HolderWaitsForTier ==
  ASSUME TillAssumption, Shapes, NEW k \in Connections, Sound(k), ~LocksNothing(k),
         NEW s \in tx[k].todo, ~Free(k, s), s.row \notin ChairRows
  PROVE  \E e \in Tiers : s.row = TierRow(e)
  <1>1. CASE tx[k].kind = "start" /\ Starts(k)
    <2> DEFINE o == tx[k].order
    <2>1. s \in Basket(o, Bought(o), tx[k].scan) /\ o \in Orders /\ Counting(o) \notin tx[k].todo /\ locks[OrderRow(o)] \in {Nobody, k}
      BY <1>1 DEF Starts
    <2>2. s # Counting(o) /\ s # Inserting(o)
      BY <2>1, OwnRowSays DEF Free
    <2> QED
      BY <2>1, <2>2, BasketRows DEF TierRows
  <1>2. CASE Looks(k)
    BY <1>2 DEF Looks
  <1>3. CASE Works(k)
    BY <1>3, WorkRows DEF Works, TierRows
  <1> QED
    BY <1>1, <1>2, <1>3 DEF Sound, Working

(* Of those who wait in a circle, one waits for the last of the tiers; who *)
(* holds it waits for a later one.                                         *)
LEMMA InOneOrder ==
  ASSUME TillAssumption, Shapes, \A k \in Connections : Sound(k)
  PROVE  CountersInOneOrder
  <1> SUFFICES ASSUME NEW S \in SUBSET Connections, Circle(S),
                      ~ \E k \in S : tx[k].kind = "sweep" \/ \E s \in Firsts(k) : s.row \in ChairRows
               PROVE  FALSE
    BY DEF CountersInOneOrder
  <1> DEFINE Behind(k, e) == \E s \in tx[k].todo : s.row = TierRow(e) /\ ~Free(k, s) /\ locks[TierRow(e)] \in S
             T == {k \in S : ~LocksNothing(k)}
             g == [k \in T |-> CHOOSE e \in Tiers : Behind(k, e)]
             Waited == {g[k] : k \in T}
  <1>1. ASSUME NEW k \in S
        PROVE  \E s \in tx[k].todo : s \in Firsts(k) /\ ~Free(k, s) /\ locks[s.row] \in S /\ s.row \notin ChairRows
    BY DEF Circle, Firsts
  <1>2. ASSUME NEW k \in S, ~LocksNothing(k)
        PROVE  \E e \in Tiers : Behind(k, e)
    <2>1. PICK s \in tx[k].todo : ~Free(k, s) /\ locks[s.row] \in S /\ s.row \notin ChairRows
      BY <1>1
    <2>2. PICK e \in Tiers : s.row = TierRow(e)
      BY <1>2, <2>1, HolderWaitsForTier
    <2> QED
      BY <2>1, <2>2
  <1>3. ASSUME NEW r \in Rows, locks[r] \in S
        PROVE  ~LocksNothing(locks[r])
    BY DEF LocksNothing
  <1>4. ASSUME NEW k \in T
        PROVE  g[k] \in Tiers /\ Behind(k, g[k])
    BY <1>2
  <1>5. ASSUME NEW k \in T
        PROVE  \E m \in T : g[k] < g[m]
    <2> DEFINE e == g[k]  m == locks[TierRow(e)]  f == g[m]
    <2>1. e \in Tiers /\ m \in S /\ ~LocksNothing(m)
      BY <1>3, <1>4, RowsApart
    <2>2. f \in Tiers /\ Behind(m, f)
      BY <1>4, <2>1, ZenonT(60)
    <2>3. PICK s \in tx[m].todo : s.row = TierRow(f) /\ ~Free(m, s)
      BY <2>2
    <2>4. locks[TierRow(f)] # m /\ locks[TierRow(e)] = m /\ InOrder(m) /\ tx[m].kind # "sweep"
      BY <2>1, <2>3 DEF Free, Sound
    <2> HIDE DEF e, f
    <2>5. e < f
      BY <2>1, <2>2, <2>3, <2>4 DEF InOrder
    <2> QED
      BY <2>1, <2>5 DEF e, f
  <1>6. T # {}
    <2>1. PICK k \in S : TRUE
      BY DEF Circle
    <2>2. PICK s \in tx[k].todo : locks[s.row] \in S
      BY <1>1, <2>1
    <2>3. s.row \in Rows /\ ~LocksNothing(locks[s.row])
      BY <1>3, <2>2, StatementRows DEF Sound
    <2> QED
      BY <2>2, <2>3
  <1>7. IsFiniteSet(Waited) /\ Waited \subseteq Nat /\ Waited # {}
    <2>1. IsFiniteSet(T)
      BY FS_Subset DEF TillAssumption
    <2>2. g \in Surjection(T, Waited)
      <3> HIDE DEF T
      <3> QED
        BY DEF Surjection
    <2>3. Waited \subseteq Nat
      BY <1>4 DEF TillAssumption
    <2> HIDE DEF T, g, Waited
    <2>4. IsFiniteSet(Waited)
      BY <2>1, <2>2, FS_Surjection
    <2> QED
      BY <1>6, <2>3, <2>4 DEF Waited
  <1>8. PICK last \in Waited : \A e \in Waited : e <= last
    <2> HIDE DEF Waited
    <2> QED
      BY <1>7, GreatestOf
  <1>9. PICK k \in T : last = g[k]
    BY <1>8
  <1>10. PICK m \in T : g[k] < g[m]
    BY <1>5
  <1>11. g[m] <= g[k] /\ g[m] \in Nat /\ g[k] \in Nat
    BY <1>7, <1>8, <1>9
  <1> HIDE DEF g
  <1> QED
    BY <1>10, <1>11

-----------------------------------------------------------------------------
(* What others do.                                                         *)
(* What is committed is judged by what is committed alone.                 *)
LEMMA CommittedStays ==
  ASSUME committed' = committed
  PROVE  /\ \A o : Status(o)' = Status(o) /\ Order(o)' = Order(o)
         /\ \A o, lines : Allows(o, lines)' <=> Allows(o, lines)
         /\ \A o, status, r : Has(o, status, r)' <=> Has(o, status, r)
         /\ \A r : Holding(r)' = Holding(r) /\ Owning(r)' = Owning(r)
         /\ CommittedWhole => CommittedWhole'
         /\ WithinHoldLimits => WithinHoldLimits'
  <1>1. \A o : Status(o)' = Status(o) /\ Order(o)' = Order(o)
    BY DEF Status, Order
  <1>2. \A b : OpenOrders(b)' = OpenOrders(b)
    BY DEF OpenOrders, In, Order
  <1>3. \A os, t : Units(os, t)' = Units(os, t)
    BY DEF Units, Order, Places
  <1>4. \A o, status, r : Has(o, status, r)' <=> Has(o, status, r)
    BY <1>1 DEF Has, Concerns
  <1>5. \A r : Holding(r)' = Holding(r) /\ Owning(r)' = Owning(r)
    BY <1>4 DEF Holding, Owning
  <1>6. CommittedWhole => CommittedWhole'
    BY <1>5 DEF CommittedWhole, TierWhole, ChairWhole
  <1>7. \A o, lines : Allows(o, lines)' <=> Allows(o, lines)
    BY DEF Allows, OpenOrders, In, Units, Order
  <1>8. WithinHoldLimits => WithinHoldLimits'
    BY DEF WithinHoldLimits, OpenOrders, In, Units, Order
  <1> QED
    BY <1>1, <1>4, <1>5, <1>6, <1>7, <1>8

(* A transaction that keeps its statements, its locks and the rows behind  *)
(* them sees what it saw.                                                  *)
Undisturbed(j) ==
    /\ tx'[j] = tx[j]
    /\ \A r \in Rows : (locks'[r] = j <=> locks[r] = j) /\ (locks[r] = j => row'[r] = row[r])
    /\ tx[j].kind = "start" =>
          /\ locks'[OrderRow(tx[j].order)] \in {Nobody, j}
          /\ \A i \in Connections \ {j} : ~(tx'[i].kind = "start" /\ tx'[i].order = tx[j].order)

LEMMA ViewStays ==
  ASSUME NEW j \in Connections, Undisturbed(j), committed' = committed, NEW o \in Orders
  PROVE  /\ InHand(j, o)' <=> InHand(j, o)
         /\ \A r : (Held(j, o, r)' <=> Held(j, o, r)) /\ (Owned(j, o, r)' <=> Owned(j, o, r))
  <1>1. InHand(j, o)' <=> InHand(j, o)
    BY CommittedStays, RowsApart DEF Undisturbed, InHand, Stands
  <1>2. \A does, r : Left(j, does, r, o)' <=> Left(j, does, r, o)
    BY DEF Undisturbed, Left
  <1>3. InHand(j, o) /\ tx[j].kind # "start" => Stands(o)' = Stands(o)
    BY RowsApart DEF Undisturbed, InHand, Stands
  <1>4. \A r : (Held(j, o, r)' <=> Held(j, o, r))
    BY <1>1, <1>2, CommittedStays DEF Held, Undisturbed
  <1>5. \A r : (Owned(j, o, r)' <=> Owned(j, o, r))
    BY <1>1, <1>2, <1>3, CommittedStays DEF Owned, Undisturbed
  <1> QED
    BY <1>1, <1>4, <1>5

LEMMA OthersStay ==
  ASSUME TillAssumption, NEW j \in Connections, Sound(j), Undisturbed(j), committed' = committed
  PROVE  Sound(j)'
  <1>1. \A r : HoldingFor(j, r)' = HoldingFor(j, r) /\ OwningFor(j, r)' = OwningFor(j, r)
    BY ViewStays DEF HoldingFor, OwningFor
  <1>2. ViewWhole(j)'
    <2>1. ASSUME NEW t \in Tiers, locks'[TierRow(t)] = j
          PROVE  TierWhole(row'[TierRow(t)], t, HoldingFor(j, TierRow(t))', OwningFor(j, TierRow(t))')
      <3>1. locks[TierRow(t)] = j /\ row'[TierRow(t)] = row[TierRow(t)]
        BY <2>1, RowsApart DEF Undisturbed
      <3> QED
        BY <1>1, <3>1 DEF Sound, ViewWhole
    <2>2. ASSUME NEW c \in Chairs, locks'[ChairRow(c)] = j
          PROVE  ChairWhole(row'[ChairRow(c)], HoldingFor(j, ChairRow(c))', OwningFor(j, ChairRow(c))')
      <3>1. locks[ChairRow(c)] = j /\ row'[ChairRow(c)] = row[ChairRow(c)]
        BY <2>2, RowsApart DEF Undisturbed
      <3> QED
        BY <1>1, <3>1 DEF Sound, ViewWhole
    <2> QED
      BY <2>1, <2>2 DEF ViewWhole, TierWhole, ChairWhole
  <1>3. Untouched(j)'
    <2>1. ASSUME NEW o \in Orders, NEW r \in TierRows \cup ChairRows, locks'[r] # j
          PROVE  (Held(j, o, r)' <=> Has(o, "pending_payment", r)') /\ (Owned(j, o, r)' <=> Has(o, "paid", r)')
      <3>1. locks[r] # j
        BY <2>1 DEF Undisturbed, Rows
      <3> QED
        BY <3>1, ViewStays, CommittedStays DEF Sound, Untouched
    <2> QED
      BY <2>1 DEF Untouched
  <1>4. Once(j)' /\ InOrder(j)'
    <2>1. Once(j)'
      BY DEF Sound, Once, Undisturbed
    <2>2. InOrder(j)'
      BY RowsApart DEF Sound, InOrder, Undisturbed
    <2> QED
      BY <2>1, <2>2
  <1>5. LocksNothing(j) <=> LocksNothing(j)'
    BY DEF LocksNothing, Undisturbed
  <1>6. Starts(j) /\ tx[j].kind = "start" => Starts(j)'
    <2> SUFFICES ASSUME Starts(j), tx[j].kind = "start" PROVE Starts(j)'
      OBVIOUS
    <2> DEFINE o == tx[j].order  todo == tx[j].todo
    <2>1. o \in Orders /\ OrderRow(o) \in Rows /\ BuyerRow(BuyerOf[o]) \in Rows
      BY RowsApart DEF Starts
    <2>2. tx'[j] = tx[j] /\ Status(o)' = "none" /\ (Allows(o, Bought(o))' <=> Allows(o, Bought(o)))
      BY CommittedStays DEF Starts, Undisturbed
    <2>3. locks[OrderRow(o)] = j => Stands(o)' = Stands(o)
      BY <2>1 DEF Undisturbed, Stands
    <2>4. locks'[OrderRow(o)] \in {Nobody, j} /\ \A i \in Connections \ {j} : ~(tx'[i].kind = "start" /\ tx'[i].order = o)
      BY DEF Undisturbed
    <2>5. \A p \in Orders : locks'[OrderRow(p)] = j => p = o
      BY RowsApart DEF Starts, Undisturbed
    <2>6. IF todo = {} THEN locks'[OrderRow(o)] = j /\ Stands(o)' = "pending_payment"
          ELSE Inserting(o) \in todo /\ locks'[OrderRow(o)] # j
      BY <2>1, <2>3 DEF Starts, Undisturbed
    <2>7. IF Counting(o) \in todo THEN LocksNothing(j)'
          ELSE locks'[BuyerRow(BuyerOf[o])] = j /\ Allows(o, Bought(o))'
      BY <1>5, <2>1, <2>2 DEF Starts, Undisturbed
    <2> QED
      BY <2>1, <2>2, <2>4, <2>5, <2>6, <2>7 DEF Starts
  <1>7. Looks(j) => Looks(j)'
    BY <1>5, CommittedStays DEF Looks, Undisturbed
  <1>8. Works(j) /\ tx[j].kind # "start" => Works(j)'
    <2> SUFFICES ASSUME Works(j), tx[j].kind # "start" PROVE Works(j)'
      OBVIOUS
    <2>1. tx'[j] = tx[j]
      BY DEF Undisturbed
    <2>2. ASSUME NEW o \in Orders, locks'[OrderRow(o)] = j PROVE Moving(j, o)'
      <3>1. locks[OrderRow(o)] = j /\ Stands(o)' = Stands(o)
        BY <2>2, RowsApart DEF Undisturbed, Stands
      <3> QED
        BY <2>1, <3>1, CommittedStays DEF Works, Moving
    <2>3. ASSUME NEW s \in tx[j].todo PROVE Statement(j, s)'
      <3>1. Statement(j, s) /\ s.order \in Orders
        BY DEF Works, Statement
      <3>2. InHand(j, s.order)' <=> InHand(j, s.order)
        BY <3>1, ViewStays
      <3> QED
        BY <2>1, <3>1, <3>2, CommittedStays DEF Statement
    <2>4. tx[j].kind = "pay" => TakesFirst(j)'
      <3> SUFFICES ASSUME tx[j].kind = "pay", NEW s \in tx[j].todo
                   PROVE  /\ s.does \in Taking => Left(j, Giving, s.row, s.order)'
                          /\ s.does = "sell" /\ Status(s.order)' # "pending_payment" =>
                                Left(j, {"reserve"}, s.row, s.order)' \/ locks'[s.row] = j
        BY <2>1 DEF TakesFirst
      <3>1. \A does, r, o : Left(j, does, r, o)' <=> Left(j, does, r, o)
        BY <2>1 DEF Left
      <3>2. Statement(j, s) /\ TakesFirst(j)
        BY DEF Works
      <3>3. s.row \in Rows
        BY <3>2, WorkRows
      <3>4. locks[s.row] = j => locks'[s.row] = j
        BY <3>3 DEF Undisturbed
      <3> QED
        BY <3>1, <3>2, <3>4, CommittedStays DEF TakesFirst
    <2> QED
      BY <2>1, <2>2, <2>3, <2>4 DEF Works
  <1>9. Working(j)'
    <2>1. tx'[j] = tx[j]
      BY DEF Undisturbed
    <2> QED
      BY <1>6, <1>7, <1>8, <2>1 DEF Sound, Working
  <1> QED
    BY <1>2, <1>3, <1>4, <1>9 DEF Sound

(* A connection that rests has nothing to answer for.                      *)
LEMMA RestingIsSound ==
  ASSUME NEW k \in Connections, tx'[k] = Resting, \A r \in Rows : locks'[r] # k
  PROVE  Sound(k)'
  <1>1. tx'[k].kind = "idle" /\ tx'[k].todo = {}
    BY DEF Resting
  <1>2. Working(k)' /\ Once(k)' /\ InOrder(k)'
    BY <1>1 DEF Working, Once, InOrder
  <1>3. ViewWhole(k)'
    BY RowsApart DEF ViewWhole
  <1>4. Untouched(k)'
    <2>1. \A o \in Orders : ~InHand(k, o)'
      BY <1>1, RowsApart DEF InHand
    <2> QED
      BY <2>1 DEF Untouched, Held, Owned
  <1> QED
    BY <1>2, <1>3, <1>4 DEF Sound

(* What one connection may do to leave the others undisturbed: it touches  *)
(* only rows that are free or its own, and starts no order another starts. *)
Acts(k) ==
    /\ \A i \in Connections \ {k} : tx'[i] = tx[i]
    /\ \A r \in Rows : IF locks[r] \in {Nobody, k} THEN locks'[r] \in {Nobody, k}
                       ELSE locks'[r] = locks[r] /\ row'[r] = row[r]
    /\ tx'[k].kind = "start" => ~Begun(tx'[k].order) \/ (tx[k].kind = "start" /\ tx'[k].order = tx[k].order)
    /\ \A o \in Orders : locks'[OrderRow(o)] = k /\ locks[OrderRow(o)] # k =>
          Status(o) # "none" \/ (tx[k].kind = "start" /\ tx[k].order = o)

LEMMA StandBy ==
  ASSUME TillAssumption, NEW k \in Connections, Acts(k), NEW j \in Connections \ {k}, Sound(j)
  PROVE  Undisturbed(j)
  <1>1. tx'[j] = tx[j]
    BY DEF Acts
  <1>2. j # Nobody /\ j # k
    BY DEF TillAssumption
  <1>3. ASSUME NEW r \in Rows
        PROVE  (locks'[r] = j <=> locks[r] = j) /\ (locks[r] = j => row'[r] = row[r])
    BY <1>2 DEF Acts
  <1>4. ASSUME tx[j].kind = "start"
        PROVE  /\ locks'[OrderRow(tx[j].order)] \in {Nobody, j}
               /\ \A i \in Connections \ {j} : ~(tx'[i].kind = "start" /\ tx'[i].order = tx[j].order)
    <2> DEFINE o == tx[j].order
    <2>1. /\ o \in Orders /\ Status(o) = "none" /\ locks[OrderRow(o)] \in {Nobody, j}
          /\ \A i \in Connections \ {j} : ~(tx[i].kind = "start" /\ tx[i].order = o)
      BY <1>4 DEF Sound, Working, Starts
    <2>2. OrderRow(o) \in Rows
      BY <2>1, RowsApart
    <2>3. locks'[OrderRow(o)] \in {Nobody, j}
      <3>1. CASE locks[OrderRow(o)] = j
        BY <1>2, <2>2, <3>1 DEF Acts
      <3>2. CASE locks[OrderRow(o)] = Nobody
        <4>1. locks'[OrderRow(o)] # k
          BY <1>2, <2>1, <3>2 DEF Acts, TillAssumption
        <4> QED
          BY <2>2, <3>2, <4>1 DEF Acts
      <3> QED
        BY <2>1, <3>1, <3>2
    <2>4. Begun(o)
      BY <1>4 DEF Begun
    <2>5. ASSUME NEW i \in Connections \ {j}, tx'[i].kind = "start", tx'[i].order = o PROVE FALSE
      <3>1. CASE i = k
        BY <2>1, <2>4, <2>5, <3>1 DEF Acts
      <3>2. CASE i # k
        BY <2>1, <2>5, <3>2 DEF Acts
      <3> QED
        BY <3>1, <3>2
    <2> QED
      BY <2>3, <2>5
  <1> QED
    BY <1>1, <1>3, <1>4 DEF Undisturbed

(* So it is enough to look at the connection that moves.                   *)
LEMMA OneMoves ==
  ASSUME TillAssumption, CommittedWhole, WithinHoldLimits, \A j \in Connections : Sound(j),
         NEW k \in Connections, Acts(k), committed' = committed, Shapes', Sound(k)'
  PROVE  TillInv'
  <1>1. ASSUME NEW j \in Connections \ {k} PROVE Sound(j)'
    BY <1>1, StandBy, OthersStay
  <1>2. CommittedWhole' /\ WithinHoldLimits'
    BY CommittedStays
  <1> QED
    BY <1>1, <1>2 DEF TillInv

LEMMA IdleLocksNothing ==
  ASSUME TillAssumption, Shapes, NEW k \in Connections, Idle(k)
  PROVE  \A r \in Rows : locks[r] # k
  BY DEF Shapes, TillAssumption

(* A row of an order that is not there is nobody's but its checkout's.     *)
LEMMA NobodysOrder ==
  ASSUME TillAssumption, Shapes, \A j \in Connections : Sound(j), NEW o \in Orders, Status(o) = "none", ~Begun(o)
  PROVE  locks[OrderRow(o)] = Nobody
  <1> SUFFICES ASSUME NEW j \in Connections, locks[OrderRow(o)] = j PROVE FALSE
    BY RowsApart DEF Shapes
  <1>1. ~Idle(j) /\ ~LocksNothing(j)
    BY IdleLocksNothing, RowsApart DEF LocksNothing
  <1>2. Sound(j)
    OBVIOUS
  <1>3. CASE tx[j].kind = "start" /\ Starts(j)
    BY <1>3 DEF Starts, Begun
  <1>4. CASE Works(j)
    BY <1>4 DEF Works, Moving
  <1> QED
    BY <1>1, <1>2, <1>3, <1>4 DEF Sound, Working, Looks, Idle

(* A checkout's statements are all different, and take all it concerns.    *)
LEMMA BasketTakes ==
  ASSUME NEW o \in Orders, NEW scan, NEW r, Concerns(o, r)
  PROVE  \E s \in Basket(o, Bought(o), scan) :
            s.does \in Taking /\ s.row = r /\ s.order = o /\ (s.does = "claim" => TierOf[s.row[2]] = s.by)
  <1>1. PICK l \in Bought(o) : r = TierRow(l.tier) \/ \E c \in l.chairs : TierOf[c] = l.tier /\ r = ChairRow(c)
    BY DEF Concerns
  <1>2. CASE r = TierRow(l.tier)
    <2> DEFINE s == Do("reserve", TierRow(l.tier), l.quantity, o, <<1, l.tier, Cardinality(Chairs) + 1>>)
    <2>1. s \in Basket(o, Bought(o), scan)
      BY StatementSets DEF OnTier
    <2>2. s.does = "reserve" /\ s.row = r /\ s.order = o
      BY <1>2, StatementParts
    <2> QED
      BY <2>1, <2>2 DEF Taking
  <1>3. ASSUME NEW c \in l.chairs, TierOf[c] = l.tier, r = ChairRow(c)
        PROVE  \E s \in Basket(o, Bought(o), scan) :
                  s.does \in Taking /\ s.row = r /\ s.order = o /\ (s.does = "claim" => TierOf[s.row[2]] = s.by)
    <2> DEFINE s == Do("claim", ChairRow(c), l.tier, o, <<1, l.tier, scan[c]>>)
    <2>1. s \in Basket(o, Bought(o), scan)
      BY StatementSets DEF Claiming
    <2>2. s.does = "claim" /\ s.row = r /\ s.order = o /\ s.by = TierOf[s.row[2]]
      BY <1>3, StatementParts DEF ChairRow
    <2> QED
      BY <2>1, <2>2 DEF Taking
  <1> QED
    BY <1>1, <1>2, <1>3

LEMMA OnTierOnce ==
  ASSUME TillAssumption, NEW o \in Orders, NEW s, NEW u, NEW does, NEW round,
         OnTier(s, does, o, round), OnTier(u, does, o, round), s.row = u.row
  PROVE  s = u
  <1>1. PICK t \in Tiers : s.row = TierRow(t) /\ s.by = Wants(t)[o] /\ s.turn = <<round, t, Cardinality(Chairs) + 1>>
    BY OnTierSays
  <1>2. PICK e \in Tiers : u.row = TierRow(e) /\ u.by = Wants(e)[o] /\ u.turn = <<round, e, Cardinality(Chairs) + 1>>
    BY OnTierSays
  <1>3. t = e
    BY <1>1, <1>2, RowsApart
  <1>4. WellMade(s) /\ WellMade(u) /\ s.does = u.does /\ s.order = u.order
    BY OnTierSays
  <1> QED
    BY <1>1, <1>2, <1>3, <1>4 DEF WellMade

LEMMA OnChairOnce ==
  ASSUME TillAssumption, NEW o \in Orders, NEW s, NEW u, NEW does, NEW round, NEW scan,
         OnChair(s, does, o, round, scan), OnChair(u, does, o, round, scan), s.row = u.row
  PROVE  s = u
  <1>1. PICK c \in Chairs : s.row = ChairRow(c) /\ s.turn = <<round, 0, scan[c]>>
    BY OnChairSays
  <1>2. PICK d \in Chairs : u.row = ChairRow(d) /\ u.turn = <<round, 0, scan[d]>>
    BY OnChairSays
  <1>3. c = d
    BY <1>1, <1>2, RowsApart
  <1>4. WellMade(s) /\ WellMade(u) /\ s.does = u.does /\ s.order = u.order /\ s.by = u.by
    BY OnChairSays
  <1> QED
    BY <1>1, <1>2, <1>3, <1>4 DEF WellMade

LEMMA ClaimingOnce ==
  ASSUME TillAssumption, NEW o \in Orders, NEW s, NEW u, NEW scan,
         Claiming(s, o, scan), Claiming(u, o, scan), s.row = u.row, s.by = u.by
  PROVE  s = u
  <1>1. PICK c \in Chairs : s.row = ChairRow(c) /\ s.turn = <<1, s.by, scan[c]>>
    BY ClaimingSays
  <1>2. PICK d \in Chairs : u.row = ChairRow(d) /\ u.turn = <<1, u.by, scan[d]>>
    BY ClaimingSays
  <1>3. c = d
    BY <1>1, <1>2, RowsApart
  <1>4. WellMade(s) /\ WellMade(u) /\ s.does = u.does /\ s.order = u.order
    BY ClaimingSays
  <1> QED
    BY <1>1, <1>2, <1>3, <1>4 DEF WellMade

LEMMA BasketOnce ==
  ASSUME TillAssumption, NEW o \in Orders, NEW scan, NEW s \in Basket(o, Bought(o), scan), NEW u \in Basket(o, Bought(o), scan),
         s.does = u.does, s.row = u.row, s.by = u.by, s.order = u.order
  PROVE  s = u
  <1>1. ASSUME NEW v \in {s, u}
        PROVE  \/ v = Counting(o) /\ v.does = "count"
               \/ v = Inserting(o) /\ v.does = "insert"
               \/ Claiming(v, o, scan) /\ v.does = "claim"
               \/ OnTier(v, "reserve", o, 1) /\ v.does = "reserve"
    <2>1. v = Counting(o) \/ v = Inserting(o) \/ Claiming(v, o, scan) \/ OnTier(v, "reserve", o, 1)
      BY StatementSets
    <2>2. OnTier(v, "reserve", o, 1) => v.does = "reserve"
      BY OnTierSays
    <2>3. Claiming(v, o, scan) => v.does = "claim"
      BY ClaimingSays
    <2> QED
      BY <2>1, <2>2, <2>3, OwnRowSays
  <1>2. CASE Claiming(s, o, scan) /\ Claiming(u, o, scan)
    BY <1>2, ClaimingOnce
  <1>3. CASE OnTier(s, "reserve", o, 1) /\ OnTier(u, "reserve", o, 1)
    BY <1>3, OnTierOnce
  <1> QED
    BY <1>1, <1>2, <1>3

(* What a transaction does once it has looked; a sweep has a round for     *)
(* each order.                                                             *)
Doing(s, o, scan, n) ==
    \/ Claiming(s, o, scan) \/ OnTier(s, "reserve", o, 2) \/ OnTier(s, "sell", o, 3) \/ OnChair(s, "commit", o, 4, scan)
    \/ OnTier(s, "release", o, 2 * n) \/ OnChair(s, "free", o, 2 * n + 1, scan)

LEMMA DoingSays ==
  ASSUME TillAssumption, NEW o \in Orders, NEW s, NEW scan, NEW n, Doing(s, o, scan, n)
  PROVE  /\ s.order = o
         /\ \/ Claiming(s, o, scan) /\ s.does = "claim"
            \/ OnTier(s, "reserve", o, 2) /\ s.does = "reserve"
            \/ OnTier(s, "sell", o, 3) /\ s.does = "sell"
            \/ OnChair(s, "commit", o, 4, scan) /\ s.does = "commit"
            \/ OnTier(s, "release", o, 2 * n) /\ s.does = "release"
            \/ OnChair(s, "free", o, 2 * n + 1, scan) /\ s.does = "free"
  <1>1. ASSUME NEW does, NEW round, OnTier(s, does, o, round) PROVE s.does = does /\ s.order = o
    BY <1>1, OnTierSays
  <1>2. ASSUME NEW does, NEW round, OnChair(s, does, o, round, scan) PROVE s.does = does /\ s.order = o
    BY <1>2, OnChairSays
  <1>3. Claiming(s, o, scan) => s.does = "claim" /\ s.order = o
    BY ClaimingSays
  <1> QED
    BY <1>1, <1>2, <1>3 DEF Doing

LEMMA DoingOnce ==
  ASSUME TillAssumption, NEW o \in Orders, NEW s, NEW u, NEW scan, NEW n, Doing(s, o, scan, n), Doing(u, o, scan, n),
         s.does = u.does, s.row = u.row, s.by = u.by
  PROVE  s = u
  <1>1. CASE Claiming(s, o, scan) /\ Claiming(u, o, scan)
    BY <1>1, ClaimingOnce
  <1>2. ASSUME NEW does, NEW round, OnTier(s, does, o, round), OnTier(u, does, o, round) PROVE s = u
    BY <1>2, OnTierOnce
  <1>3. ASSUME NEW does, NEW round, OnChair(s, does, o, round, scan), OnChair(u, does, o, round, scan) PROVE s = u
    BY <1>3, OnChairOnce
  <1> QED
    BY <1>1, <1>2, <1>3, DoingSays

(* What is released, committed or taken late is all the order concerns.    *)
LEMMA EachRow ==
  ASSUME NEW o \in Orders, NEW scan, NEW does, NEW round, NEW alike, NEW turn, NEW r, Concerns(o, r)
  PROVE  \/ \E s : OnTier(s, does, o, round) /\ s.does = does /\ s.row = r /\ s.order = o
         \/ \E s : OnChair(s, alike, o, turn, scan) /\ s.does = alike /\ s.row = r /\ s.order = o
  <1>1. PICK l \in Bought(o) : r = TierRow(l.tier) \/ \E c \in l.chairs : TierOf[c] = l.tier /\ r = ChairRow(c)
    BY DEF Concerns
  <1>2. CASE r = TierRow(l.tier)
    <2> DEFINE s == Do(does, TierRow(l.tier), l.quantity, o, <<round, l.tier, Cardinality(Chairs) + 1>>)
    <2>1. OnTier(s, does, o, round)
      BY DEF OnTier
    <2>2. s.does = does /\ s.row = r /\ s.order = o
      BY <1>2, StatementParts
    <2> HIDE DEF s
    <2> QED
      BY <2>1, <2>2
  <1>3. ASSUME NEW c \in l.chairs, r = ChairRow(c)
        PROVE  \E s : OnChair(s, alike, o, turn, scan) /\ s.does = alike /\ s.row = r /\ s.order = o
    <2> DEFINE s == Do(alike, ChairRow(c), 1, o, <<turn, 0, scan[c]>>)
    <2>1. OnChair(s, alike, o, turn, scan)
      BY DEF OnChair
    <2>2. s.does = alike /\ s.row = r /\ s.order = o
      BY <1>3, StatementParts
    <2> HIDE DEF s
    <2> QED
      BY <2>1, <2>2
  <1> QED
    BY <1>1, <1>2, <1>3

LEMMA AllGiven ==
  ASSUME NEW o \in Orders, NEW scan, NEW n, NEW r, Concerns(o, r)
  PROVE  /\ \E s \in ReleaseAll(o, Bought(o), n, scan) : s.does \in Giving /\ s.row = r /\ s.order = o
         /\ \E s \in CommitAll(o, Bought(o), scan) : s.does \in Giving /\ s.row = r /\ s.order = o
  <1>1. \/ \E s : OnTier(s, "release", o, 2 * n) /\ s.does = "release" /\ s.row = r /\ s.order = o
        \/ \E s : OnChair(s, "free", o, 2 * n + 1, scan) /\ s.does = "free" /\ s.row = r /\ s.order = o
    BY EachRow
  <1>2. \/ \E s : OnTier(s, "sell", o, 3) /\ s.does = "sell" /\ s.row = r /\ s.order = o
        \/ \E s : OnChair(s, "commit", o, 4, scan) /\ s.does = "commit" /\ s.row = r /\ s.order = o
    BY EachRow
  <1>3. \A s : OnTier(s, "release", o, 2 * n) \/ OnChair(s, "free", o, 2 * n + 1, scan) => s \in ReleaseAll(o, Bought(o), n, scan)
    BY StatementSets
  <1>4. \A s : OnTier(s, "sell", o, 3) \/ OnChair(s, "commit", o, 4, scan) => s \in CommitAll(o, Bought(o), scan)
    BY StatementSets
  <1> QED
    BY <1>1, <1>2, <1>3, <1>4 DEF Giving

-----------------------------------------------------------------------------
(* The actions.                                                            *)
LEMMA TillStarts == ASSUME TillAssumption, Init PROVE TillInv
  <1>1. /\ \A o \in Orders : row[OrderRow(o)] = [status |-> "none", lines |-> {}]
        /\ \A t \in Tiers : row[TierRow(t)] = [reserved |-> 0, sold |-> 0]
        /\ \A c \in Chairs : row[ChairRow(c)] = [by |-> Nobody, sold |-> FALSE]
    BY RowsApart, ZenonT(60) DEF Init, BuyerRows, OrderRows, TierRows, ChairRows, Rows, BuyerRow, OrderRow, TierRow, ChairRow
  <1>2. committed = row /\ DOMAIN row = Rows /\ locks = [r \in Rows |-> Nobody] /\ tx = [k \in Connections |-> Resting]
    BY DEF Init
  <1>3. Shapes
    <2>1. RowShapes(row)
      <3>1. ASSUME NEW o \in Orders PROVE OrderShape(row[OrderRow(o)], o)
        <4>1. row[OrderRow(o)].status = "none" /\ row[OrderRow(o)] = [status |-> "none", lines |-> {}]
          BY <1>1
        <4> QED
          BY <4>1 DEF OrderShape, Statuses
      <3>2. \A t \in Tiers : row[TierRow(t)] \in [reserved : Nat, sold : Nat]
        BY <1>1
      <3>3. ASSUME NEW c \in Chairs PROVE row[ChairRow(c)] \in [by : Orders \cup {Nobody}, sold : BOOLEAN]
        <4>1. [by |-> Nobody, sold |-> FALSE] \in [by : Orders \cup {Nobody}, sold : BOOLEAN]
          BY Zenon
        <4>2. row[ChairRow(c)] = [by |-> Nobody, sold |-> FALSE]
          BY <1>1
        <4> QED
          BY <4>1, <4>2, Zenon
      <3> QED
        BY <1>2, <3>1, <3>2, <3>3 DEF RowShapes
    <2> QED
      BY <1>2, <2>1 DEF Shapes, Resting
  <1>4. \A r : Holding(r) = {} /\ Owning(r) = {}
    BY <1>1, <1>2 DEF Holding, Owning, Has, Status
  <1>5. CommittedWhole
    BY <1>1, <1>2, <1>4, TotalNone DEF CommittedWhole, TierWhole, ChairWhole
  <1>6. WithinHoldLimits
    <2>1. \A b : OpenOrders(b) = {}
      BY <1>1, <1>2 DEF OpenOrders, In, Order
    <2>2. \A t : Units({}, t) = 0
      BY TotalNone DEF Units, SumFunction, Total
    <2>3. \A b, t : Units(OpenOrders(b), t) = 0 /\ Cardinality(OpenOrders(b)) = 0
      BY <2>1, <2>2, FS_EmptySet
    <2>4. MaxOrders \in Nat /\ MaxPerTier \in Nat
      BY DEF TillAssumption
    <2> QED
      BY <2>3, <2>4 DEF WithinHoldLimits
  <1>7. ASSUME NEW k \in Connections PROVE Sound(k)
    <2>1. \A r \in Rows : locks[r] # k
      BY <1>2 DEF TillAssumption
    <2>2. tx[k].kind = "idle" /\ tx[k].todo = {}
      BY <1>2 DEF Resting
    <2>3. \A o \in Orders : ~InHand(k, o)
      BY <2>1, <2>2, RowsApart DEF InHand
    <2>4. Working(k) /\ Once(k) /\ InOrder(k)
      BY <2>2 DEF Working, Once, InOrder
    <2>5. ViewWhole(k) /\ Untouched(k)
      BY <2>1, <2>3, RowsApart DEF ViewWhole, Untouched, Held, Owned
    <2> QED
      BY <2>4, <2>5 DEF Sound
  <1> QED
    BY <1>3, <1>5, <1>6, <1>7 DEF TillInv

(* A transaction taken back leaves what is committed.                      *)
LEMMA RollbackStep ==
  ASSUME TillAssumption, TillInv, NEW k \in Connections, Rollback(k)
  PROVE  TillInv'
  <1>1. /\ row' = [r \in Rows |-> IF locks[r] = k THEN committed[r] ELSE row[r]]
        /\ locks' = [r \in Rows |-> IF locks[r] = k THEN Nobody ELSE locks[r]]
        /\ tx' = [tx EXCEPT ![k] = Resting] /\ committed' = committed
    BY DEF Rollback, GivenBack, Ended
  <1>2. tx'[k] = Resting /\ DOMAIN tx' = Connections /\ \A i \in Connections \ {k} : tx'[i] = tx[i]
    BY <1>1 DEF TillInv, Shapes
  <1>3. \A r \in Rows : locks'[r] # k
    BY <1>1 DEF TillAssumption
  <1>4. Shapes'
    <2>1. RowShapes(row')
      <3>1. \A o \in Orders : OrderShape(row'[OrderRow(o)], o)
        BY <1>1, RowsApart DEF TillInv, Shapes, RowShapes
      <3>2. \A t \in Tiers : row'[TierRow(t)] \in [reserved : Nat, sold : Nat]
        BY <1>1, RowsApart DEF TillInv, Shapes, RowShapes
      <3>3. \A c \in Chairs : row'[ChairRow(c)] \in [by : Orders \cup {Nobody}, sold : BOOLEAN]
        BY <1>1, RowsApart DEF TillInv, Shapes, RowShapes
      <3> QED
        BY <1>1, <3>1, <3>2, <3>3 DEF RowShapes
    <2>2. locks' \in [Rows -> Connections \cup {Nobody}]
      BY <1>1 DEF TillInv, Shapes
    <2>3. ASSUME NEW r \in Rows
          PROVE  IF locks'[r] = Nobody THEN row'[r] = committed'[r] ELSE ~(tx'[locks'[r]].kind = "idle")
      BY <1>1, <1>2, <1>3, <2>2 DEF TillInv, Shapes, Idle
    <2>4. \A i \in Connections : tx'[i] = [kind |-> tx'[i].kind, order |-> tx'[i].order, todo |-> tx'[i].todo, scan |-> tx'[i].scan]
      BY <1>2 DEF TillInv, Shapes, Resting
    <2> QED
      BY <1>1, <1>2, <2>1, <2>2, <2>3, <2>4 DEF TillInv, Shapes, RowShapes, OrderShape, Idle
  <1>5. Acts(k)
    BY <1>1, <1>2, <1>3, RowsApart DEF Acts, Resting
  <1>6. Sound(k)'
    BY <1>2, <1>3, RestingIsSound
  <1> QED
    BY <1>1, <1>4, <1>5, <1>6, OneMoves DEF TillInv

(* What begins has locked nothing and changed nothing.                     *)
LEMMA BeginShapes ==
  ASSUME TillAssumption, TillInv, NEW k \in Connections, Idle(k), UNCHANGED <<row, committed, locks>>,
         NEW kind, NEW o, NEW todo, NEW scan, Begin(k, kind, o, todo, scan), kind # "idle"
  PROVE  /\ Shapes'
         /\ tx'[k] = [kind |-> kind, order |-> o, todo |-> todo, scan |-> scan]
         /\ \A i \in Connections \ {k} : tx'[i] = tx[i]
         /\ \A r \in Rows : locks'[r] # k /\ locks[r] # k
  <1>1. /\ tx'[k] = [kind |-> kind, order |-> o, todo |-> todo, scan |-> scan]
        /\ \A i \in Connections \ {k} : tx'[i] = tx[i]
        /\ DOMAIN tx' = Connections
    BY DEF Begin, TillInv, Shapes
  <1>2. \A r \in Rows : locks'[r] # k /\ locks[r] # k
    BY IdleLocksNothing DEF TillInv
  <1>3. \A i \in Connections : tx'[i] = [kind |-> tx'[i].kind, order |-> tx'[i].order, todo |-> tx'[i].todo, scan |-> tx'[i].scan]
    BY <1>1 DEF TillInv, Shapes
  <1>4. \A r \in Rows : IF locks'[r] = Nobody THEN row'[r] = committed'[r] ELSE ~(tx'[locks'[r]].kind = "idle")
    BY <1>1, <1>2 DEF TillInv, Shapes, Idle
  <1>5. Shapes'
    BY <1>1, <1>3, <1>4 DEF TillInv, Shapes, RowShapes, OrderShape, Idle
  <1> QED
    BY <1>1, <1>2, <1>5

LEMMA StartStep ==
  ASSUME TillAssumption, TillInv, NEW k \in Connections, Start(k)
  PROVE  TillInv'
  <1>1. PICK o \in Orders, scan \in Scans :
           /\ Idle(k) /\ Order(o).status = "none" /\ ~Begun(o)
           /\ Begin(k, "start", o, Basket(o, NormalizeItems(Sent[o]), scan), scan)
           /\ UNCHANGED <<row, committed, locks>>
    BY DEF Start
  <1> DEFINE todo == Basket(o, Bought(o), scan)
  <1>2. Begin(k, "start", o, todo, scan)
    BY <1>1 DEF Bought
  <1>3. /\ Shapes'
        /\ tx'[k] = [kind |-> "start", order |-> o, todo |-> todo, scan |-> scan]
        /\ \A i \in Connections \ {k} : tx'[i] = tx[i]
        /\ \A r \in Rows : locks'[r] # k /\ locks[r] # k
    <2> HIDE DEF todo
    <2> QED
      BY <1>1, <1>2, BeginShapes
  <1>4. Status(o) = "none" /\ committed' = committed /\ Status(o)' = "none"
    BY <1>1, CommittedStays DEF Status, Order
  <1>5. tx'[k].kind = "start" /\ tx'[k].order = o /\ tx'[k].todo = todo /\ tx'[k].scan = scan
    <2> HIDE DEF todo
    <2> QED
      BY <1>3
  <1> HIDE DEF todo
  <1>6. Acts(k)
    BY <1>1, <1>3, <1>5, RowsApart DEF Acts
  <1>7. Starts(k)'
    <2>1. Counting(o) \in todo /\ Inserting(o) \in todo /\ todo # {}
      BY StatementSets DEF todo
    <2>2. locks'[OrderRow(o)] = Nobody
      BY <1>1, <1>4, NobodysOrder DEF TillInv
    <2>3. \A j \in Connections \ {k} : ~(tx'[j].kind = "start" /\ tx'[j].order = o)
      BY <1>1, <1>3 DEF Begun
    <2>4. ASSUME NEW l \in Bought(o), NEW c \in l.chairs
          PROVE  Do("claim", ChairRow(c), l.tier, o, <<1, l.tier, scan[c]>>) \in todo
      BY StatementSets DEF Claiming, todo
    <2>5. LocksNothing(k)'
      BY <1>3 DEF LocksNothing
    <2>6. \A p \in Orders : locks'[OrderRow(p)] # k
      BY <1>3, RowsApart
    <2> QED
      BY <1>4, <1>5, <2>1, <2>2, <2>3, <2>4, <2>5, <2>6 DEF Starts, todo
  <1>8. Once(k)'
    BY <1>5, BasketOnce DEF Once, todo
  <1>9. ViewWhole(k)' /\ InOrder(k)'
    BY <1>3, RowsApart DEF ViewWhole, InOrder
  <1>10. Untouched(k)'
    <2>1. ASSUME NEW p \in Orders, NEW r, p # o
          PROVE  (Held(k, p, r)' <=> Has(p, "pending_payment", r)') /\ (Owned(k, p, r)' <=> Has(p, "paid", r)')
      BY <1>5, <2>1 DEF Held, Owned, InHand
    <2>2. ASSUME NEW r
          PROVE  (Held(k, o, r)' <=> Has(o, "pending_payment", r)') /\ (Owned(k, o, r)' <=> Has(o, "paid", r)')
      <3>1. ~Has(o, "pending_payment", r)' /\ ~Has(o, "paid", r)'
        BY <1>4 DEF Has
      <3>2. InHand(k, o)'
        BY <1>5 DEF InHand
      <3>3. ~Owned(k, o, r)'
        BY <1>5, <3>2 DEF Owned
      <3>4. Concerns(o, r) => Left(k, Taking, r, o)'
        BY <1>5, BasketTakes DEF Left, todo
      <3>5. ~Held(k, o, r)'
        BY <3>2, <3>4 DEF Held
      <3> QED
        BY <3>1, <3>3, <3>5
    <2> QED
      BY <2>1, <2>2 DEF Untouched
  <1>11. Sound(k)'
    BY <1>5, <1>7, <1>8, <1>9, <1>10 DEF Sound, Working
  <1> QED
    BY <1>3, <1>4, <1>6, <1>11, OneMoves DEF TillInv

LEMMA ApproachStep ==
  ASSUME TillAssumption, TillInv, NEW k \in Connections, NEW kind \in {"expire", "cancel", "pay"}, Approach(k, kind)
  PROVE  TillInv'
  <1>1. PICK o \in Orders, scan \in Scans :
           /\ Idle(k) /\ Order(o).status # "none"
           /\ Begin(k, kind, o, {Looking(o)}, scan)
           /\ UNCHANGED <<row, committed, locks>>
    BY DEF Approach
  <1>2. /\ Shapes'
        /\ tx'[k] = [kind |-> kind, order |-> o, todo |-> {Looking(o)}, scan |-> scan]
        /\ \A i \in Connections \ {k} : tx'[i] = tx[i]
        /\ \A r \in Rows : locks'[r] # k /\ locks[r] # k
    BY <1>1, BeginShapes
  <1>3. tx'[k].kind = kind /\ tx'[k].order = o /\ tx'[k].todo = {Looking(o)}
    BY <1>2
  <1>4. Acts(k)
    BY <1>1, <1>2, <1>3, RowsApart DEF Acts
  <1>5. Looks(k)'
    BY <1>1, <1>2, <1>3, CommittedStays DEF Looks, LocksNothing, Status, Order
  <1>6. Once(k)' /\ ViewWhole(k)' /\ InOrder(k)'
    BY <1>2, <1>3, RowsApart DEF Once, ViewWhole, InOrder
  <1>7. Untouched(k)'
    <2>1. \A p \in Orders : ~InHand(k, p)'
      BY <1>2, <1>3, RowsApart DEF InHand
    <2> QED
      BY <2>1 DEF Untouched, Held, Owned
  <1>8. Sound(k)'
    BY <1>3, <1>5, <1>6, <1>7 DEF Sound, Working
  <1> QED
    BY <1>1, <1>2, <1>4, <1>8, OneMoves DEF TillInv

(* An order that is there has its columns, and may change its status.      *)
LEMMA StatusMoves ==
  ASSUME NEW o, NEW v, OrderShape(v, o), v.status # "none", NEW next \in Statuses \ {"none"},
         NEW w, w = [v EXCEPT !.status = next] \/ w = [status |-> next, lines |-> v.lines]
  PROVE  OrderShape(w, o) /\ w.status = next /\ w.lines = Bought(o) /\ v.lines = Bought(o) /\ Proper(o)
  <1> DEFINE u == [status |-> v.status, lines |-> Bought(o)]
  <1>1. v = u
    BY DEF OrderShape
  <1>2. u.lines = Bought(o) /\ u.status = v.status
    OBVIOUS
  <1> HIDE DEF u
  <1>3. v.lines = Bought(o)
    BY <1>1, <1>2
  <1>4. w = [status |-> next, lines |-> Bought(o)]
    BY <1>1, <1>3 DEF u
  <1>5. Proper(o)
    BY DEF OrderShape
  <1>6. OrderShape([status |-> next, lines |-> Bought(o)], o)
    BY <1>5 DEF OrderShape
  <1> QED
    BY <1>3, <1>4, <1>5, <1>6

(* The rows a sweep has flipped.                                           *)
Flipped(lapsed) == {OrderRow(o) : o \in lapsed}

LEMMA ExpireHoldsStep ==
  ASSUME TillAssumption, TillInv, NEW k \in Connections, ExpireHolds(k)
  PROVE  TillInv'
  <1>1. PICK lapsed \in SUBSET ClaimExpired, scan \in Scans :
           /\ Idle(k) /\ lapsed # {} /\ committed' = committed
           /\ row' = [r \in Rows |-> IF r \in Flipped(lapsed) THEN [row[r] EXCEPT !.status = "expired"] ELSE row[r]]
           /\ locks' = [r \in Rows |-> IF r \in Flipped(lapsed) THEN k ELSE locks[r]]
           /\ \E nth \in Injection(lapsed, 1..Cardinality(lapsed)) :
                 Begin(k, "sweep", Nobody, UNION {ReleaseAll(o, Order(o).lines, nth[o], scan) : o \in lapsed}, scan)
    BY DEF ExpireHolds, Flipped
  <1>2. PICK nth \in Injection(lapsed, 1..Cardinality(lapsed)) :
           Begin(k, "sweep", Nobody, UNION {ReleaseAll(o, Order(o).lines, nth[o], scan) : o \in lapsed}, scan)
    BY <1>1
  <1> DEFINE todo == UNION {ReleaseAll(o, Order(o).lines, nth[o], scan) : o \in lapsed}
  <1>3. /\ tx'[k] = [kind |-> "sweep", order |-> Nobody, todo |-> todo, scan |-> scan]
        /\ \A i \in Connections \ {k} : tx'[i] = tx[i]
        /\ DOMAIN tx' = Connections
    BY <1>2 DEF Begin, TillInv, Shapes
  <1>4. ASSUME NEW o \in lapsed
        PROVE  /\ o \in Orders /\ Status(o) = "pending_payment" /\ Order(o).lines = Bought(o) /\ Proper(o)
               /\ locks[OrderRow(o)] = Nobody /\ row[OrderRow(o)] = committed[OrderRow(o)]
               /\ nth[o] \in Nat
    <2>1. o \in Orders /\ Status(o) = "pending_payment" /\ locks[OrderRow(o)] = Nobody
      BY <1>1 DEF ClaimExpired, In, Status, Order
    <2>2. Order(o).lines = Bought(o) /\ Proper(o)
      BY <2>1, OrderThere DEF TillInv
    <2>3. row[OrderRow(o)] = committed[OrderRow(o)]
      BY <2>1, RowsApart DEF TillInv, Shapes
    <2>4. nth[o] \in 1..Cardinality(lapsed)
      BY <1>2 DEF Injection
    <2> QED
      BY <2>1, <2>2, <2>3, <2>4
  <1>5. ASSUME NEW s
        PROVE  s \in todo <=> \E o \in lapsed : s \in ReleaseAll(o, Bought(o), nth[o], scan)
    BY <1>4
  <1>6. tx'[k].kind = "sweep" /\ tx'[k].todo = todo /\ tx'[k].scan = scan /\ Idle(k) /\ \A r \in Rows : locks[r] # k
    <2>1. \A r \in Rows : locks[r] # k
      BY <1>1, IdleLocksNothing DEF TillInv
    <2> HIDE DEF todo
    <2> QED
      BY <1>1, <1>3, <2>1
  <1> HIDE DEF todo
  <1>7. ASSUME NEW r \in Rows
        PROVE  IF r \in Flipped(lapsed) THEN locks'[r] = k /\ locks[r] = Nobody
               ELSE locks'[r] = locks[r] /\ locks'[r] # k /\ row'[r] = row[r]
    BY <1>1, <1>4, <1>6 DEF Flipped
  <1>8. \A o \in Orders : OrderRow(o) \in Flipped(lapsed) <=> o \in lapsed
    BY RowsApart DEF Flipped
  <1>9. \A r \in TierRows \cup ChairRows : locks'[r] # k /\ row'[r] = row[r] /\ r \in Rows
    <2>1. \A r \in TierRows \cup ChairRows : r \in Rows /\ r \notin Flipped(lapsed)
      BY RowsApart DEF Flipped, TierRows, ChairRows
    <2> QED
      BY <1>7, <2>1
  <1>10. ASSUME NEW o \in lapsed
         PROVE  OrderShape(row'[OrderRow(o)], o) /\ Stands(o)' = "expired" /\ Status(o)' = "pending_payment"
    <2>1. OrderShape(row[OrderRow(o)], o) /\ row[OrderRow(o)].status # "none"
      BY <1>4 DEF TillInv, Shapes, RowShapes, Status
    <2>2. row'[OrderRow(o)] = [row[OrderRow(o)] EXCEPT !.status = "expired"]
      BY <1>1, <1>4, <1>8, RowsApart
    <2>3. "expired" \in Statuses \ {"none"}
      BY DEF Statuses
    <2>4. OrderShape(row'[OrderRow(o)], o) /\ row'[OrderRow(o)].status = "expired"
      <3> DEFINE v == row[OrderRow(o)]  w == row'[OrderRow(o)]  next == "expired"
      <3>1. OrderShape(v, o) /\ v.status # "none" /\ next \in Statuses \ {"none"} /\ w = [v EXCEPT !.status = next]
        BY <2>1, <2>2, <2>3
      <3> HIDE DEF v, w, next
      <3>2. OrderShape(w, o) /\ w.status = next
        BY <3>1, StatusMoves
      <3> QED
        BY <3>2 DEF w, next
    <2> QED
      BY <1>1, <1>4, <2>4, CommittedStays DEF Stands
  <1>11. Shapes'
    <2>1. RowShapes(row')
      <3>1. \A o \in Orders : OrderShape(row'[OrderRow(o)], o)
        BY <1>7, <1>8, <1>10, RowsApart DEF TillInv, Shapes, RowShapes
      <3>2. \A t \in Tiers : row'[TierRow(t)] \in [reserved : Nat, sold : Nat]
        BY <1>9, RowsApart DEF TillInv, Shapes, RowShapes
      <3>3. \A c \in Chairs : row'[ChairRow(c)] \in [by : Orders \cup {Nobody}, sold : BOOLEAN]
        BY <1>9, RowsApart DEF TillInv, Shapes, RowShapes
      <3> QED
        BY <1>1, <3>1, <3>2, <3>3 DEF RowShapes
    <2>2. locks' \in [Rows -> Connections \cup {Nobody}]
      BY <1>1 DEF TillInv, Shapes
    <2>3. ASSUME NEW r \in Rows
          PROVE  IF locks'[r] = Nobody THEN row'[r] = committed'[r] ELSE ~(tx'[locks'[r]].kind = "idle")
      <3>1. CASE r \in Flipped(lapsed)
        BY <1>6, <1>7, <3>1 DEF TillAssumption
      <3>2. CASE r \notin Flipped(lapsed)
        BY <1>1, <1>3, <1>7, <2>2, <3>2 DEF TillInv, Shapes, Idle
      <3> QED
        BY <3>1, <3>2
    <2>4. \A i \in Connections : tx'[i] = [kind |-> tx'[i].kind, order |-> tx'[i].order, todo |-> tx'[i].todo, scan |-> tx'[i].scan]
      BY <1>3 DEF TillInv, Shapes
    <2> QED
      BY <1>1, <1>3, <2>1, <2>2, <2>3, <2>4 DEF TillInv, Shapes, RowShapes, OrderShape, Idle
  <1>12. Acts(k)
    <2>1. \A o \in Orders : locks'[OrderRow(o)] = k => Status(o) # "none"
      BY <1>4, <1>7, <1>8, RowsApart
    <2> QED
      BY <1>3, <1>6, <1>7, <2>1 DEF Acts
  <1>13. ASSUME NEW o \in Orders
         PROVE  InHand(k, o)' <=> o \in lapsed
    BY <1>6, <1>7, <1>8, <1>10, RowsApart DEF InHand
  <1>14. Works(k)'
    <2>1. ASSUME NEW o \in Orders, locks'[OrderRow(o)] = k PROVE Moving(k, o)'
      <3>1. o \in lapsed
        BY <1>7, <1>8, <2>1, RowsApart
      <3> QED
        BY <1>6, <1>10, <3>1 DEF Moving
    <2>2. ASSUME NEW s \in todo PROVE Statement(k, s)'
      <3>1. PICK o \in lapsed : s \in ReleaseAll(o, Bought(o), nth[o], scan)
        BY <1>5
      <3>2. Doing(s, o, scan, nth[o])
        BY <3>1, StatementSets DEF Doing
      <3>3. s.order = o /\ o \in Orders /\ nth[o] \in Nat
        BY <1>4, <3>2, DoingSays
      <3> QED
        BY <1>6, <1>13, <3>1, <3>3 DEF Statement
    <2> QED
      BY <1>6, <2>1, <2>2 DEF Works
  <1>15. Once(k)'
    <2> SUFFICES ASSUME NEW s \in todo, NEW u \in todo, s.does = u.does, s.row = u.row, s.order = u.order, s.by = u.by
                 PROVE  s = u
      BY <1>6 DEF Once
    <2>1. PICK o \in lapsed : s \in ReleaseAll(o, Bought(o), nth[o], scan)
      BY <1>5
    <2>2. PICK p \in lapsed : u \in ReleaseAll(p, Bought(p), nth[p], scan)
      BY <1>5
    <2>3. Doing(s, o, scan, nth[o]) /\ Doing(u, p, scan, nth[p]) /\ o \in Orders /\ p \in Orders
      BY <1>4, <2>1, <2>2, StatementSets DEF Doing
    <2>4. s.order = o /\ u.order = p
      BY <2>3, DoingSays
    <2> QED
      BY <2>3, <2>4, DoingOnce
  <1>16. ViewWhole(k)' /\ InOrder(k)'
    BY <1>6, <1>9, RowsApart DEF ViewWhole, InOrder
  <1>17. Untouched(k)'
    <2>1. ASSUME NEW o \in Orders \ lapsed, NEW r
          PROVE  (Held(k, o, r)' <=> Has(o, "pending_payment", r)') /\ (Owned(k, o, r)' <=> Has(o, "paid", r)')
      BY <1>13 DEF Held, Owned
    <2>2. ASSUME NEW o \in lapsed, NEW r
          PROVE  (Held(k, o, r)' <=> Has(o, "pending_payment", r)') /\ (Owned(k, o, r)' <=> Has(o, "paid", r)')
      <3>1. o \in Orders /\ InHand(k, o)' /\ Stands(o)' = "expired" /\ Status(o)' = "pending_payment"
        BY <1>4, <1>10, <1>13
      <3>2. ~Owned(k, o, r)' /\ ~Has(o, "paid", r)' /\ (Has(o, "pending_payment", r)' <=> Concerns(o, r))
        BY <3>1 DEF Owned, Has
      <3>3. ~Left(k, Taking, r, o)'
        <4> SUFFICES ASSUME NEW s \in todo, s.does \in Taking PROVE FALSE
          BY <1>6 DEF Left
        <4>1. PICK p \in lapsed : s \in ReleaseAll(p, Bought(p), nth[p], scan)
          BY <1>5
        <4>2. OnTier(s, "release", p, 2 * nth[p]) \/ OnChair(s, "free", p, 2 * nth[p] + 1, scan)
          BY <4>1, StatementSets
        <4>3. s.does \in {"release", "free"}
          BY <1>4, <4>2, OnTierSays, OnChairSays
        <4> QED
          BY <4>3 DEF Taking
      <3>4. Concerns(o, r) => Left(k, Giving, r, o)'
        <4> SUFFICES ASSUME Concerns(o, r) PROVE Left(k, Giving, r, o)'
          OBVIOUS
        <4>1. PICK s \in ReleaseAll(o, Bought(o), nth[o], scan) : s.does \in Giving /\ s.row = r /\ s.order = o
          BY <3>1, AllGiven
        <4>2. s \in todo
          BY <1>5, <4>1
        <4>3. s.does # "claim"
          BY <4>1 DEF Giving
        <4> QED
          BY <1>6, <4>1, <4>2, <4>3 DEF Left
      <3>5. Held(k, o, r)' <=> Concerns(o, r)
        BY <1>6, <3>1, <3>3, <3>4 DEF Held
      <3> QED
        BY <3>2, <3>5
    <2> QED
      BY <2>1, <2>2 DEF Untouched
  <1>18. Sound(k)'
    BY <1>6, <1>14, <1>15, <1>16, <1>17 DEF Sound, Working
  <1> QED
    BY <1>1, <1>11, <1>12, <1>18, OneMoves DEF TillInv

(* A row is written and locked, and nothing else changes.                  *)
LEMMA TakeSays ==
  ASSUME TillAssumption, TillInv, NEW k \in Connections, ~Idle(k), NEW r \in Rows, locks[r] \in {Nobody, k},
         NEW v, NEW todo, Take(k, r, v, todo)
  PROVE  /\ committed' = committed /\ row'[r] = v /\ locks'[r] = k /\ DOMAIN row' = Rows
         /\ \A x \in Rows \ {r} : row'[x] = row[x] /\ locks'[x] = locks[x]
         /\ tx'[k].kind = tx[k].kind /\ tx'[k].order = tx[k].order /\ tx'[k].scan = tx[k].scan /\ tx'[k].todo = todo
         /\ \A i \in Connections \ {k} : tx'[i] = tx[i]
         /\ RowShapes(row') => Shapes'
  <1>1. DOMAIN row = Rows /\ locks \in [Rows -> Connections \cup {Nobody}] /\ DOMAIN tx = Connections
    BY DEF TillInv, Shapes, RowShapes
  <1>2. row' = [row EXCEPT ![r] = v] /\ locks' = [locks EXCEPT ![r] = k] /\ tx' = [tx EXCEPT ![k].todo = todo] /\ committed' = committed
    BY DEF Take
  <1>3. /\ committed' = committed /\ row'[r] = v /\ locks'[r] = k /\ DOMAIN row' = Rows
        /\ \A x \in Rows \ {r} : row'[x] = row[x] /\ locks'[x] = locks[x]
        /\ locks' \in [Rows -> Connections \cup {Nobody}]
    BY <1>1, <1>2
  <1>4. tx[k] = [kind |-> tx[k].kind, order |-> tx[k].order, todo |-> tx[k].todo, scan |-> tx[k].scan]
    BY DEF TillInv, Shapes
  <1>5. tx'[k] = [kind |-> tx[k].kind, order |-> tx[k].order, todo |-> todo, scan |-> tx[k].scan] /\ DOMAIN tx' = Connections
    BY <1>1, <1>2, <1>4
  <1>6. tx'[k].kind = tx[k].kind /\ tx'[k].order = tx[k].order /\ tx'[k].scan = tx[k].scan /\ tx'[k].todo = todo
    BY <1>5
  <1>7. \A i \in Connections \ {k} : tx'[i] = tx[i]
    BY <1>1, <1>2
  <1>8. ASSUME RowShapes(row') PROVE Shapes'
    <2>1. ASSUME NEW x \in Rows
          PROVE  IF locks'[x] = Nobody THEN row'[x] = committed'[x] ELSE ~(tx'[locks'[x]].kind = "idle")
      <3>1. CASE x = r
        BY <1>3, <1>6, <3>1 DEF Idle, TillAssumption
      <3>2. CASE x # r
        <4>1. row'[x] = row[x] /\ locks'[x] = locks[x] /\ locks[x] \in Connections \cup {Nobody}
          BY <1>1, <1>3, <3>2
        <4>2. IF locks[x] = Nobody THEN row[x] = committed[x] ELSE ~(tx[locks[x]].kind = "idle")
          BY DEF TillInv, Shapes, Idle
        <4> QED
          BY <1>3, <1>6, <1>7, <4>1, <4>2
      <3> QED
        BY <3>1, <3>2
    <2>2. \A i \in Connections : tx'[i] = [kind |-> tx'[i].kind, order |-> tx'[i].order, todo |-> tx'[i].todo, scan |-> tx'[i].scan]
      BY <1>5, <1>6, <1>7 DEF TillInv, Shapes
    <2>3. RowShapes(committed')
      BY <1>3 DEF TillInv, Shapes
    <2> QED
      BY <1>3, <1>5, <1>8, <2>1, <2>2, <2>3 DEF Shapes, RowShapes, OrderShape, Idle
  <1> QED
    BY <1>3, <1>6, <1>7, <1>8

(* Who looks at an order holds it alone from then on.                      *)
LEMMA LookTakes ==
  ASSUME TillAssumption, TillInv, NEW k \in Connections, tx[k].kind \in {"expire", "cancel", "pay"}, Looks(k),
         NEW o, o = tx[k].order, locks[OrderRow(o)] \in {Nobody, k}, NEW next \in Statuses \ {"none"}, NEW todo,
         NEW v, v = [status |-> next, lines |-> row[OrderRow(o)].lines], Take(k, OrderRow(o), v, todo)
  PROVE  /\ o \in Orders /\ row[OrderRow(o)].lines = Bought(o) /\ Proper(o)
         /\ Status(o) = row[OrderRow(o)].status /\ Status(o) # "none"
         /\ tx'[k].kind = tx[k].kind /\ tx'[k].order = o /\ tx'[k].scan = tx[k].scan /\ tx'[k].todo = todo
         /\ committed' = committed /\ Stands(o)' = next /\ Status(o)' = Status(o)
         /\ locks'[OrderRow(o)] = k /\ \A r \in Rows \ {OrderRow(o)} : locks'[r] # k
         /\ Shapes' /\ Acts(k) /\ ViewWhole(k)' /\ InOrder(k)'
  <1>1. o \in Orders /\ Status(o) # "none" /\ \A r \in Rows : locks[r] # k
    BY DEF Looks, LocksNothing
  <1>2. OrderRow(o) \in Rows /\ locks[OrderRow(o)] = Nobody
    BY <1>1, RowsApart
  <1>3. row[OrderRow(o)] = committed[OrderRow(o)]
    BY <1>2 DEF TillInv, Shapes
  <1>4. OrderShape(row[OrderRow(o)], o) /\ row[OrderRow(o)].status = Status(o)
    BY <1>1, <1>3 DEF TillInv, Shapes, RowShapes, Status
  <1>5. ~Idle(k)
    BY DEF Idle
  <1> DEFINE r == OrderRow(o)
  <1>6. OrderShape(v, o) /\ v.status = next /\ row[r].lines = Bought(o) /\ Proper(o)
    <2> DEFINE old == row[OrderRow(o)]
    <2>1. OrderShape(old, o) /\ old.status # "none" /\ v = [status |-> next, lines |-> old.lines]
      BY <1>1, <1>4
    <2> HIDE DEF old
    <2>2. OrderShape(v, o) /\ v.status = next /\ old.lines = Bought(o) /\ Proper(o)
      BY <2>1, StatusMoves
    <2> QED
      BY <2>2 DEF old
  <1>7. Take(k, r, v, todo)
    OBVIOUS
  <1>8. /\ committed' = committed /\ row'[r] = v /\ locks'[r] = k /\ DOMAIN row' = Rows
        /\ \A x \in Rows \ {r} : row'[x] = row[x] /\ locks'[x] = locks[x]
        /\ tx'[k].kind = tx[k].kind /\ tx'[k].order = tx[k].order /\ tx'[k].scan = tx[k].scan /\ tx'[k].todo = todo
        /\ \A i \in Connections \ {k} : tx'[i] = tx[i]
        /\ RowShapes(row') => Shapes'
    BY <1>2, <1>5, <1>7, TakeSays
  <1>9. RowShapes(row')
    <2>1. \A p \in Orders : OrderShape(row'[OrderRow(p)], p)
      BY <1>6, <1>8, RowsApart DEF TillInv, Shapes, RowShapes
    <2>2. \A t \in Tiers : row'[TierRow(t)] \in [reserved : Nat, sold : Nat]
      BY <1>8, RowsApart DEF TillInv, Shapes, RowShapes
    <2>3. \A c \in Chairs : row'[ChairRow(c)] \in [by : Orders \cup {Nobody}, sold : BOOLEAN]
      BY <1>8, RowsApart DEF TillInv, Shapes, RowShapes
    <2> QED
      BY <1>8, <2>1, <2>2, <2>3 DEF RowShapes
  <1>10. Stands(o)' = next /\ Status(o)' = Status(o)
    BY <1>6, <1>8, CommittedStays DEF Stands
  <1>11. \A x \in Rows \ {r} : locks'[x] # k
    BY <1>1, <1>8
  <1>12. Acts(k)
    <2>1. \A x \in Rows : IF locks[x] \in {Nobody, k} THEN locks'[x] \in {Nobody, k}
                          ELSE locks'[x] = locks[x] /\ row'[x] = row[x]
      BY <1>2, <1>8
    <2>2. \A p \in Orders : locks'[OrderRow(p)] = k => p = o
      BY <1>11, RowsApart
    <2> QED
      BY <1>1, <1>8, <2>1, <2>2 DEF Acts
  <1>13. ViewWhole(k)' /\ InOrder(k)'
    <2>1. \A t \in Tiers : locks'[TierRow(t)] # k
      BY <1>11, RowsApart
    <2>2. \A c \in Chairs : locks'[ChairRow(c)] # k
      BY <1>11, RowsApart
    <2> QED
      BY <2>1, <2>2 DEF ViewWhole, InOrder
  <1> QED
    BY <1>1, <1>4, <1>6, <1>8, <1>9, <1>10, <1>11, <1>12, <1>13

(* What it then has to do leaves it sound.                                 *)
LEMMA LookLeaves ==
  ASSUME TillAssumption, NEW k \in Connections, NEW o \in Orders, NEW scan, NEW todo,
         tx'[k].kind \in {"expire", "cancel", "pay"}, tx'[k].order = o, tx'[k].scan = scan, tx'[k].todo = todo,
         locks'[OrderRow(o)] = k, \A r \in Rows \ {OrderRow(o)} : locks'[r] # k,
         ViewWhole(k)', InOrder(k)', Moving(k, o)', \A s \in todo : Statement(k, s)' /\ Doing(s, o, scan, 1),
         tx'[k].kind = "pay" => TakesFirst(k)',
         \A r : (Held(k, o, r)' <=> Has(o, "pending_payment", r)') /\ (Owned(k, o, r)' <=> Has(o, "paid", r)')
  PROVE  Sound(k)'
  <1>1. \A p \in Orders : locks'[OrderRow(p)] = k => p = o
    BY RowsApart
  <1>2. Works(k)'
    BY <1>1 DEF Works
  <1>3. Once(k)'
    BY DoingOnce DEF Once
  <1>4. Untouched(k)'
    <2>1. ASSUME NEW p \in Orders, p # o, NEW r
          PROVE  (Held(k, p, r)' <=> Has(p, "pending_payment", r)') /\ (Owned(k, p, r)' <=> Has(p, "paid", r)')
      BY <1>1, <2>1 DEF Held, Owned, InHand
    <2> QED
      BY <2>1 DEF Untouched
  <1> QED
    BY <1>2, <1>3, <1>4 DEF Sound, Working

(* What a late payment takes.                                              *)
LEMMA AllTaken ==
  ASSUME TillAssumption, NEW o \in Orders, NEW scan, NEW r, Concerns(o, r)
  PROVE  \E s \in ReserveAll(o, Bought(o), scan) :
            s.does \in Taking /\ s.row = r /\ s.order = o /\ (s.does = "claim" => TierOf[s.row[2]] = s.by)
  <1>1. PICK l \in Bought(o) : r = TierRow(l.tier) \/ \E c \in l.chairs : TierOf[c] = l.tier /\ r = ChairRow(c)
    BY DEF Concerns
  <1>2. CASE r = TierRow(l.tier)
    <2> DEFINE s == Do("reserve", TierRow(l.tier), l.quantity, o, <<2, l.tier, Cardinality(Chairs) + 1>>)
    <2>1. s \in ReserveAll(o, Bought(o), scan)
      BY StatementSets DEF OnTier
    <2>2. s.does = "reserve" /\ s.row = r /\ s.order = o
      BY <1>2, StatementParts
    <2> QED
      BY <2>1, <2>2 DEF Taking
  <1>3. ASSUME NEW c \in l.chairs, TierOf[c] = l.tier, r = ChairRow(c)
        PROVE  \E s \in ReserveAll(o, Bought(o), scan) :
                  s.does \in Taking /\ s.row = r /\ s.order = o /\ (s.does = "claim" => TierOf[s.row[2]] = s.by)
    <2> DEFINE s == Do("claim", ChairRow(c), l.tier, o, <<1, l.tier, scan[c]>>)
    <2>1. s \in ReserveAll(o, Bought(o), scan)
      BY StatementSets DEF Claiming
    <2>2. s.does = "claim" /\ s.row = r /\ s.order = o /\ s.by = TierOf[s.row[2]]
      BY <1>3, StatementParts DEF ChairRow
    <2> QED
      BY <2>1, <2>2 DEF Taking
  <1> QED
    BY <1>1, <1>2, <1>3

(* A statement of an order names a row that concerns it.                   *)
LEMMA DoingConcerns ==
  ASSUME TillAssumption, NEW o \in Orders, Proper(o), NEW s, NEW scan, NEW n, Doing(s, o, scan, n)
  PROVE  Concerns(o, s.row)
  <1>1. ASSUME NEW does, NEW round, OnTier(s, does, o, round) PROVE Concerns(o, s.row)
    BY <1>1, OnTierSays
  <1>2. ASSUME NEW does, NEW round, OnChair(s, does, o, round, scan) PROVE Concerns(o, s.row)
    <2>1. PICK l \in Bought(o) : \E c \in l.chairs : s = Do(does, ChairRow(c), 1, o, <<round, 0, scan[c]>>)
      BY <1>2 DEF OnChair
    <2>2. PICK c \in l.chairs : s = Do(does, ChairRow(c), 1, o, <<round, 0, scan[c]>>)
      BY <2>1
    <2> QED
      BY <2>2, StatementParts DEF Concerns, Proper
  <1>3. ASSUME Claiming(s, o, scan) PROVE Concerns(o, s.row)
    <2>1. PICK l \in Bought(o) : \E c \in l.chairs : s = Do("claim", ChairRow(c), l.tier, o, <<1, l.tier, scan[c]>>)
      BY <1>3 DEF Claiming
    <2>2. PICK c \in l.chairs : s = Do("claim", ChairRow(c), l.tier, o, <<1, l.tier, scan[c]>>)
      BY <2>1
    <2> QED
      BY <2>2, StatementParts DEF Concerns, Proper
  <1> QED
    BY <1>1, <1>2, <1>3 DEF Doing

LEMMA LookStep ==
  ASSUME TillAssumption, TillInv, NEW k \in Connections, Look(k)
  PROVE  TillInv'
  <1>0. PICK o, kind, scan : o = tx[k].order /\ kind = tx[k].kind /\ scan = tx[k].scan
    BY SMTT(30)
  <1> DEFINE old == row[OrderRow(o)]
             Becomes(next, todo) == Take(k, OrderRow(o), [status |-> next, lines |-> old.lines], todo)
  <1>1. PICK s \in Firsts(k) :
           /\ s.does = "look" /\ Free(k, s)
           /\ LET status == row[s.row].status  lines == row[s.row].lines
                  Turns(next, todo) == Take(k, s.row, [status |-> next, lines |-> lines], todo)
              IN  \/ kind = "expire" /\ status = "pending_payment" /\ Turns("expired", ReleaseAll(o, lines, 1, scan))
                  \/ kind = "cancel" /\ status = "pending_payment" /\ Turns("cancelled", ReleaseAll(o, lines, 1, scan))
                  \/ kind = "pay" /\ status = "pending_payment" /\ Turns("paid", CommitAll(o, lines, scan))
                  \/ /\ kind = "pay" /\ status \in {"expired", "cancelled"}
                     /\ Turns("paid", ReserveAll(o, lines, scan) \cup CommitAll(o, lines, scan))
                  \/ kind = "expire" /\ Turns(status, {})
                  \/ kind = "cancel" /\ status # "pending_payment" /\ Turns(status, {})
                  \/ kind = "pay" /\ status \in {"paid", "refund_required"} /\ Turns(status, {})
    BY <1>0, ZenonT(60) DEF Look
  <1>2. kind \in {"expire", "cancel", "pay"} /\ Looks(k) /\ s = Looking(o) /\ o \in Orders
    <2>1. s \in tx[k].todo /\ Sound(k)
      BY DEF Firsts, TillInv
    <2>2. CASE kind = "start" /\ Starts(k)
      <3>1. s \in Basket(o, Bought(o), scan) /\ o \in Orders
        BY <1>0, <2>1, <2>2 DEF Starts
      <3>2. s = Counting(o) \/ s = Inserting(o) \/ Claiming(s, o, scan) \/ OnTier(s, "reserve", o, 1)
        BY <3>1, StatementSets
      <3>3. OnTier(s, "reserve", o, 1) => s.does = "reserve"
        BY <3>1, OnTierSays
      <3>4. Claiming(s, o, scan) => s.does = "claim"
        BY <3>1, ClaimingSays
      <3> QED
        BY <1>1, <3>1, <3>2, <3>3, <3>4, OwnRowSays
    <2>3. CASE Works(k)
      <3>1. Statement(k, s)
        BY <2>1, <2>3 DEF Works
      <3>2. PICK n : s.order \in Orders /\ Doing(s, s.order, scan, n)
        BY <1>0, <3>1, WorkSays DEF Doing
      <3>3. s.does # "look"
        BY <3>2, DoingSays
      <3> QED
        BY <1>1, <3>3
    <2>4. Looks(k) => s = Looking(o) /\ o \in Orders
      BY <1>0, <2>1 DEF Looks
    <2>5. tx[k].kind # "idle"
      BY <2>1 DEF Sound, Working
    <2> QED
      BY <1>0, <2>1, <2>2, <2>3, <2>4, <2>5 DEF Sound, Working
  <1>3. s.row = OrderRow(o) /\ locks[OrderRow(o)] \in {Nobody, k}
    BY <1>1, <1>2, OwnRowSays DEF Free
  <1>4. ASSUME NEW next \in Statuses \ {"none"}, NEW todo, Becomes(next, todo)
        PROVE  /\ old.lines = Bought(o) /\ Proper(o)
               /\ Status(o) = old.status /\ Status(o) # "none"
               /\ tx'[k].kind = kind /\ tx'[k].order = o /\ tx'[k].scan = scan /\ tx'[k].todo = todo
               /\ committed' = committed /\ Stands(o)' = next /\ Status(o)' = Status(o)
               /\ locks'[OrderRow(o)] = k /\ \A r \in Rows \ {OrderRow(o)} : locks'[r] # k
               /\ Shapes' /\ Acts(k) /\ ViewWhole(k)' /\ InOrder(k)'
    <2>1. PICK v : v = [status |-> next, lines |-> row[OrderRow(o)].lines] /\ Take(k, OrderRow(o), v, todo)
      BY <1>4
    <2>2. tx[k].kind \in {"expire", "cancel", "pay"} /\ o = tx[k].order
      BY <1>0, <1>2
    <2> HIDE DEF Becomes
    <2>3. /\ o \in Orders /\ row[OrderRow(o)].lines = Bought(o) /\ Proper(o)
          /\ Status(o) = row[OrderRow(o)].status /\ Status(o) # "none"
          /\ tx'[k].kind = tx[k].kind /\ tx'[k].order = o /\ tx'[k].scan = tx[k].scan /\ tx'[k].todo = todo
          /\ committed' = committed /\ Stands(o)' = next /\ Status(o)' = Status(o)
          /\ locks'[OrderRow(o)] = k /\ \A r \in Rows \ {OrderRow(o)} : locks'[r] # k
          /\ Shapes' /\ Acts(k) /\ ViewWhole(k)' /\ InOrder(k)'
      BY <1>0, <1>2, <1>3, <2>1, <2>2, LookTakes
    <2> QED
      BY <1>0, <2>3
  <1>5. ASSUME committed' = committed, Shapes', Acts(k), Sound(k)' PROVE TillInv'
    BY <1>5, OneMoves DEF TillInv
  <1>6. old.status = Status(o) /\ Status(o) \in Statuses \ {"none"}
    <2>1. OrderRow(o) \in Rows /\ locks[OrderRow(o)] = Nobody /\ Status(o) # "none"
      BY <1>0, <1>2, <1>3, RowsApart DEF Looks, LocksNothing
    <2> QED
      BY <1>2, <2>1, OrderThere DEF TillInv, Shapes, Status
  <1> HIDE DEF Becomes, old
  <1>7. ASSUME NEW next \in {"expired", "cancelled"}, kind \in {"expire", "cancel"}, old.status = "pending_payment",
               Becomes(next, ReleaseAll(o, old.lines, 1, scan))
        PROVE  TillInv'
    <2> DEFINE todo == ReleaseAll(o, old.lines, 1, scan)
    <2>1. next \in Statuses \ {"none"} /\ Becomes(next, todo)
      BY <1>7 DEF Statuses
    <2> HIDE DEF todo
    <2>2. /\ old.lines = Bought(o) /\ Proper(o)
          /\ tx'[k].kind = kind /\ tx'[k].order = o /\ tx'[k].scan = scan /\ tx'[k].todo = todo
          /\ committed' = committed /\ Stands(o)' = next /\ Status(o)' = "pending_payment"
          /\ locks'[OrderRow(o)] = k /\ \A r \in Rows \ {OrderRow(o)} : locks'[r] # k
          /\ Shapes' /\ Acts(k) /\ ViewWhole(k)' /\ InOrder(k)'
      BY <1>4, <1>6, <1>7, <2>1
    <2>3. todo = ReleaseAll(o, Bought(o), 1, scan)
      BY <2>2 DEF todo
    <2>4. InHand(k, o)' /\ Moving(k, o)'
      BY <1>0, <1>7, <2>2 DEF InHand, Moving
    <2>5. ASSUME NEW u \in todo
          PROVE  Doing(u, o, scan, 1) /\ u.order = o /\ u.does \in {"release", "free"} /\ Statement(k, u)'
      <3>1. OnTier(u, "release", o, 2 * 1) \/ OnChair(u, "free", o, 2 * 1 + 1, scan)
        BY <2>3, StatementSets
      <3>2. u.order = o /\ u.does \in {"release", "free"}
        BY <1>2, <3>1, OnTierSays, OnChairSays
      <3>3. Statement(k, u)'
        BY <1>2, <1>7, <2>2, <2>3, <2>4, <3>2 DEF Statement
      <3> QED
        BY <3>1, <3>2, <3>3 DEF Doing
    <2>6. ASSUME NEW r
          PROVE  (Held(k, o, r)' <=> Has(o, "pending_payment", r)') /\ (Owned(k, o, r)' <=> Has(o, "paid", r)')
      <3>1. ~Left(k, Taking, r, o)'
        BY <2>2, <2>5 DEF Left, Taking
      <3>2. ASSUME Concerns(o, r) PROVE Left(k, Giving, r, o)'
        <4>1. PICK u \in todo : u.does \in Giving /\ u.row = r /\ u.order = o
          BY <1>2, <2>3, <3>2, AllGiven
        <4> QED
          BY <2>2, <2>5, <4>1 DEF Left
      <3> QED
        BY <1>7, <2>2, <2>4, <3>1, <3>2 DEF Held, Owned, Has
    <2>7. Sound(k)'
      BY <1>2, <1>7, <2>2, <2>4, <2>5, <2>6, LookLeaves
    <2> QED
      BY <1>5, <2>2, <2>7
  <1>8. ASSUME kind = "pay", old.status = "pending_payment", Becomes("paid", CommitAll(o, old.lines, scan))
        PROVE  TillInv'
    <2> DEFINE todo == CommitAll(o, old.lines, scan)  next == "paid"
    <2>1. next \in Statuses \ {"none"} /\ Becomes(next, todo)
      BY <1>8 DEF Statuses
    <2> HIDE DEF todo
    <2>2. /\ old.lines = Bought(o) /\ Proper(o)
          /\ tx'[k].kind = kind /\ tx'[k].order = o /\ tx'[k].scan = scan /\ tx'[k].todo = todo
          /\ committed' = committed /\ Stands(o)' = next /\ Status(o)' = "pending_payment"
          /\ locks'[OrderRow(o)] = k /\ \A r \in Rows \ {OrderRow(o)} : locks'[r] # k
          /\ Shapes' /\ Acts(k) /\ ViewWhole(k)' /\ InOrder(k)'
      BY <1>4, <1>6, <1>8, <2>1
    <2>3. todo = CommitAll(o, Bought(o), scan)
      BY <2>2 DEF todo
    <2>4. InHand(k, o)' /\ Moving(k, o)'
      BY <1>8, <2>2 DEF InHand, Moving
    <2>5. ASSUME NEW u \in todo
          PROVE  Doing(u, o, scan, 1) /\ u.order = o /\ u.does \in {"sell", "commit"} /\ Statement(k, u)'
      <3>1. OnTier(u, "sell", o, 3) \/ OnChair(u, "commit", o, 4, scan)
        BY <2>3, StatementSets
      <3>2. u.order = o /\ u.does \in {"sell", "commit"}
        BY <1>2, <3>1, OnTierSays, OnChairSays
      <3>3. Statement(k, u)'
        BY <1>2, <1>8, <2>2, <2>3, <2>4, <3>2 DEF Statement
      <3> QED
        BY <3>1, <3>2, <3>3 DEF Doing
    <2>6. ASSUME NEW r
          PROVE  (Held(k, o, r)' <=> Has(o, "pending_payment", r)') /\ (Owned(k, o, r)' <=> Has(o, "paid", r)')
      <3>1. ~Left(k, Taking, r, o)'
        BY <2>2, <2>5 DEF Left, Taking
      <3>2. ASSUME Concerns(o, r) PROVE Left(k, Giving, r, o)'
        <4>1. PICK u \in todo : u.does \in Giving /\ u.row = r /\ u.order = o
          BY <1>2, <2>3, <3>2, AllGiven
        <4> QED
          BY <2>2, <2>5, <4>1 DEF Left
      <3> QED
        BY <1>8, <2>2, <2>4, <3>1, <3>2 DEF Held, Owned, Has
    <2>7. TakesFirst(k)'
      BY <2>2, <2>5 DEF TakesFirst, Taking
    <2>8. Sound(k)'
      BY <1>2, <1>8, <2>2, <2>4, <2>5, <2>6, <2>7, LookLeaves
    <2> QED
      BY <1>5, <2>2, <2>8
  <1>9. ASSUME kind = "pay", old.status \in {"expired", "cancelled"},
               Becomes("paid", ReserveAll(o, old.lines, scan) \cup CommitAll(o, old.lines, scan))
        PROVE  TillInv'
    <2> DEFINE todo == ReserveAll(o, old.lines, scan) \cup CommitAll(o, old.lines, scan)  next == "paid"
    <2>1. next \in Statuses \ {"none"} /\ Becomes(next, todo)
      BY <1>9 DEF Statuses
    <2> HIDE DEF todo
    <2>2. /\ old.lines = Bought(o) /\ Proper(o)
          /\ tx'[k].kind = kind /\ tx'[k].order = o /\ tx'[k].scan = scan /\ tx'[k].todo = todo
          /\ committed' = committed /\ Stands(o)' = next /\ Status(o)' \in {"expired", "cancelled"}
          /\ locks'[OrderRow(o)] = k /\ \A r \in Rows \ {OrderRow(o)} : locks'[r] # k
          /\ Shapes' /\ Acts(k) /\ ViewWhole(k)' /\ InOrder(k)'
      BY <1>4, <1>6, <1>9, <2>1
    <2>3. todo = ReserveAll(o, Bought(o), scan) \cup CommitAll(o, Bought(o), scan)
      BY <2>2 DEF todo
    <2>4. InHand(k, o)' /\ Moving(k, o)'
      BY <1>9, <2>2 DEF InHand, Moving
    <2>5. ASSUME NEW u \in todo
          PROVE  Doing(u, o, scan, 1) /\ u.order = o /\ Concerns(o, u.row) /\ Statement(k, u)'
      <3>1. Doing(u, o, scan, 1)
        BY <2>3, StatementSets DEF Doing
      <3>2. u.order = o /\ Concerns(o, u.row)
        BY <1>2, <2>2, <3>1, DoingSays, DoingConcerns
      <3>3. Statement(k, u)'
        BY <1>2, <1>9, <2>2, <2>3, <2>4, <3>2 DEF Statement
      <3> QED
        BY <3>1, <3>2, <3>3
    <2>6. ASSUME NEW r, Concerns(o, r)
          PROVE  Left(k, Taking, r, o)' /\ Left(k, Giving, r, o)'
      <3>1. PICK u \in CommitAll(o, Bought(o), scan) : u.does \in Giving /\ u.row = r /\ u.order = o
        BY <1>2, <2>6, AllGiven
      <3>2. PICK w \in ReserveAll(o, Bought(o), scan) :
               w.does \in Taking /\ w.row = r /\ w.order = o /\ (w.does = "claim" => TierOf[w.row[2]] = w.by)
        BY <1>2, <2>6, AllTaken
      <3>3. u \in todo /\ w \in todo /\ u.does # "claim"
        BY <2>3, <3>1 DEF Giving
      <3> QED
        BY <2>2, <3>1, <3>2, <3>3 DEF Left
    <2>7. ASSUME NEW r
          PROVE  (Held(k, o, r)' <=> Has(o, "pending_payment", r)') /\ (Owned(k, o, r)' <=> Has(o, "paid", r)')
      BY <1>9, <2>2, <2>4, <2>6 DEF Held, Owned, Has
    <2>8. TakesFirst(k)'
      <3> SUFFICES ASSUME NEW u \in todo
                   PROVE  /\ Left(k, Giving, u.row, u.order)'
                          /\ u.does = "sell" => Left(k, {"reserve"}, u.row, u.order)'
        BY <2>2 DEF TakesFirst
      <3> DEFINE r == u.row
      <3>1. u.order = o /\ Concerns(o, r)
        BY <2>5
      <3> HIDE DEF r
      <3>2. Left(k, Taking, r, o)' /\ Left(k, Giving, r, o)'
        BY <2>6, <3>1
      <3>3. Left(k, Giving, u.row, u.order)' /\ Left(k, Taking, u.row, u.order)'
        BY <3>1, <3>2 DEF r
      <3>4. ASSUME u.does = "sell" PROVE Left(k, {"reserve"}, u.row, u.order)'
        <4>1. PICK w \in todo : w.does \in Taking /\ w.row = u.row /\ w.order = u.order
          BY <2>2, <3>3 DEF Left
        <4>2. Doing(u, o, scan, 1) /\ Doing(w, o, scan, 1)
          BY <2>5
        <4>3. OnTier(u, "sell", o, 3)
          BY <1>2, <3>4, <4>2, DoingSays
        <4>4. u.row \in TierRows
          BY <1>2, <4>3, OnTierSays
        <4>5. ~Claiming(w, o, scan)
          BY <1>2, <4>1, <4>4, ClaimingSays, RowsApart DEF TierRows, ChairRows
        <4>6. w.does = "reserve"
          BY <1>2, <4>1, <4>2, <4>5, DoingSays DEF Taking
        <4> QED
          BY <2>2, <4>1, <4>6 DEF Left
      <3> QED
        BY <3>3, <3>4
    <2>9. Sound(k)'
      BY <1>2, <1>9, <2>2, <2>4, <2>5, <2>7, <2>8, LookLeaves
    <2> QED
      BY <1>5, <2>2, <2>9
  <1>10. ASSUME Becomes(old.status, {})
         PROVE  TillInv'
    <2> DEFINE next == old.status
    <2>1. next \in Statuses \ {"none"} /\ Becomes(next, {})
      BY <1>6, <1>10
    <2> HIDE DEF next
    <2>2. /\ tx'[k].kind = kind /\ tx'[k].order = o /\ tx'[k].scan = scan /\ tx'[k].todo = {}
          /\ committed' = committed /\ Stands(o)' = next /\ Status(o)' = Status(o) /\ Status(o) # "none"
          /\ locks'[OrderRow(o)] = k /\ \A r \in Rows \ {OrderRow(o)} : locks'[r] # k
          /\ Shapes' /\ Acts(k) /\ ViewWhole(k)' /\ InOrder(k)'
      BY <1>4, <2>1
    <2>3. Stands(o)' = Status(o)'
      BY <1>6, <2>2 DEF next
    <2>4. ~InHand(k, o)' /\ Moving(k, o)'
      BY <1>2, <2>2, <2>3 DEF InHand, Moving
    <2>5. ASSUME NEW r
          PROVE  (Held(k, o, r)' <=> Has(o, "pending_payment", r)') /\ (Owned(k, o, r)' <=> Has(o, "paid", r)')
      BY <2>4 DEF Held, Owned
    <2>6. TakesFirst(k)'
      BY <2>2 DEF TakesFirst
    <2>7. Sound(k)'
      BY <1>2, <2>2, <2>4, <2>5, <2>6, LookLeaves
    <2> QED
      BY <1>5, <2>2, <2>7
  <1> QED
    BY <1>1, <1>3, <1>7, <1>8, <1>9, <1>10 DEF Becomes, old

-----------------------------------------------------------------------------
(* A statement is done: its row is written, and it is done with.           *)
Goes(k, s, v) ==
    /\ committed' = committed /\ row'[s.row] = v /\ locks'[s.row] = k
    /\ \A x \in Rows \ {s.row} : row'[x] = row[x] /\ locks'[x] = locks[x]
    /\ tx'[k].kind = tx[k].kind /\ tx'[k].order = tx[k].order /\ tx'[k].scan = tx[k].scan
    /\ tx'[k].todo = tx[k].todo \ {s}

LEMMA StepLeft ==
  ASSUME NEW k, NEW s, NEW v, Goes(k, s, v), NEW does, NEW r, NEW o
  PROVE  /\ Left(k, does, r, o)' => Left(k, does, r, o)
         /\ s.does \notin does \/ r # s.row \/ o # s.order => (Left(k, does, r, o)' <=> Left(k, does, r, o))
  BY DEF Goes, Left

(* What a transaction may still have to do.                                *)
LEMMA StatementIs ==
  ASSUME TillAssumption, NEW k \in Connections, Sound(k), NEW s \in tx[k].todo, s.does # "look"
  PROVE  \/ /\ tx[k].kind = "start" /\ Starts(k) /\ s.order = tx[k].order /\ s.order \in Orders /\ InHand(k, s.order)
            /\ \/ s = Counting(s.order) \/ s = Inserting(s.order)
               \/ Claiming(s, s.order, tx[k].scan) \/ OnTier(s, "reserve", s.order, 1)
         \/ tx[k].kind \in {"expire", "cancel", "pay", "sweep"} /\ Works(k) /\ Statement(k, s)
  <1>1. CASE tx[k].kind = "start" /\ Starts(k)
    <2> DEFINE o == tx[k].order
    <2>1. s \in Basket(o, Bought(o), tx[k].scan) /\ o \in Orders
      BY <1>1 DEF Starts
    <2>2. s = Counting(o) \/ s = Inserting(o) \/ Claiming(s, o, tx[k].scan) \/ OnTier(s, "reserve", o, 1)
      BY <2>1, StatementSets
    <2>3. s.order = o
      BY <2>1, <2>2, ClaimingSays, OnTierSays, OwnRowSays
    <2> QED
      BY <1>1, <2>1, <2>2, <2>3 DEF InHand
  <1>2. CASE Looks(k)
    <2>1. s = Looking(tx[k].order) /\ tx[k].order \in Orders
      BY <1>2 DEF Looks
    <2> QED
      BY <2>1, OwnRowSays
  <1>3. CASE tx[k].kind \in {"expire", "cancel", "pay", "sweep"} /\ Works(k)
    BY <1>3 DEF Works
  <1> QED
    BY <1>1, <1>2, <1>3 DEF Sound, Working

LEMMA StatementForm ==
  ASSUME TillAssumption, NEW k \in Connections, Sound(k), NEW s \in tx[k].todo, s.does # "look"
  PROVE  /\ s.order \in Orders /\ InHand(k, s.order) /\ s.row \in Rows /\ WellMade(s)
         /\ \/ s = Counting(s.order) /\ s.does = "count" /\ tx[k].kind = "start"
            \/ s = Inserting(s.order) /\ s.does = "insert" /\ tx[k].kind = "start"
            \/ s.does = "claim" /\ s.row \in ChairRows
            \/ /\ s.does \in {"reserve", "sell", "release"} /\ Concerns(s.order, s.row)
               /\ \E t \in Tiers : s.row = TierRow(t) /\ s.row[2] = t /\ s.by = Wants(t)[s.order] /\ s.turn[2] = t
            \/ s.does \in {"commit", "free"} /\ s.row \in ChairRows /\ s.by = 1
  <1> DEFINE o == s.order  scan == tx[k].scan
  <1>1. ASSUME o \in Orders, NEW does \in {"reserve", "sell", "release"}, NEW round, OnTier(s, does, o, round)
        PROVE  /\ s.row \in Rows /\ WellMade(s) /\ s.does \in {"reserve", "sell", "release"} /\ Concerns(o, s.row)
               /\ \E t \in Tiers : s.row = TierRow(t) /\ s.row[2] = t /\ s.by = Wants(t)[o] /\ s.turn[2] = t
    BY <1>1, OnTierSays
  <1>2. ASSUME o \in Orders, NEW does \in {"commit", "free"}, NEW round, OnChair(s, does, o, round, scan)
        PROVE  s.row \in Rows /\ WellMade(s) /\ s.does \in {"commit", "free"} /\ s.row \in ChairRows /\ s.by = 1
    BY <1>2, OnChairSays
  <1>3. ASSUME o \in Orders, Claiming(s, o, scan)
        PROVE  s.row \in Rows /\ WellMade(s) /\ s.does = "claim" /\ s.row \in ChairRows
    BY <1>3, ClaimingSays
  <1>4. CASE Statement(k, s)
    <2>1. /\ o \in Orders /\ InHand(k, o)
          /\ \/ \E round : OnTier(s, "sell", o, round) \/ OnTier(s, "reserve", o, round) \/ OnTier(s, "release", o, round)
             \/ \E round : OnChair(s, "commit", o, round, scan) \/ OnChair(s, "free", o, round, scan)
             \/ Claiming(s, o, scan)
      BY <1>4, WorkSays
    <2> QED
      BY <1>1, <1>2, <1>3, <2>1
  <1>5. CASE /\ tx[k].kind = "start" /\ o \in Orders /\ InHand(k, o)
             /\ \/ s = Counting(o) \/ s = Inserting(o)
                \/ Claiming(s, o, scan) \/ OnTier(s, "reserve", o, 1)
    <2>1. /\ s = Counting(o) => s.does = "count" /\ s.row \in Rows /\ WellMade(s)
          /\ s = Inserting(o) => s.does = "insert" /\ s.row \in Rows /\ WellMade(s)
      BY <1>5, OwnRowSays, SMTT(30)
    <2> QED
      BY <1>1, <1>3, <1>5, <2>1
  <1> QED
    BY <1>4, <1>5, StatementIs

(* In which round.                                                         *)
LEMMA RoundOf ==
  ASSUME TillAssumption, NEW k \in Connections, Sound(k), NEW s \in tx[k].todo, s.does # "look"
  PROVE  /\ tx[k].kind = "start" =>
               \/ s = Counting(s.order) /\ s.turn[1] = 0
               \/ s.does \in Taking /\ s.turn[1] = 1
               \/ s = Inserting(s.order) /\ s.turn[1] = 2
         /\ tx[k].kind = "pay" =>
               \/ s.does = "claim" /\ s.turn[1] = 1
               \/ s.does = "reserve" /\ s.turn[1] = 2
               \/ s.does = "sell" /\ s.turn[1] = 3
               \/ s.does = "commit" /\ s.turn[1] = 4
         /\ tx[k].kind \notin {"start", "pay"} => s.does \in {"release", "free"}
         /\ tx[k].kind \notin {"start", "pay", "sweep"} /\ s.does = "release" => s.turn[1] = 2
         /\ tx[k].kind = "pay" /\ s.does \in Taking => Status(s.order) # "pending_payment"
  <1> DEFINE o == s.order  scan == tx[k].scan
  <1>1. ASSUME o \in Orders, NEW does, NEW round, OnTier(s, does, o, round)
        PROVE  s.does = does /\ s.turn[1] = round
    BY <1>1, OnTierSays
  <1>2. ASSUME o \in Orders, NEW does, NEW round, OnChair(s, does, o, round, scan)
        PROVE  s.does = does /\ s.turn[1] = round
    BY <1>2, OnChairSays
  <1>3. ASSUME o \in Orders, Claiming(s, o, scan)
        PROVE  s.does = "claim" /\ s.turn[1] = 1
    BY <1>3, ClaimingSays
  <1>4. CASE tx[k].kind \in {"expire", "cancel", "pay", "sweep"} /\ Statement(k, s)
    <2>1. /\ o \in Orders
          /\ \/ tx[k].kind = "pay" /\ OnTier(s, "sell", o, 3)
             \/ tx[k].kind = "pay" /\ OnChair(s, "commit", o, 4, scan)
             \/ tx[k].kind = "pay" /\ Status(o) # "pending_payment" /\ Claiming(s, o, scan)
             \/ tx[k].kind = "pay" /\ Status(o) # "pending_payment" /\ OnTier(s, "reserve", o, 2)
             \/ \E n \in Nat : /\ tx[k].kind # "pay" /\ (tx[k].kind = "sweep" \/ n = 1)
                               /\ \/ OnTier(s, "release", o, 2 * n)
                                  \/ OnChair(s, "free", o, 2 * n + 1, scan)
      BY <1>4, WorkSays
    <2>2. CASE tx[k].kind = "pay"
      <3>1. OnTier(s, "sell", o, 3) => s.does = "sell" /\ s.turn[1] = 3
        BY <1>1, <2>1
      <3>2. OnTier(s, "reserve", o, 2) => s.does = "reserve" /\ s.turn[1] = 2
        BY <1>1, <2>1
      <3>3. OnChair(s, "commit", o, 4, scan) => s.does = "commit" /\ s.turn[1] = 4
        BY <1>2, <2>1
      <3>4. Claiming(s, o, scan) => s.does = "claim" /\ s.turn[1] = 1
        BY <1>3, <2>1
      <3> QED
        BY <2>1, <2>2, <3>1, <3>2, <3>3, <3>4 DEF Taking
    <2>3. CASE tx[k].kind # "pay"
      <3>1. PICK n \in Nat : (tx[k].kind = "sweep" \/ n = 1) /\ (OnTier(s, "release", o, 2 * n) \/ OnChair(s, "free", o, 2 * n + 1, scan))
        BY <2>1, <2>3
      <3>2. OnTier(s, "release", o, 2 * n) => s.does = "release" /\ s.turn[1] = 2 * n
        BY <1>1, <2>1
      <3>3. OnChair(s, "free", o, 2 * n + 1, scan) => s.does = "free"
        BY <1>2, <2>1
      <3> QED
        BY <1>4, <2>3, <3>1, <3>2, <3>3
    <2> QED
      BY <2>2, <2>3
  <1>5. CASE /\ tx[k].kind = "start" /\ o \in Orders
             /\ \/ s = Counting(o) \/ s = Inserting(o)
                \/ Claiming(s, o, scan) \/ OnTier(s, "reserve", o, 1)
    <2>1. /\ s = Counting(o) => s.turn[1] = 0
          /\ s = Inserting(o) => s.turn[1] = 2
      BY <1>5, OwnRowSays
    <2> QED
      <3>1. OnTier(s, "reserve", o, 1) => s.does = "reserve" /\ s.turn[1] = 1
        BY <1>1, <1>5
      <3>2. Claiming(s, o, scan) => s.does = "claim" /\ s.turn[1] = 1
        BY <1>3, <1>5
      <3> QED
        BY <1>5, <2>1, <3>1, <3>2 DEF Taking
  <1> QED
    BY <1>4, <1>5, StatementIs

(* Nothing that comes later is in an earlier round.                        *)
LEMMA FirstFirst ==
  ASSUME NEW k, NEW s \in Firsts(k), NEW u \in tx[k].todo, u # s
  PROVE  /\ s.turn[1] < u.turn[1] \/ (s.turn[1] = u.turn[1] /\ (s.turn[2] < u.turn[2] \/ s.turn[2] = u.turn[2]))
  BY DEF Firsts, Precedes

(* A transaction does a thing to a row for an order once.                  *)
LEMMA LastOne ==
  ASSUME TillAssumption, NEW k \in Connections, Sound(k), NEW s \in tx[k].todo, NEW u \in tx[k].todo,
         s.row = u.row, s.order = u.order,
         \/ s.does \in Taking /\ u.does \in Taking
         \/ s.does \in Giving /\ u.does \in Giving,
         s.does = "claim" => TierOf[s.row[2]] = s.by, u.does = "claim" => TierOf[u.row[2]] = u.by
  PROVE  s = u
  <1>1. s.does # "look" /\ u.does # "look"
    BY DEF Taking, Giving
  <1>2. s.does = u.does
    <2>1. s.row \in ChairRows => ~ \E t \in Tiers : s.row = TierRow(t)
      BY RowsApart DEF ChairRows
    <2>2. ASSUME NEW a \in {s, u}, a.does \in Taking
          PROVE  a.does = IF s.row \in ChairRows THEN "claim" ELSE "reserve"
      <3>1. a \in tx[k].todo /\ a.does # "look" /\ a.row = s.row
        BY <1>1
      <3> QED
        BY <2>1, <2>2, <3>1, StatementForm DEF Taking
    <2>3. ASSUME NEW a \in {s, u}, a.does \in Giving
          PROVE  a.does = IF s.row \in ChairRows THEN IF tx[k].kind = "pay" THEN "commit" ELSE "free"
                          ELSE IF tx[k].kind = "pay" THEN "sell" ELSE "release"
      <3>1. a \in tx[k].todo /\ a.does # "look" /\ a.row = s.row
        BY <1>1
      <3>2. IF s.row \in ChairRows THEN a.does \in {"commit", "free"} ELSE a.does \in {"sell", "release"}
        BY <2>1, <2>3, <3>1, StatementForm DEF Giving
      <3>3. tx[k].kind # "start"
        <4>1. a.order \in Orders
          BY <3>1, StatementForm
        <4>2. a # Counting(a.order) /\ a # Inserting(a.order)
          BY <2>3, <4>1, OwnRowSays, SMTT(30) DEF Giving
        <4> QED
          BY <2>3, <3>1, <4>2, RoundOf DEF Giving, Taking
      <3>4. IF tx[k].kind = "pay" THEN a.does \in {"sell", "commit"} ELSE a.does \in {"release", "free"}
        BY <2>3, <3>1, <3>3, RoundOf DEF Giving
      <3> QED
        BY <3>2, <3>4
    <2> QED
      BY <2>2, <2>3
  <1>3. s.by = u.by
    BY <1>1, <1>2, StatementForm, RowsApart DEF Taking, Giving
  <1> QED
    BY <1>2, <1>3 DEF Sound, Once

(* What a transaction has done changes its view of that row and order.     *)
LEMMA StepSame ==
  ASSUME TillAssumption, NEW k \in Connections, Sound(k), NEW s \in tx[k].todo, s.does # "look", NEW v, Goes(k, s, v),
         NEW o \in Orders
  PROVE  /\ InHand(k, o)' <=> InHand(k, o)
         /\ tx[k].kind # "start" => Stands(o)' = Stands(o) /\ (locks'[OrderRow(o)] = k <=> locks[OrderRow(o)] = k)
         /\ \A r : r # s.row \/ o # s.order \/ s.does \notin Taking \cup Giving =>
               (Held(k, o, r)' <=> Held(k, o, r)) /\ (Owned(k, o, r)' <=> Owned(k, o, r))
  <1>1. tx[k].kind # "start" => Stands(o)' = Stands(o) /\ locks'[OrderRow(o)] = locks[OrderRow(o)]
    <2> SUFFICES ASSUME tx[k].kind # "start"
                 PROVE  Stands(o)' = Stands(o) /\ locks'[OrderRow(o)] = locks[OrderRow(o)]
      OBVIOUS
    <2>1. s.row \in TierRows \cup ChairRows
      BY StatementForm DEF TierRows
    <2>2. OrderRow(o) \in Rows \ {s.row}
      BY <2>1, RowsApart DEF TierRows, ChairRows
    <2> QED
      BY <2>2 DEF Goes, Stands
  <1>2. tx'[k].kind = tx[k].kind /\ tx'[k].order = tx[k].order /\ Status(o)' = Status(o)
    BY CommittedStays DEF Goes
  <1>3. InHand(k, o)' <=> InHand(k, o)
    BY <1>1, <1>2 DEF InHand
  <1>4. ASSUME NEW r, r # s.row \/ o # s.order \/ s.does \notin Taking \cup Giving
        PROVE  (Held(k, o, r)' <=> Held(k, o, r)) /\ (Owned(k, o, r)' <=> Owned(k, o, r))
    <2>1. (Left(k, Taking, r, o)' <=> Left(k, Taking, r, o)) /\ (Left(k, Giving, r, o)' <=> Left(k, Giving, r, o))
      BY <1>4, StepLeft
    <2>2. \A status : Has(o, status, r)' <=> Has(o, status, r)
      BY <1>2 DEF Has
    <2> QED
      BY <1>1, <1>2, <1>3, <2>1, <2>2 DEF Held, Owned
  <1> QED
    BY <1>1, <1>3, <1>4

(* It is about a row of its order.                                         *)
LEMMA StepConcerns ==
  ASSUME TillAssumption, Shapes, NEW k \in Connections, Sound(k), NEW s \in tx[k].todo, s.does \in Taking \cup Giving,
         s.does = "claim" => TierOf[s.row[2]] = s.by
  PROVE  s.order \in Orders /\ Concerns(s.order, s.row) /\ InHand(k, s.order)
  <1> DEFINE o == s.order  scan == tx[k].scan
  <1>1. s.does # "look" /\ o \in Orders /\ InHand(k, o)
    BY StatementForm DEF Taking, Giving
  <1>2. CASE s.does \in {"reserve", "sell", "release"}
    BY <1>1, <1>2, StatementForm
  <1>3. CASE tx[k].kind # "start" /\ Works(k) /\ Statement(k, s)
    <2>1. locks[OrderRow(o)] = k
      BY <1>1, <1>3 DEF InHand
    <2>2. Proper(o)
      BY <1>1, <1>3, <2>1, OrderThere DEF Works, Moving
    <2>3. PICK n : Doing(s, o, scan, n)
      BY <1>3, WorkSays DEF Doing
    <2> QED
      BY <1>1, <2>2, <2>3, DoingConcerns
  <1>4. CASE Claiming(s, o, scan)
    <2>1. PICK l \in Bought(o) : \E c \in l.chairs : s = Do("claim", ChairRow(c), l.tier, o, <<1, l.tier, scan[c]>>)
      BY <1>4 DEF Claiming
    <2>2. PICK c \in l.chairs : s = Do("claim", ChairRow(c), l.tier, o, <<1, l.tier, scan[c]>>)
      BY <2>1
    <2>3. s.does = "claim" /\ s.row = ChairRow(c) /\ s.row[2] = c /\ s.by = l.tier
      BY <2>2, StatementParts DEF ChairRow
    <2> QED
      BY <1>1, <2>3 DEF Concerns
  <1> QED
    <2>1. s # Counting(o) /\ s # Inserting(o)
      BY <1>1, OwnRowSays DEF Taking, Giving
    <2>2. OnTier(s, "reserve", o, 1) => s.does = "reserve"
      BY <1>1, OnTierSays
    <2> QED
      BY <1>1, <1>2, <1>3, <1>4, <2>1, <2>2, StatementIs

(* Taking makes the row held for the order; giving makes it its own, when  *)
(* it is paid, and nobody's otherwise.                                     *)
LEMMA StepTakes ==
  ASSUME TillAssumption, Shapes, NEW k \in Connections, Sound(k), NEW s \in Firsts(k), s.does \in Taking,
         s.does = "claim" => TierOf[s.row[2]] = s.by, NEW v, Goes(k, s, v)
  PROVE  /\ ~Held(k, s.order, s.row) /\ Held(k, s.order, s.row)'
         /\ ~Owned(k, s.order, s.row) /\ ~Owned(k, s.order, s.row)'
  <1> DEFINE o == s.order  r == s.row
  <1>1. s \in tx[k].todo /\ s.does # "look" /\ s.does \notin Giving
    BY DEF Firsts, Taking, Giving
  <1>2. o \in Orders /\ Concerns(o, r) /\ InHand(k, o)
    BY <1>1, StepConcerns
  <1>3. InHand(k, o)' /\ tx'[k].kind = tx[k].kind
    BY <1>1, <1>2, StepSame DEF Goes
  <1>4. Left(k, Taking, r, o) /\ ~Left(k, Taking, r, o)'
    <2>1. Left(k, Taking, r, o)
      BY <1>1 DEF Left
    <2>2. ASSUME NEW u \in tx[k].todo \ {s}, u.does \in Taking, u.row = r, u.order = o, u.does = "claim" => TierOf[u.row[2]] = u.by
          PROVE  FALSE
      BY <1>1, <2>2, LastOne
    <2> QED
      BY <2>1, <2>2 DEF Left, Goes
  <1>5. CASE tx[k].kind = "start"
    BY <1>2, <1>3, <1>4, <1>5 DEF Held, Owned
  <1>6. CASE tx[k].kind # "start"
    <2>1. tx[k].kind = "pay"
      BY <1>1, <1>6, RoundOf DEF Taking
    <2>2. TakesFirst(k)
      BY <1>1, <2>1, StatementIs DEF Works
    <2>3. Left(k, Giving, r, o)
      BY <1>1, <2>2 DEF TakesFirst
    <2>4. Left(k, Giving, r, o)'
      BY <1>1, <2>3, StepLeft
    <2> QED
      BY <1>2, <1>3, <1>4, <2>3, <2>4 DEF Held, Owned
  <1> QED
    BY <1>5, <1>6

LEMMA StepGives ==
  ASSUME TillAssumption, Shapes, NEW k \in Connections, Sound(k), NEW s \in Firsts(k), s.does \in Giving,
         NEW v, Goes(k, s, v)
  PROVE  /\ Held(k, s.order, s.row) /\ ~Held(k, s.order, s.row)' /\ ~Owned(k, s.order, s.row)
         /\ IF s.does \in {"sell", "commit"} THEN Owned(k, s.order, s.row)' ELSE ~Owned(k, s.order, s.row)'
  <1> DEFINE o == s.order  r == s.row
  <1>1. s \in tx[k].todo /\ s.does # "look" /\ s.does \notin Taking /\ s.does # "claim"
    BY DEF Firsts, Taking, Giving
  <1>2. o \in Orders /\ Concerns(o, r) /\ InHand(k, o)
    BY <1>1, StepConcerns
  <1>3. InHand(k, o)' /\ tx'[k].kind = tx[k].kind
    BY <1>1, <1>2, StepSame DEF Goes
  <1>4. Left(k, Giving, r, o) /\ ~Left(k, Giving, r, o)'
    <2>1. Left(k, Giving, r, o)
      BY <1>1 DEF Left
    <2>2. ASSUME NEW u \in tx[k].todo \ {s}, u.does \in Giving, u.row = r, u.order = o
          PROVE  FALSE
      <3>1. u.does # "claim"
        BY <2>2 DEF Giving
      <3> QED
        BY <1>1, <2>2, <3>1, LastOne
    <2> QED
      BY <2>1, <2>2 DEF Left, Goes
  <1>5. tx[k].kind # "start" /\ Works(k)
    <2>1. s # Counting(o) /\ s # Inserting(o)
      BY <1>2, OwnRowSays DEF Giving
    <2>2. tx[k].kind # "start"
      BY <1>1, <2>1, RoundOf
    <2> QED
      BY <1>1, <2>2, StatementIs
  <1>6. ~Left(k, Taking, r, o) /\ ~Left(k, Taking, r, o)'
    <2>1. ASSUME NEW u \in tx[k].todo, u.does \in Taking PROVE FALSE
      <3>1. u.does # "look" /\ u # s
        BY <1>1, <2>1 DEF Taking
      <3>2. tx[k].kind = "pay" /\ u.turn[1] \in {1, 2}
        BY <1>5, <2>1, <3>1, RoundOf DEF Taking
      <3>3. s.turn[1] \in {3, 4}
        BY <1>1, <3>2, RoundOf DEF Taking
      <3> QED
        BY <3>1, <3>2, <3>3, FirstFirst
    <2> QED
      BY <2>1, StepLeft DEF Left
  <1>7. Stands(o)' = Stands(o) /\ (Stands(o) = "paid" <=> s.does \in {"sell", "commit"})
    <2>1. Stands(o)' = Stands(o) /\ Moving(k, o) /\ Stands(o) # Status(o)
      BY <1>1, <1>2, <1>5, StepSame DEF InHand, Works
    <2>2. tx[k].kind = "pay" <=> s.does \in {"sell", "commit"}
      BY <1>1, <1>5, RoundOf DEF Giving
    <2> QED
      BY <1>1, <2>1, <2>2 DEF Moving
  <1> QED
    BY <1>2, <1>3, <1>4, <1>5, <1>6, <1>7 DEF Held, Owned

(* The view of a row nobody else has.                                      *)
LEMMA ViewOf ==
  ASSUME TillAssumption, Shapes, CommittedWhole, NEW k \in Connections, Sound(k)
  PROVE  /\ \A t \in Tiers : locks[TierRow(t)] \in {Nobody, k} =>
               TierWhole(row[TierRow(t)], t, HoldingFor(k, TierRow(t)), OwningFor(k, TierRow(t)))
         /\ \A c \in Chairs : locks[ChairRow(c)] \in {Nobody, k} =>
               ChairWhole(row[ChairRow(c)], HoldingFor(k, ChairRow(c)), OwningFor(k, ChairRow(c)))
  <1>1. ASSUME NEW r \in TierRows \cup ChairRows, locks[r] = Nobody
        PROVE  row[r] = committed[r] /\ HoldingFor(k, r) = Holding(r) /\ OwningFor(k, r) = Owning(r)
    <2>1. r \in Rows /\ locks[r] # k
      BY <1>1 DEF TillAssumption, Rows
    <2>2. row[r] = committed[r]
      BY <1>1, <2>1 DEF Shapes
    <2>3. \A o \in Orders : (Held(k, o, r) <=> Has(o, "pending_payment", r)) /\ (Owned(k, o, r) <=> Has(o, "paid", r))
      BY <2>1 DEF Sound, Untouched
    <2> QED
      BY <2>2, <2>3 DEF HoldingFor, OwningFor, Holding, Owning
  <1>2. ASSUME NEW t \in Tiers, locks[TierRow(t)] \in {Nobody, k}
        PROVE  TierWhole(row[TierRow(t)], t, HoldingFor(k, TierRow(t)), OwningFor(k, TierRow(t)))
    BY <1>1, <1>2, RowsApart DEF Sound, ViewWhole, CommittedWhole
  <1>3. ASSUME NEW c \in Chairs, locks[ChairRow(c)] \in {Nobody, k}
        PROVE  ChairWhole(row[ChairRow(c)], HoldingFor(k, ChairRow(c)), OwningFor(k, ChairRow(c)))
    BY <1>1, <1>3, RowsApart DEF Sound, ViewWhole, CommittedWhole
  <1> QED
    BY <1>2, <1>3

(* What is written on a tier keeps the sums.                               *)
LEMMA TierTurns ==
  ASSUME TillAssumption, NEW t \in Tiers, NEW H, H \subseteq Orders, NEW P, P \subseteq Orders, NEW v, TierWhole(v, t, H, P),
         NEW o \in Orders, NEW by, by = Wants(t)[o]
  PROVE  /\ v.reserved \in Nat /\ v.sold \in Nat /\ by \in Nat
         /\ o \notin H => TierWhole([reserved |-> v.reserved + by, sold |-> v.sold], t, H \cup {o}, P)
         /\ o \in H => TierWhole([reserved |-> v.reserved - by, sold |-> v.sold], t, H \ {o}, P)
         /\ o \in H /\ o \notin P => TierWhole([reserved |-> v.reserved - by, sold |-> v.sold + by], t, H \ {o}, P \cup {o})
  <1> DEFINE w == Wants(t)
  <1>1. IsFiniteSet(H) /\ IsFiniteSet(P) /\ \A p \in Orders : w[p] \in Nat /\ w[p] \in Int
    BY OrdersFinite, WantsOf
  <1>2. v.reserved = Total(w, H) /\ v.sold = Total(w, P)
    BY DEF TierWhole
  <1> HIDE DEF w
  <1>3. Total(w, H) \in Nat /\ Total(w, P) \in Nat
    BY <1>1, TotalNat
  <1>4. o \notin H => Total(w, H \cup {o}) = by + Total(w, H)
    BY <1>1, TotalWith DEF w
  <1>5. o \in H => Total(w, H) = by + Total(w, H \ {o}) /\ Total(w, H \ {o}) \in Nat
    <2> SUFFICES ASSUME o \in H PROVE Total(w, H) = by + Total(w, H \ {o}) /\ Total(w, H \ {o}) \in Nat
      OBVIOUS
    <2>1. IsFiniteSet(H \ {o})
      BY <1>1, FS_Subset
    <2>2. Total(w, H \ {o}) \in Nat
      BY <1>1, <2>1, TotalNat
    <2> QED
      BY <1>1, <2>2, TotalWithout DEF w
  <1>6. o \notin P => Total(w, P \cup {o}) = by + Total(w, P)
    BY <1>1, TotalWith DEF w
  <1>7. by \in Nat
    BY <1>1 DEF w
  <1> QED
    <2>1. o \notin H => v.reserved + by = Total(w, H \cup {o})
      BY <1>2, <1>3, <1>4, <1>7
    <2>2. o \in H => v.reserved - by = Total(w, H \ {o})
      BY <1>2, <1>3, <1>5, <1>7
    <2>3. o \notin P => v.sold + by = Total(w, P \cup {o})
      BY <1>2, <1>3, <1>6, <1>7
    <2> QED
      BY <1>2, <1>3, <1>7, <2>1, <2>2, <2>3 DEF TierWhole, w

(* How the view of the row changes.                                        *)
LEMMA ViewTurns ==
  ASSUME TillAssumption, Shapes, NEW k \in Connections, Sound(k), NEW s \in Firsts(k), s.does # "look",
         s.does = "claim" => TierOf[s.row[2]] = s.by, NEW v, Goes(k, s, v)
  PROVE  /\ s.does \in Taking =>
               /\ s.order \in Orders \ HoldingFor(k, s.row)
               /\ HoldingFor(k, s.row)' = HoldingFor(k, s.row) \cup {s.order} /\ OwningFor(k, s.row)' = OwningFor(k, s.row)
         /\ s.does \in Giving =>
               /\ s.order \in HoldingFor(k, s.row) \ OwningFor(k, s.row) /\ s.order \in Orders
               /\ HoldingFor(k, s.row)' = HoldingFor(k, s.row) \ {s.order}
               /\ OwningFor(k, s.row)' = OwningFor(k, s.row) \cup (IF s.does \in {"sell", "commit"} THEN {s.order} ELSE {})
         /\ \A r : r # s.row \/ s.does \notin Taking \cup Giving =>
               HoldingFor(k, r)' = HoldingFor(k, r) /\ OwningFor(k, r)' = OwningFor(k, r)
  <1>1. s \in tx[k].todo
    BY DEF Firsts
  <1>2. s.order \in Orders
    BY <1>1, StatementForm
  <1>3. \A o \in Orders : \A r : r # s.row \/ o # s.order \/ s.does \notin Taking \cup Giving =>
            (Held(k, o, r)' <=> Held(k, o, r)) /\ (Owned(k, o, r)' <=> Owned(k, o, r))
    BY <1>1, StepSame
  <1>4. ASSUME NEW r, r # s.row \/ s.does \notin Taking \cup Giving
        PROVE  HoldingFor(k, r)' = HoldingFor(k, r) /\ OwningFor(k, r)' = OwningFor(k, r)
    BY <1>3, <1>4 DEF HoldingFor, OwningFor
  <1>5. ASSUME s.does \in Taking
        PROVE  /\ s.order \in Orders \ HoldingFor(k, s.row)
               /\ HoldingFor(k, s.row)' = HoldingFor(k, s.row) \cup {s.order} /\ OwningFor(k, s.row)' = OwningFor(k, s.row)
    <2>1. /\ ~Held(k, s.order, s.row) /\ Held(k, s.order, s.row)'
          /\ ~Owned(k, s.order, s.row) /\ ~Owned(k, s.order, s.row)'
      BY <1>5, StepTakes
    <2> QED
      BY <1>2, <1>3, <2>1 DEF HoldingFor, OwningFor
  <1>6. ASSUME s.does \in Giving
        PROVE  /\ s.order \in HoldingFor(k, s.row) \ OwningFor(k, s.row) /\ s.order \in Orders
               /\ HoldingFor(k, s.row)' = HoldingFor(k, s.row) \ {s.order}
               /\ OwningFor(k, s.row)' = OwningFor(k, s.row) \cup (IF s.does \in {"sell", "commit"} THEN {s.order} ELSE {})
    <2>1. /\ Held(k, s.order, s.row) /\ ~Held(k, s.order, s.row)' /\ ~Owned(k, s.order, s.row)
          /\ IF s.does \in {"sell", "commit"} THEN Owned(k, s.order, s.row)' ELSE ~Owned(k, s.order, s.row)'
      BY <1>6, StepGives
    <2> QED
      BY <1>2, <1>3, <2>1 DEF HoldingFor, OwningFor
  <1> QED
    BY <1>4, <1>5, <1>6

(* What is written on a chair keeps it its order's.                        *)
LEMMA ChairTaken ==
  ASSUME TillAssumption, NEW H, NEW P, NEW v, v.sold \in BOOLEAN, ChairWhole(v, H, P), v.by = Nobody,
         NEW o \in Orders, NEW w, w = [by |-> o, sold |-> v.sold]
  PROVE  ChairWhole(w, H \cup {o}, P)
  <1>1. o # Nobody /\ H = {} /\ P = {} /\ (v.sold <=> P # {})
    BY DEF TillAssumption, ChairWhole
  <1> QED
    BY <1>1 DEF ChairWhole

LEMMA ChairGiven ==
  ASSUME NEW H, NEW P, NEW v, ChairWhole(v, H, P), NEW o, o \in H, o \notin P
  PROVE  v.by = o /\ ~v.sold /\ H = {o} /\ P = {}
  BY DEF ChairWhole

LEMMA TierWritten ==
  ASSUME TillAssumption, Shapes, CommittedWhole, NEW k \in Connections, Sound(k), NEW s \in Firsts(k),
         s.does \in {"reserve", "sell", "release"}, Free(k, s), Matches(s, row[s.row]), NEW t \in Tiers, s.row = TierRow(t),
         NEW v, v = Written(s, row[s.row]), Goes(k, s, v)
  PROVE  v \in [reserved : Nat, sold : Nat] /\ TierWhole(v, t, HoldingFor(k, s.row)', OwningFor(k, s.row)')
  <1> DEFINE old == row[s.row]
  <1>1. PICK H, P, Q, S : /\ H = HoldingFor(k, s.row) /\ P = OwningFor(k, s.row)
                          /\ Q = HoldingFor(k, s.row)' /\ S = OwningFor(k, s.row)'
    OBVIOUS
  <1>2. s \in tx[k].todo /\ s.does # "look" /\ s.does # "claim" /\ s.does # "count"
    BY DEF Firsts
  <1>3. s.order \in Orders /\ s.by = Wants(t)[s.order]
    BY <1>2, StatementForm, RowsApart
  <1>4. H \subseteq Orders /\ P \subseteq Orders /\ TierWhole(old, t, H, P)
    BY <1>1, ViewOf DEF HoldingFor, OwningFor, Free
  <1>5. old.reserved \in Nat /\ old.sold \in Nat /\ s.by \in Nat
    <2> HIDE DEF old
    <2> QED
      BY <1>3, <1>4, TierTurns
  <1>6. old = [reserved |-> old.reserved, sold |-> old.sold]
    BY <1>4 DEF TierWhole
  <1>7. CASE s.does = "reserve"
    <2>1. s.order \notin H /\ Q = H \cup {s.order} /\ S = P
      BY <1>1, <1>2, <1>7, ViewTurns DEF Taking
    <2>2. v = [reserved |-> old.reserved + s.by, sold |-> old.sold]
      BY <1>6, <1>7 DEF Written
    <2> HIDE DEF old
    <2>3. TierWhole([reserved |-> old.reserved + s.by, sold |-> old.sold], t, H \cup {s.order}, P)
      BY <1>3, <1>4, <2>1, TierTurns
    <2> QED
      BY <1>1, <1>5, <2>1, <2>2, <2>3
  <1>8. CASE s.does = "release"
    <2>1. s.order \in H /\ Q = H \ {s.order} /\ S = P
      BY <1>1, <1>2, <1>8, ViewTurns, ZenonT(60) DEF Giving
    <2>2. v = [reserved |-> old.reserved - s.by, sold |-> old.sold]
      BY <1>6, <1>8 DEF Written
    <2>3. old.reserved >= s.by
      BY <1>8 DEF Matches
    <2> HIDE DEF old
    <2>4. TierWhole([reserved |-> old.reserved - s.by, sold |-> old.sold], t, H \ {s.order}, P)
      BY <1>3, <1>4, <2>1, TierTurns
    <2>5. v \in [reserved : Nat, sold : Nat]
      BY <1>5, <2>2, <2>3
    <2> QED
      BY <1>1, <2>1, <2>2, <2>4, <2>5
  <1>9. CASE s.does = "sell"
    <2>1. s.order \in H /\ s.order \notin P /\ Q = H \ {s.order} /\ S = P \cup {s.order}
      BY <1>1, <1>2, <1>9, ViewTurns DEF Giving
    <2>2. v = [reserved |-> old.reserved - s.by, sold |-> old.sold + s.by]
      BY <1>6, <1>9 DEF Written
    <2>3. old.reserved >= s.by
      BY <1>9 DEF Matches
    <2> HIDE DEF old
    <2>4. TierWhole([reserved |-> old.reserved - s.by, sold |-> old.sold + s.by], t, H \ {s.order}, P \cup {s.order})
      BY <1>3, <1>4, <2>1, TierTurns
    <2>5. v \in [reserved : Nat, sold : Nat]
      BY <1>5, <2>2, <2>3
    <2> QED
      BY <1>1, <2>1, <2>2, <2>4, <2>5
  <1> QED
    BY <1>7, <1>8, <1>9

LEMMA ChairWritten ==
  ASSUME TillAssumption, Shapes, CommittedWhole, NEW k \in Connections, Sound(k), NEW s \in Firsts(k),
         s.does \in {"claim", "free", "commit"}, Free(k, s), Matches(s, row[s.row]), NEW c \in Chairs, s.row = ChairRow(c),
         NEW v, v = Written(s, row[s.row]), Goes(k, s, v)
  PROVE  v \in [by : Orders \cup {Nobody}, sold : BOOLEAN] /\ ChairWhole(v, HoldingFor(k, s.row)', OwningFor(k, s.row)')
  <1> DEFINE old == row[s.row]
  <1>1. PICK H, P, Q, S : /\ H = HoldingFor(k, s.row) /\ P = OwningFor(k, s.row)
                          /\ Q = HoldingFor(k, s.row)' /\ S = OwningFor(k, s.row)'
    OBVIOUS
  <1>2. s \in tx[k].todo /\ s.does # "look" /\ s.order \in Orders
    <2>1. s \in tx[k].todo /\ s.does # "look"
      BY DEF Firsts
    <2> QED
      BY <2>1, StatementForm
  <1>3. s.does = "claim" => old.by = Nobody /\ TierOf[s.row[2]] = s.by
    BY DEF Matches
  <1>4. H \subseteq Orders /\ P \subseteq Orders /\ ChairWhole(old, H, P)
    BY <1>1, ViewOf DEF HoldingFor, OwningFor, Free
  <1>5. old \in [by : Orders \cup {Nobody}, sold : BOOLEAN]
    BY DEF Shapes, RowShapes
  <1>6. old = [by |-> old.by, sold |-> old.sold] /\ old.sold \in BOOLEAN
    BY <1>5
  <1>7. CASE s.does = "claim"
    <2>1. Q = H \cup {s.order} /\ S = P
      BY <1>1, <1>2, <1>3, <1>7, ViewTurns DEF Taking
    <2>2. v = [by |-> s.order, sold |-> old.sold]
      BY <1>6, <1>7 DEF Written
    <2> HIDE DEF old
    <2>3. ChairWhole(v, H \cup {s.order}, P)
      BY <1>2, <1>3, <1>4, <1>6, <1>7, <2>2, ChairTaken
    <2> QED
      BY <1>1, <1>2, <1>6, <2>1, <2>2, <2>3
  <1>8. CASE s.does \in {"free", "commit"}
    <2>1. /\ s.order \in H /\ s.order \notin P /\ Q = H \ {s.order}
          /\ S = P \cup (IF s.does = "commit" THEN {s.order} ELSE {})
      BY <1>1, <1>2, <1>8, ViewTurns DEF Giving
    <2> HIDE DEF old
    <2>2. old.by = s.order /\ old.sold = FALSE /\ H = {s.order} /\ P = {}
      <3>1. old.by = s.order /\ ~old.sold /\ H = {s.order} /\ P = {}
        BY <1>4, <2>1, ChairGiven
      <3> QED
        BY <1>6, <3>1
    <2>3. v = Written(s, [by |-> s.order, sold |-> FALSE])
      BY <1>6, <2>2 DEF old
    <2>4. s.order # Nobody
      BY <1>2 DEF TillAssumption
    <2>5. CASE s.does = "free"
      <3>1. v = [by |-> Nobody, sold |-> FALSE]
        BY <2>3, <2>5 DEF Written
      <3> QED
        BY <1>1, <2>1, <2>2, <2>5, <3>1 DEF ChairWhole
    <2>6. CASE s.does = "commit"
      <3>1. v = [by |-> s.order, sold |-> TRUE]
        BY <2>3, <2>6 DEF Written
      <3> QED
        BY <1>1, <1>2, <2>1, <2>2, <2>4, <2>6, <3>1 DEF ChairWhole
    <2> QED
      BY <1>8, <2>5, <2>6
  <1> QED
    BY <1>7, <1>8

LEMMA StepGoes ==
  ASSUME TillAssumption, TillInv, NEW k \in Connections, NEW s \in Firsts(k), s.does # "look", Free(k, s),
         NEW v, NEW todo, todo = tx[k].todo \ {s}, Take(k, s.row, v, todo)
  PROVE  /\ Goes(k, s, v) /\ (RowShapes(row') => Shapes') /\ DOMAIN row' = Rows
         /\ s \in tx[k].todo /\ Sound(k) /\ Shapes /\ CommittedWhole /\ s.row \in Rows /\ tx[k].kind # "idle"
         /\ \A i \in Connections \ {k} : tx'[i] = tx[i]
  <1>1. s \in tx[k].todo /\ Sound(k) /\ Shapes /\ CommittedWhole
    BY DEF Firsts, TillInv
  <1>2. s.row \in Rows
    BY <1>1, StatementForm
  <1>3. ~Idle(k)
    BY <1>1 DEF Sound, Working, Idle, Starts, Looks, Works
  <1>4. locks[s.row] \in {Nobody, k}
    BY DEF Free
  <1>5. /\ committed' = committed /\ row'[s.row] = v /\ locks'[s.row] = k /\ DOMAIN row' = Rows
        /\ \A x \in Rows \ {s.row} : row'[x] = row[x] /\ locks'[x] = locks[x]
        /\ tx'[k].kind = tx[k].kind /\ tx'[k].order = tx[k].order /\ tx'[k].scan = tx[k].scan /\ tx'[k].todo = todo
        /\ \A i \in Connections \ {k} : tx'[i] = tx[i]
        /\ RowShapes(row') => Shapes'
    BY <1>2, <1>3, <1>4, TakeSays
  <1> QED
    BY <1>1, <1>2, <1>3, <1>5 DEF Goes, Idle

(* An order is inserted when everything is taken.                          *)
LEMMA InsertLast ==
  ASSUME TillAssumption, NEW k \in Connections, Sound(k), NEW s \in Firsts(k), s.does = "insert"
  PROVE  /\ s = Inserting(s.order) /\ tx[k].kind = "start" /\ Starts(k) /\ s.order = tx[k].order /\ s.order \in Orders
         /\ tx[k].todo = {s} /\ Proper(s.order)
  <1>1. s \in tx[k].todo
    BY DEF Firsts
  <1>2. s = Inserting(s.order) /\ tx[k].kind = "start" /\ s.order \in Orders
    BY <1>1, StatementForm
  <1>3. Starts(k) /\ s.order = tx[k].order
    BY <1>1, <1>2, StatementIs
  <1>4. s.turn[1] = 2
    BY <1>2, OwnRowSays
  <1>5. ASSUME NEW u \in tx[k].todo, u # s PROVE FALSE
    <2>1. u.does # "look"
      <3>1. u \in Basket(tx[k].order, Bought(tx[k].order), tx[k].scan)
        BY <1>3, <1>5 DEF Starts
      <3>2. \/ u = Counting(s.order) \/ u = Inserting(s.order)
            \/ Claiming(u, s.order, tx[k].scan) \/ OnTier(u, "reserve", s.order, 1)
        BY <1>3, <3>1, StatementSets
      <3>3. OnTier(u, "reserve", s.order, 1) => u.does = "reserve"
        BY <1>2, OnTierSays
      <3>4. Claiming(u, s.order, tx[k].scan) => u.does = "claim"
        BY <1>2, ClaimingSays
      <3> QED
        BY <1>2, <3>2, <3>3, <3>4, OwnRowSays
    <2>2. u.order = s.order
      BY <1>2, <1>3, <2>1, StatementIs
    <2>3. u.turn[1] \in {0, 1}
      BY <1>2, <1>5, <2>1, <2>2, RoundOf
    <2> QED
      BY <1>4, <1>5, <2>3, FirstFirst
  <1>6. Proper(s.order)
    <2>1. ASSUME NEW l \in Bought(s.order), NEW c \in l.chairs, TierOf[c] # l.tier PROVE FALSE
      <3>1. Do("claim", ChairRow(c), l.tier, s.order, <<1, l.tier, tx[k].scan[c]>>) \in tx[k].todo
        BY <1>3, <2>1 DEF Starts
      <3>2. Do("claim", ChairRow(c), l.tier, s.order, <<1, l.tier, tx[k].scan[c]>>).does = "claim"
        BY StatementParts
      <3> QED
        BY <1>5, <3>1, <3>2
    <2> QED
      BY <2>1 DEF Proper
  <1> QED
    BY <1>1, <1>2, <1>3, <1>5, <1>6

LEMMA StepActs ==
  ASSUME TillAssumption, TillInv, NEW k \in Connections, NEW s \in Firsts(k), s.does # "look", Free(k, s),
         NEW v, Goes(k, s, v), \A i \in Connections \ {k} : tx'[i] = tx[i]
  PROVE  Acts(k)
  <1>1. s \in tx[k].todo /\ Sound(k) /\ locks \in [Rows -> Connections \cup {Nobody}]
    BY DEF Firsts, TillInv, Shapes
  <1>2. \A r \in Rows : IF locks[r] \in {Nobody, k} THEN locks'[r] \in {Nobody, k}
                        ELSE locks'[r] = locks[r] /\ row'[r] = row[r]
    BY DEF Goes, Free
  <1>3. ASSUME NEW o \in Orders, locks'[OrderRow(o)] = k, locks[OrderRow(o)] # k
        PROVE  tx[k].kind = "start" /\ tx[k].order = o
    <2>1. OrderRow(o) = s.row
      BY <1>3, RowsApart DEF Goes
    <2>2. s.row \notin ChairRows /\ ~ \E t \in Tiers : s.row = TierRow(t)
      BY <2>1, RowsApart DEF ChairRows
    <2>3. s.order \in Orders /\ (s = Counting(s.order) \/ s = Inserting(s.order)) /\ tx[k].kind = "start"
      BY <1>1, <2>2, StatementForm
    <2>4. s.row = BuyerRow(BuyerOf[s.order]) \/ s.row = OrderRow(s.order)
      BY <2>3, OwnRowSays
    <2>5. s.order = o
      <3>1. OrderRow(o) # BuyerRow(BuyerOf[s.order])
        BY DEF OrderRow, BuyerRow
      <3>2. OrderRow(o) = OrderRow(s.order)
        BY <2>1, <2>4, <3>1
      <3> QED
        BY <3>2 DEF OrderRow
    <2> QED
      BY <1>1, <2>3, <2>5, StatementIs
  <1> QED
    BY <1>2, <1>3 DEF Acts, Goes

(* The rows keep their columns, and the view is right again.               *)
LEMMA StepRows ==
  ASSUME TillAssumption, TillInv, NEW k \in Connections, NEW s \in Firsts(k), s.does # "look", Free(k, s),
         Matches(s, row[s.row]), NEW v, v = Written(s, row[s.row]), Goes(k, s, v), DOMAIN row' = Rows
  PROVE  RowShapes(row') /\ ViewWhole(k)'
  <1>1. s \in tx[k].todo /\ Sound(k) /\ Shapes /\ CommittedWhole /\ RowShapes(row)
    BY DEF Firsts, TillInv, Shapes
  <1>2. /\ s.order \in Orders
        /\ \/ s = Counting(s.order) /\ s.does = "count"
           \/ s = Inserting(s.order) /\ s.does = "insert"
           \/ s.does \in {"claim", "free", "commit"} /\ s.row \in ChairRows
           \/ s.does \in {"reserve", "sell", "release"} /\ \E t \in Tiers : s.row = TierRow(t)
    BY <1>1, StatementForm
  <1>3. /\ s = Counting(s.order) => s.row = BuyerRow(BuyerOf[s.order])
        /\ s = Inserting(s.order) => s.row = OrderRow(s.order)
    BY <1>2, OwnRowSays, SMTT(30)
  <1>4. ASSUME NEW o \in Orders PROVE OrderShape(row'[OrderRow(o)], o)
    <2>1. CASE s.row = OrderRow(o)
      <3>1. s.does = "insert" /\ s.order = o
        BY <1>2, <1>3, <2>1, RowsApart DEF ChairRows
      <3>2. Proper(o)
        BY <1>1, <3>1, InsertLast
      <3>3. v = [status |-> "pending_payment", lines |-> Bought(o)]
        BY <3>1 DEF Written, Bought
      <3>4. OrderShape(v, o)
        BY <3>2, <3>3 DEF OrderShape, Statuses
      <3> QED
        BY <2>1, <3>4 DEF Goes
    <2>2. CASE s.row # OrderRow(o)
      BY <1>1, <2>2, RowsApart DEF Goes, RowShapes
    <2> QED
      BY <2>1, <2>2
  <1>5. ASSUME NEW t \in Tiers, s.row = TierRow(t)
        PROVE  /\ row'[TierRow(t)] \in [reserved : Nat, sold : Nat]
               /\ TierWhole(row'[TierRow(t)], t, HoldingFor(k, TierRow(t))', OwningFor(k, TierRow(t))')
    <2>1. s.does \in {"reserve", "sell", "release"}
      BY <1>2, <1>3, <1>5, RowsApart DEF ChairRows
    <2>2. v \in [reserved : Nat, sold : Nat] /\ TierWhole(v, t, HoldingFor(k, s.row)', OwningFor(k, s.row)')
      BY <1>1, <1>5, <2>1, TierWritten
    <2> QED
      BY <1>5, <2>2 DEF Goes
  <1>6. ASSUME NEW c \in Chairs, s.row = ChairRow(c)
        PROVE  /\ row'[ChairRow(c)] \in [by : Orders \cup {Nobody}, sold : BOOLEAN]
               /\ ChairWhole(row'[ChairRow(c)], HoldingFor(k, ChairRow(c))', OwningFor(k, ChairRow(c))')
    <2>1. s.does \in {"claim", "free", "commit"}
      BY <1>2, <1>3, <1>6, RowsApart
    <2>2. v \in [by : Orders \cup {Nobody}, sold : BOOLEAN] /\ ChairWhole(v, HoldingFor(k, s.row)', OwningFor(k, s.row)')
      BY <1>1, <1>6, <2>1, ChairWritten
    <2> QED
      BY <1>6, <2>2 DEF Goes
  <1>7. RowShapes(row')
    <2>1. ASSUME NEW t \in Tiers PROVE row'[TierRow(t)] \in [reserved : Nat, sold : Nat]
      <3>1. CASE s.row # TierRow(t)
        BY <1>1, <3>1, RowsApart DEF Goes, RowShapes
      <3> QED
        BY <1>5, <3>1
    <2>2. ASSUME NEW c \in Chairs PROVE row'[ChairRow(c)] \in [by : Orders \cup {Nobody}, sold : BOOLEAN]
      <3>1. CASE s.row # ChairRow(c)
        <4>1. row'[ChairRow(c)] = row[ChairRow(c)]
          BY <3>1, RowsApart DEF Goes
        <4> QED
          BY <1>1, <4>1 DEF RowShapes
      <3> QED
        BY <1>6, <3>1
    <2> QED
      BY <1>4, <2>1, <2>2 DEF RowShapes
  <1>8. \A r : r # s.row => HoldingFor(k, r)' = HoldingFor(k, r) /\ OwningFor(k, r)' = OwningFor(k, r)
    <2>1. s.does = "claim" => TierOf[s.row[2]] = s.by
      BY DEF Matches
    <2> QED
      BY <1>1, <2>1, ViewTurns
  <1>9. ViewWhole(k)'
    <2>1. ASSUME NEW t \in Tiers, locks'[TierRow(t)] = k, s.row # TierRow(t)
          PROVE  TierWhole(row'[TierRow(t)], t, HoldingFor(k, TierRow(t))', OwningFor(k, TierRow(t))')
      <3>1. locks[TierRow(t)] = k /\ row'[TierRow(t)] = row[TierRow(t)]
        BY <2>1, RowsApart DEF Goes
      <3> QED
        BY <1>1, <1>8, <2>1, <3>1 DEF Sound, ViewWhole
    <2>2. ASSUME NEW c \in Chairs, locks'[ChairRow(c)] = k, s.row # ChairRow(c)
          PROVE  ChairWhole(row'[ChairRow(c)], HoldingFor(k, ChairRow(c))', OwningFor(k, ChairRow(c))')
      <3>1. locks[ChairRow(c)] = k /\ row'[ChairRow(c)] = row[ChairRow(c)]
        BY <2>2, RowsApart DEF Goes
      <3> QED
        BY <1>1, <1>8, <2>2, <3>1 DEF Sound, ViewWhole
    <2> QED
      BY <1>5, <1>6, <2>1, <2>2 DEF ViewWhole, TierWhole, ChairWhole
  <1> QED
    BY <1>7, <1>9

LEMMA AllWork ==
  ASSUME TillAssumption, NEW k \in Connections, Sound(k), NEW s \in tx[k].todo, s.does # "look", NEW u \in tx[k].todo
  PROVE  u.does # "look"
  <1>1. CASE tx[k].kind = "start" /\ Starts(k)
    <2> DEFINE o == tx[k].order
    <2>1. u \in Basket(o, Bought(o), tx[k].scan) /\ o \in Orders
      BY <1>1 DEF Starts
    <2>2. \/ u = Counting(o) \/ u = Inserting(o)
          \/ Claiming(u, o, tx[k].scan) \/ OnTier(u, "reserve", o, 1)
      BY <2>1, StatementSets
    <2>3. OnTier(u, "reserve", o, 1) => u.does = "reserve"
      BY <2>1, OnTierSays
    <2>4. Claiming(u, o, tx[k].scan) => u.does = "claim"
      BY <2>1, ClaimingSays
    <2> QED
      BY <2>1, <2>2, <2>3, <2>4, OwnRowSays
  <1>2. CASE Works(k)
    <2>1. Statement(k, u)
      BY <1>2 DEF Works
    <2>2. PICK n : u.order \in Orders /\ Doing(u, u.order, tx[k].scan, n)
      BY <2>1, WorkSays DEF Doing
    <2> QED
      BY <2>2, DoingSays
  <1> QED
    BY <1>1, <1>2, StatementIs

LEMMA OwnOrder ==
  ASSUME TillAssumption, NEW k \in Connections, Sound(k), NEW s \in tx[k].todo, s.does # "look", tx[k].kind # "sweep"
  PROVE  s.order = tx[k].order
  <1>1. s.order \in Orders /\ InHand(k, s.order)
    BY StatementForm
  <1>2. CASE Works(k) /\ tx[k].kind # "start"
    <2>1. locks[OrderRow(s.order)] = k
      BY <1>1, <1>2 DEF InHand
    <2> QED
      BY <1>1, <1>2, <2>1 DEF Works, Moving
  <1> QED
    BY <1>2, StatementIs

(* Whose turn it is, is ahead of what is still to be locked.               *)
LEMMA StepOrder ==
  ASSUME TillAssumption, NEW k \in Connections, Sound(k), NEW s \in Firsts(k), s.does # "look", NEW v, Goes(k, s, v)
  PROVE  InOrder(k)'
  <1> SUFFICES ASSUME tx[k].kind # "sweep", NEW u \in tx[k].todo \ {s}, NEW t \in Tiers, NEW e \in Tiers,
                      u.row = TierRow(e), locks'[TierRow(e)] # k, locks'[TierRow(t)] = k
               PROVE  t < e
    BY DEF InOrder, Goes
  <1>1. s \in tx[k].todo /\ t \in Int /\ e \in Int
    BY DEF Firsts, TillAssumption
  <1>2. TierRow(e) # s.row /\ locks[TierRow(e)] # k
    BY RowsApart DEF Goes
  <1>3. CASE TierRow(t) # s.row
    BY <1>1, <1>2, <1>3, RowsApart DEF Sound, InOrder, Goes
  <1>4. CASE TierRow(t) = s.row
    <2>1. u.does # "look"
      BY <1>1, AllWork
    <2>2. ASSUME NEW a \in tx[k].todo, a.does # "look", NEW d \in Tiers, a.row = TierRow(d)
          PROVE  a.does \in {"reserve", "sell", "release"} /\ a.turn[2] = d
      <3>1. a.order \in Orders /\ a.row \notin ChairRows
        BY <2>2, StatementForm, RowsApart DEF ChairRows
      <3>2. a # Counting(a.order) /\ a # Inserting(a.order)
        BY <2>2, <3>1, OwnRowSays, RowsApart, SMTT(30)
      <3> QED
        BY <2>2, <3>1, <3>2, StatementForm, RowsApart
    <2>3. s.turn[2] = t /\ u.turn[2] = e /\ t # e
      BY <1>1, <1>2, <1>4, <2>1, <2>2
    <2>4. s.does \in {"reserve", "sell", "release"} /\ u.does \in {"reserve", "sell", "release"}
      BY <1>1, <1>4, <2>1, <2>2
    <2>5. CASE s.turn[1] = u.turn[1] /\ s.turn[1] \in Nat
      BY <1>1, <2>3, <2>5, FirstFirst
    <2>6. CASE tx[k].kind = "start"
      <3>1. s.order \in Orders /\ u.order \in Orders
        BY <1>1, <2>1, StatementForm
      <3>2. s # Counting(s.order) /\ s # Inserting(s.order) /\ u # Counting(u.order) /\ u # Inserting(u.order)
        BY <2>4, <3>1, OwnRowSays
      <3> QED
        BY <1>1, <2>1, <2>5, <2>6, <3>2, RoundOf
    <2>7. CASE tx[k].kind = "pay"
      <3>1. s.turn[1] = (IF s.does = "reserve" THEN 2 ELSE 3) /\ u.turn[1] = (IF u.does = "reserve" THEN 2 ELSE 3)
        BY <1>1, <2>1, <2>4, <2>7, RoundOf
      <3>2. CASE s.does = u.does
        BY <2>5, <3>1, <3>2
      <3>3. CASE s.does # "reserve" /\ u.does = "reserve"
        BY <3>1, <3>3, FirstFirst
      <3>4. CASE s.does = "reserve" /\ u.does # "reserve"
        <4>1. u.does = "sell" /\ s.order = u.order /\ Status(s.order) # "pending_payment"
          <5>1. s.order = u.order
            BY <1>1, <2>1, <2>7, OwnOrder
          <5>2. Status(s.order) # "pending_payment"
            BY <1>1, <2>7, <3>4, RoundOf DEF Taking
          <5>3. u.does = "sell"
            BY <2>1, <2>4, <2>7, <3>4, RoundOf
          <5> QED
            BY <5>1, <5>2, <5>3
        <4>2. TakesFirst(k)
          BY <1>1, <2>7, StatementIs DEF Works
        <4>3. Left(k, {"reserve"}, u.row, u.order)
          BY <1>2, <4>1, <4>2 DEF TakesFirst
        <4>4. PICK w \in tx[k].todo : w.does = "reserve" /\ w.row = u.row
          BY <4>3 DEF Left
        <4>5. w # s /\ w.does # "look" /\ w.turn[1] = 2 /\ w.turn[2] = e
          <5>1. w # s /\ w.does # "look"
            BY <1>2, <4>4
          <5>2. w.turn[1] = 2
            BY <2>7, <4>4, <5>1, RoundOf
          <5> QED
            BY <2>2, <4>4, <5>1, <5>2
        <4> QED
          BY <1>1, <2>3, <3>1, <3>4, <4>5, FirstFirst
      <3> QED
        BY <2>4, <3>1, <3>2, <3>3, <3>4, <2>5
    <2>8. CASE tx[k].kind \notin {"start", "pay"}
      <3>1. s.does = "release" /\ u.does = "release"
        BY <1>1, <2>1, <2>4, <2>8, RoundOf
      <3> QED
        BY <1>1, <2>1, <2>5, <2>8, <3>1, RoundOf
    <2> QED
      BY <2>6, <2>7, <2>8
  <1> QED
    BY <1>3, <1>4

LEMMA StepOthers ==
  ASSUME TillAssumption, NEW k \in Connections, Sound(k), NEW s \in Firsts(k), s.does # "look", NEW v, Goes(k, s, v)
  PROVE  Once(k)' /\ Untouched(k)'
  <1>1. s \in tx[k].todo
    BY DEF Firsts
  <1>2. Once(k)'
    BY DEF Sound, Once, Goes
  <1>3. Untouched(k)'
    <2>1. ASSUME NEW o \in Orders, NEW r \in TierRows \cup ChairRows, locks'[r] # k
          PROVE  (Held(k, o, r)' <=> Has(o, "pending_payment", r)') /\ (Owned(k, o, r)' <=> Has(o, "paid", r)')
      <3>1. r \in Rows /\ r # s.row
        BY <2>1 DEF Goes, Rows
      <3>2. locks[r] # k
        BY <2>1, <3>1 DEF Goes
      <3>3. (Held(k, o, r)' <=> Held(k, o, r)) /\ (Owned(k, o, r)' <=> Owned(k, o, r))
        BY <1>1, <3>1, StepSame
      <3>4. (Held(k, o, r) <=> Has(o, "pending_payment", r)) /\ (Owned(k, o, r) <=> Has(o, "paid", r))
        BY <3>2 DEF Sound, Untouched
      <3>5. \A status : Has(o, status, r)' <=> Has(o, status, r)
        BY CommittedStays DEF Goes
      <3> QED
        BY <3>3, <3>4, <3>5
    <2> QED
      BY <2>1 DEF Untouched
  <1> QED
    BY <1>2, <1>3

(* A checkout goes on.                                                     *)
LEMMA StepStarts ==
  ASSUME TillAssumption, NEW k \in Connections, Sound(k), Starts(k), tx[k].kind = "start",
         NEW s \in Firsts(k), s.does # "look", Free(k, s), Matches(s, row[s.row]), NEW v, v = Written(s, row[s.row]),
         Goes(k, s, v), \A i \in Connections \ {k} : tx'[i] = tx[i], Acts(k)
  PROVE  Starts(k)'
  <1>1. PICK o, todo : o = tx[k].order /\ todo = tx[k].todo
    OBVIOUS
  <1>2. tx'[k].order = o /\ tx'[k].scan = tx[k].scan /\ tx'[k].todo = todo \ {s} /\ s \in todo /\ s.order = o /\ o \in Orders
    <2>1. s \in todo
      BY <1>1 DEF Firsts
    <2>2. s.order = o /\ o \in Orders
      BY <1>1, <2>1, OwnOrder DEF Starts
    <2> QED
      BY <1>1, <2>1, <2>2 DEF Goes
  <1>3. OrderRow(o) \in Rows /\ BuyerRow(BuyerOf[o]) \in Rows
    BY <1>2, RowsApart
  <1>4. /\ s.turn[1] \in {0, 1, 2} /\ (s.turn[1] = 0 => s = Counting(o)) /\ (s.turn[1] = 2 => s = Inserting(o))
        /\ s = Counting(o) => s.turn[1] = 0 /\ s.row = BuyerRow(BuyerOf[o]) /\ s.does = "count"
        /\ s = Inserting(o) => s.turn[1] = 2 /\ s.row = OrderRow(o) /\ s.does = "insert"
        /\ Counting(o).turn[1] = 0
    <2>1. \/ s = Counting(o) /\ s.turn[1] = 0
          \/ s.turn[1] = 1
          \/ s = Inserting(o) /\ s.turn[1] = 2
      BY <1>1, <1>2, RoundOf
    <2> QED
      BY <1>2, <2>1, OwnRowSays
  <1>5. Status(o)' = "none" /\ (Allows(o, Bought(o))' <=> Allows(o, Bought(o)))
    BY <1>1, CommittedStays DEF Goes, Starts
  <1>6. locks'[OrderRow(o)] \in {Nobody, k}
    BY <1>1, <1>3 DEF Acts, Starts
  <1>7. \A j \in Connections \ {k} : ~(tx'[j].kind = "start" /\ tx'[j].order = o)
    BY <1>1 DEF Starts
  <1>8. \A p \in Orders : locks'[OrderRow(p)] = k => p = o
    <2> SUFFICES ASSUME NEW p \in Orders, locks'[OrderRow(p)] = k, p # o PROVE FALSE
      OBVIOUS
    <2>1. OrderRow(p) = s.row
      BY <1>1, RowsApart DEF Goes, Starts
    <2>2. s.row \notin ChairRows /\ ~ \E t \in Tiers : s.row = TierRow(t)
      BY <2>1, RowsApart DEF ChairRows
    <2>3. s = Counting(o) \/ s = Inserting(o)
      BY <1>1, <1>2, <2>2, StatementForm
    <2>4. OrderRow(p) # BuyerRow(BuyerOf[o]) /\ OrderRow(p) # OrderRow(o)
      BY DEF OrderRow, BuyerRow
    <2> QED
      BY <1>4, <2>1, <2>3, <2>4
  <1>9. IF todo \ {s} = {} THEN locks'[OrderRow(o)] = k /\ Stands(o)' = "pending_payment"
        ELSE Inserting(o) \in todo \ {s} /\ locks'[OrderRow(o)] # k
    <2>1. CASE s = Inserting(o)
      <3>1. todo = {s} /\ s.row = OrderRow(o)
        BY <1>1, <1>4, <2>1, InsertLast, SMTT(30)
      <3>2. v.status = "pending_payment"
        BY <1>4, <2>1 DEF Written
      <3> QED
        BY <3>1, <3>2, SMTT(30) DEF Goes, Stands
    <2>2. CASE s # Inserting(o)
      <3>1. Inserting(o) \in todo \ {s} /\ locks[OrderRow(o)] # k
        BY <1>1, <1>2, <2>2 DEF Starts
      <3>2. s.row # OrderRow(o)
        <4>1. OrderRow(o) # BuyerRow(BuyerOf[o]) /\ OrderRow(o) \notin ChairRows /\ ~ \E t \in Tiers : OrderRow(o) = TierRow(t)
          BY DEF ChairRows, OrderRow, BuyerRow, ChairRow, TierRow
        <4>2. \/ s = Counting(o) \/ s.row \in ChairRows \/ \E t \in Tiers : s.row = TierRow(t)
          BY <1>1, <1>2, <2>2, StatementForm
        <4> QED
          BY <1>4, <4>1, <4>2
      <3> QED
        BY <1>3, <3>1, <3>2 DEF Goes
    <2> QED
      BY <2>1, <2>2
  <1>10. IF Counting(o) \in todo \ {s} THEN LocksNothing(k)'
         ELSE locks'[BuyerRow(BuyerOf[o])] = k /\ Allows(o, Bought(o))'
    <2>1. Counting(o) \notin todo \ {s}
      BY <1>1, <1>4, FirstFirst
    <2>2. CASE s = Counting(o)
      BY <1>2, <1>4, <1>5, <2>1, <2>2 DEF Matches, Bought, Goes
    <2>3. CASE s # Counting(o)
      <3>1. locks[BuyerRow(BuyerOf[o])] = k /\ Allows(o, Bought(o))
        BY <1>1, <2>1, <2>3 DEF Starts
      <3> QED
        BY <1>3, <1>5, <2>1, <3>1 DEF Goes
    <2> QED
      BY <2>2, <2>3
  <1>11. ASSUME NEW l \in Bought(o), NEW c \in l.chairs, TierOf[c] # l.tier
         PROVE  Do("claim", ChairRow(c), l.tier, o, <<1, l.tier, tx[k].scan[c]>>) \in todo \ {s}
    <2> DEFINE u == Do("claim", ChairRow(c), l.tier, o, <<1, l.tier, tx[k].scan[c]>>)
    <2>1. u \in todo
      BY <1>1, <1>11 DEF Starts
    <2>2. u.does = "claim" /\ u.row[2] = c /\ u.by = l.tier
      BY StatementParts DEF ChairRow
    <2>3. s.does = "claim" => TierOf[s.row[2]] = s.by
      BY DEF Matches
    <2> QED
      BY <1>11, <2>1, <2>2, <2>3
  <1>12. todo \ {s} \subseteq Basket(o, Bought(o), tx[k].scan)
    BY <1>1 DEF Starts
  <1> QED
    BY <1>2, <1>5, <1>6, <1>7, <1>8, <1>9, <1>10, <1>11, <1>12 DEF Starts

(* And so does the rest.                                                   *)
LEMMA StepWorks ==
  ASSUME TillAssumption, NEW k \in Connections, Sound(k), Works(k), tx[k].kind # "start",
         NEW s \in Firsts(k), s.does # "look", NEW v, Goes(k, s, v)
  PROVE  Works(k)'
  <1>1. s \in tx[k].todo /\ s.row \in Rows
    <2>1. s \in tx[k].todo
      BY DEF Firsts
    <2> QED
      BY <2>1, StatementForm
  <1>2. tx'[k].kind = tx[k].kind /\ tx'[k].order = tx[k].order /\ tx'[k].scan = tx[k].scan /\ tx'[k].todo = tx[k].todo \ {s}
    BY DEF Goes
  <1>3. \A o : Status(o)' = Status(o)
    BY CommittedStays DEF Goes
  <1>4. ASSUME NEW o \in Orders, locks'[OrderRow(o)] = k PROVE Moving(k, o)'
    <2>1. locks[OrderRow(o)] = k /\ Stands(o)' = Stands(o)
      BY <1>1, <1>4, StepSame
    <2>2. Moving(k, o)
      BY <2>1 DEF Works
    <2> QED
      BY <1>1, <1>2, <1>3, <2>1, <2>2 DEF Moving
  <1>5. ASSUME NEW u \in tx[k].todo PROVE Statement(k, u)'
    <2>1. Statement(k, u) /\ u.order \in Orders
      BY DEF Works, Statement
    <2>2. InHand(k, u.order)'
      BY <1>1, <2>1, StepSame DEF Statement
    <2> QED
      BY <1>2, <1>3, <2>1, <2>2 DEF Statement
  <1>6. ASSUME tx[k].kind = "pay" PROVE TakesFirst(k)'
    <2>1. TakesFirst(k)
      BY <1>6 DEF Works
    <2>2. ASSUME NEW u \in tx[k].todo \ {s}, u.does \in Taking
          PROVE  Left(k, Giving, u.row, u.order)'
      <3>1. Left(k, Giving, u.row, u.order) /\ u.does # "look"
        BY <2>1, <2>2 DEF TakesFirst, Taking
      <3>2. s.does \notin Giving
        <4>1. u.turn[1] \in {1, 2}
          BY <1>6, <2>2, <3>1, RoundOf DEF Taking
        <4>2. s.does \in Giving => s.turn[1] \in {3, 4}
          BY <1>1, <1>6, RoundOf DEF Giving
        <4> QED
          BY <2>2, <4>1, <4>2, FirstFirst
      <3> QED
        BY <3>1, <3>2, StepLeft
    <2>3. ASSUME NEW u \in tx[k].todo \ {s}, u.does = "sell", Status(u.order) # "pending_payment"
          PROVE  Left(k, {"reserve"}, u.row, u.order)' \/ locks'[u.row] = k
      <3>1. Left(k, {"reserve"}, u.row, u.order) \/ locks[u.row] = k
        BY <2>1, <2>3 DEF TakesFirst
      <3>2. u.row \in Rows
        BY <2>3, StatementForm
      <3>3. CASE u.row = s.row
        BY <3>3 DEF Goes
      <3>4. CASE u.row # s.row
        BY <3>1, <3>2, <3>4, StepLeft DEF Goes
      <3> QED
        BY <3>3, <3>4
    <2> QED
      BY <1>2, <1>3, <2>2, <2>3 DEF TakesFirst
  <1> QED
    BY <1>2, <1>4, <1>5, <1>6 DEF Works

LEMMA StepStep ==
  ASSUME TillAssumption, TillInv, NEW k \in Connections, Step(k)
  PROVE  TillInv'
  <1>1. PICK s \in Firsts(k) :
           s.does # "look" /\ Free(k, s) /\ Matches(s, row[s.row]) /\ Take(k, s.row, Written(s, row[s.row]), tx[k].todo \ {s})
    BY DEF Step
  <1>2. PICK v, todo : v = Written(s, row[s.row]) /\ todo = tx[k].todo \ {s} /\ Take(k, s.row, v, todo)
    BY <1>1
  <1>3. /\ Goes(k, s, v) /\ (RowShapes(row') => Shapes') /\ DOMAIN row' = Rows
        /\ s \in tx[k].todo /\ Sound(k) /\ Shapes /\ CommittedWhole
        /\ \A i \in Connections \ {k} : tx'[i] = tx[i]
    BY <1>1, <1>2, StepGoes
  <1>4. Acts(k)
    BY <1>1, <1>3, StepActs
  <1>5. RowShapes(row') /\ ViewWhole(k)'
    BY <1>1, <1>2, <1>3, StepRows
  <1>6. InOrder(k)' /\ Once(k)' /\ Untouched(k)'
    BY <1>1, <1>3, StepOrder, StepOthers
  <1>7. Working(k)'
    <2>1. tx'[k].kind = tx[k].kind
      BY <1>3 DEF Goes
    <2>2. CASE tx[k].kind = "start" /\ Starts(k)
      <3>1. Starts(k)'
        BY <1>1, <1>2, <1>3, <1>4, <2>2, StepStarts
      <3> QED
        BY <2>1, <2>2, <3>1 DEF Working
    <2>3. CASE tx[k].kind \in {"expire", "cancel", "pay", "sweep"} /\ Works(k)
      <3>1. Works(k)'
        BY <1>1, <1>3, <2>3, StepWorks
      <3> QED
        BY <2>1, <2>3, <3>1 DEF Working
    <2> QED
      BY <1>1, <1>3, <2>2, <2>3, StatementIs
  <1>8. Sound(k)'
    BY <1>5, <1>6, <1>7 DEF Sound
  <1>9. committed' = committed
    BY <1>3 DEF Goes
  <1> QED
    BY <1>3, <1>4, <1>5, <1>8, <1>9, OneMoves DEF TillInv

-----------------------------------------------------------------------------
(* A late payment that finds a row gone gives back what it took, and owes  *)
(* a refund.                                                               *)
LEMMA RefundStep ==
  ASSUME TillAssumption, TillInv, NEW k \in Connections, NEW s \in tx[k].todo, tx[k].kind = "pay",
         s.does \in Taking, UNCHANGED <<committed, locks>>,
         row' = [GivenBack(k) EXCEPT ![OrderRow(s.order)] = [row[OrderRow(s.order)] EXCEPT !.status = "refund_required"]],
         tx' = [tx EXCEPT ![k].todo = {}]
  PROVE  TillInv'
  <1>1. PICK o, old, new : /\ o = s.order /\ old = row[OrderRow(o)] /\ new = [old EXCEPT !.status = "refund_required"]
                           /\ row' = [GivenBack(k) EXCEPT ![OrderRow(o)] = new]
    OBVIOUS
  <1>2. Sound(k) /\ Shapes /\ RowShapes(row) /\ RowShapes(committed) /\ CommittedWhole /\ s.does # "look"
    BY DEF TillInv, Shapes, Taking
  <1>3. o \in Orders /\ InHand(k, o) /\ Works(k) /\ Status(o) # "pending_payment" /\ o = tx[k].order
    BY <1>1, <1>2, StatementForm, StatementIs, RoundOf, OwnOrder
  <1>4. locks[OrderRow(o)] = k /\ Stands(o) = "paid" /\ Status(o) \in {"expired", "cancelled"} /\ OrderRow(o) \in Rows
    <2>1. locks[OrderRow(o)] = k /\ Stands(o) # Status(o)
      BY <1>3 DEF InHand
    <2>2. Moving(k, o)
      BY <1>3, <2>1 DEF Works
    <2> QED
      BY <1>3, <2>1, <2>2, RowsApart DEF Moving
  <1>5. \A p \in Orders : locks[OrderRow(p)] = k => p = o
    BY <1>3 DEF Works, Moving
  <1>6. /\ DOMAIN row' = Rows /\ row'[OrderRow(o)] = new
        /\ \A r \in Rows \ {OrderRow(o)} : row'[r] = IF locks[r] = k THEN committed[r] ELSE row[r]
    BY <1>1, <1>4 DEF GivenBack
  <1>7. OrderShape(new, o) /\ new.status = "refund_required"
    <2>1. OrderShape(old, o) /\ old.status # "none"
      BY <1>1, <1>2, <1>3, <1>4 DEF RowShapes, Stands
    <2>2. "refund_required" \in Statuses \ {"none"}
      BY DEF Statuses
    <2> QED
      BY <1>1, <2>1, <2>2, StatusMoves
  <1>8. RowShapes(row')
    <2>1. ASSUME NEW p \in Orders PROVE OrderShape(row'[OrderRow(p)], p)
      <3>1. CASE p = o
        BY <1>6, <1>7, <3>1
      <3>2. CASE p # o
        <4>1. row'[OrderRow(p)] = committed[OrderRow(p)] \/ row'[OrderRow(p)] = row[OrderRow(p)]
          BY <1>6, <3>2, RowsApart
        <4> QED
          BY <1>2, <4>1 DEF RowShapes
      <3> QED
        BY <3>1, <3>2
    <2>2. ASSUME NEW r \in TierRows \cup ChairRows PROVE row'[r] = committed[r] \/ row'[r] = row[r]
      <3>1. r \in Rows \ {OrderRow(o)}
        BY <2>2, RowsApart DEF TierRows, ChairRows
      <3> QED
        BY <1>6, <3>1
    <2>3. ASSUME NEW t \in Tiers PROVE row'[TierRow(t)] \in [reserved : Nat, sold : Nat]
      <3>1. row'[TierRow(t)] = committed[TierRow(t)] \/ row'[TierRow(t)] = row[TierRow(t)]
        BY <2>2, RowsApart
      <3> QED
        BY <1>2, <3>1 DEF RowShapes
    <2>4. ASSUME NEW c \in Chairs PROVE row'[ChairRow(c)] \in [by : Orders \cup {Nobody}, sold : BOOLEAN]
      <3>1. row'[ChairRow(c)] = committed[ChairRow(c)] \/ row'[ChairRow(c)] = row[ChairRow(c)]
        BY <2>2, RowsApart
      <3>2. CASE row'[ChairRow(c)] = committed[ChairRow(c)]
        BY <1>2, <3>2 DEF RowShapes
      <3>3. CASE row'[ChairRow(c)] = row[ChairRow(c)]
        BY <1>2, <3>3 DEF RowShapes
      <3> QED
        BY <3>1, <3>2, <3>3
    <2> QED
      BY <1>6, <2>1, <2>3, <2>4 DEF RowShapes
  <1>9. /\ DOMAIN tx' = Connections /\ \A i \in Connections \ {k} : tx'[i] = tx[i]
        /\ tx'[k] = [kind |-> tx[k].kind, order |-> tx[k].order, todo |-> {}, scan |-> tx[k].scan]
    <2>1. DOMAIN tx = Connections /\ tx[k] = [kind |-> tx[k].kind, order |-> tx[k].order, todo |-> tx[k].todo, scan |-> tx[k].scan]
      BY <1>2 DEF Shapes
    <2>2. tx' = [tx EXCEPT ![k].todo = {}]
      OBVIOUS
    <2> QED
      BY ONLY <2>1, <2>2, k \in Connections
  <1>10. tx'[k].kind = "pay" /\ tx'[k].order = o /\ tx'[k].todo = {}
    BY <1>3, <1>9, SMTT(30)
  <1>11. Shapes'
    <2>1. ASSUME NEW r \in Rows
          PROVE  IF locks'[r] = Nobody THEN row'[r] = committed'[r] ELSE ~(tx'[locks'[r]].kind = "idle")
      <3>1. CASE locks[r] = Nobody
        <4>1. r # OrderRow(o) /\ k # Nobody
          BY <1>4, <3>1 DEF TillAssumption
        <4> QED
          BY <1>2, <1>6, <3>1, <4>1 DEF Shapes
      <3>2. CASE locks[r] = k
        BY <1>10, <3>2 DEF TillAssumption
      <3>3. CASE locks[r] # Nobody /\ locks[r] # k
        BY <1>2, <1>9, <3>3 DEF Shapes, Idle
      <3> QED
        BY <3>1, <3>2, <3>3
    <2>2. \A i \in Connections : tx'[i] = [kind |-> tx'[i].kind, order |-> tx'[i].order, todo |-> tx'[i].todo, scan |-> tx'[i].scan]
      BY <1>2, <1>9 DEF Shapes
    <2>3. RowShapes(committed') /\ locks' \in [Rows -> Connections \cup {Nobody}]
      BY <1>2 DEF Shapes
    <2> QED
      BY <1>8, <1>9, <2>1, <2>2, <2>3 DEF Shapes, RowShapes, OrderShape, Idle
  <1>12. Acts(k)
    <2>1. \A r \in Rows : locks[r] \notin {Nobody, k} => row'[r] = row[r]
      BY <1>4, <1>6
    <2> QED
      BY <1>9, <1>10, <2>1 DEF Acts
  <1>13. committed' = committed /\ Stands(o)' = "refund_required" /\ \A p : Status(p)' = Status(p)
    BY <1>6, <1>7, CommittedStays DEF Stands
  <1>14. ASSUME NEW p \in Orders, NEW r
         PROVE  (Held(k, p, r)' <=> Has(p, "pending_payment", r)') /\ (Owned(k, p, r)' <=> Has(p, "paid", r)')
    <2>1. ~Left(k, Giving, r, p)'
      BY <1>10 DEF Left
    <2>2. CASE p = o
      BY <1>4, <1>10, <1>13, <2>1, <2>2 DEF Held, Owned, Has, InHand
    <2>3. CASE p # o
      <3>1. ~InHand(k, p)'
        BY <1>5, <1>10, <2>3 DEF InHand
      <3> QED
        BY <3>1 DEF Held, Owned
    <2> QED
      BY <2>2, <2>3
  <1>15. ViewWhole(k)'
    <2>1. \A r : HoldingFor(k, r)' = Holding(r)' /\ OwningFor(k, r)' = Owning(r)'
      BY <1>14 DEF HoldingFor, OwningFor, Holding, Owning
    <2>2. CommittedWhole'
      BY <1>2, <1>13, CommittedStays
    <2>3. ASSUME NEW t \in Tiers, locks'[TierRow(t)] = k
          PROVE  TierWhole(row'[TierRow(t)], t, HoldingFor(k, TierRow(t))', OwningFor(k, TierRow(t))')
      <3>1. row'[TierRow(t)] = committed'[TierRow(t)]
        BY <1>6, <2>3, RowsApart
      <3> QED
        BY <2>1, <2>2, <3>1 DEF CommittedWhole
    <2>4. ASSUME NEW c \in Chairs, locks'[ChairRow(c)] = k
          PROVE  ChairWhole(row'[ChairRow(c)], HoldingFor(k, ChairRow(c))', OwningFor(k, ChairRow(c))')
      <3>1. row'[ChairRow(c)] = committed'[ChairRow(c)]
        BY <1>6, <2>4, RowsApart
      <3> QED
        BY <2>1, <2>2, <3>1 DEF CommittedWhole
    <2> QED
      BY <2>3, <2>4 DEF ViewWhole, TierWhole, ChairWhole
  <1>16. Works(k)'
    <2>1. Moving(k, o)'
      BY <1>4, <1>10, <1>13 DEF Moving
    <2> QED
      BY <1>5, <1>10, <2>1 DEF Works, TakesFirst
  <1>17. Sound(k)'
    <2>1. Working(k)'
      BY <1>10, <1>16 DEF Working
    <2>2. Once(k)' /\ InOrder(k)'
      BY <1>10 DEF Once, InOrder
    <2>3. Untouched(k)'
      BY <1>14 DEF Untouched
    <2> QED
      BY <1>15, <2>1, <2>2, <2>3 DEF Sound
  <1> QED
    BY <1>2, <1>11, <1>12, <1>13, <1>17, OneMoves DEF TillInv

LEMMA MissesStep ==
  ASSUME TillAssumption, TillInv, NEW k \in Connections, Misses(k)
  PROVE  TillInv'
  <1>1. PICK s \in Firsts(k) :
           IF tx[k].kind = "pay" /\ s.does \in {"claim", "reserve"}
           THEN /\ row' = [GivenBack(k) EXCEPT ![OrderRow(s.order)] = [row[OrderRow(s.order)] EXCEPT !.status = "refund_required"]]
                /\ tx' = [tx EXCEPT ![k].todo = {}]
                /\ UNCHANGED <<committed, locks>>
           ELSE Rollback(k)
    BY DEF Misses
  <1>2. CASE Rollback(k)
    BY <1>2, RollbackStep
  <1>3. CASE ~Rollback(k)
    <2>1. s \in tx[k].todo /\ tx[k].kind = "pay" /\ s.does \in Taking
      BY <1>1, <1>3 DEF Firsts, Taking
    <2> QED
      BY <1>1, <1>3, <2>1, RefundStep
  <1> QED
    BY <1>2, <1>3

-----------------------------------------------------------------------------
(* A transaction commits.                                                  *)
Commits(k) ==
    /\ tx'[k] = Resting /\ (\A i \in Connections \ {k} : tx'[i] = tx[i]) /\ row' = row
    /\ tx[k].todo = {} /\ tx[k].kind # "idle"
    /\ \A r \in Rows : /\ locks'[r] = IF locks[r] = k THEN Nobody ELSE locks[r]
                       /\ committed'[r] = IF locks[r] = k THEN row[r] ELSE committed[r]
    /\ \A o \in Orders : Stands(o)' = Stands(o) /\ Status(o)' = IF locks[OrderRow(o)] = k THEN Stands(o) ELSE Status(o)

LEMMA CommitSays ==
  ASSUME TillAssumption, TillInv, NEW k \in Connections, Commit(k)
  PROVE  Commits(k) /\ Shapes'
  <1>1. /\ row' = row /\ tx[k].todo = {} /\ tx[k].kind # "idle"
        /\ locks' = [r \in Rows |-> IF locks[r] = k THEN Nobody ELSE locks[r]]
        /\ committed' = [r \in Rows |-> IF locks[r] = k THEN row[r] ELSE committed[r]]
        /\ tx' = [tx EXCEPT ![k] = Resting]
    BY DEF Commit, Ended, Idle
  <1>2. Shapes /\ RowShapes(row) /\ RowShapes(committed)
    BY DEF TillInv, Shapes
  <1>3. tx'[k] = Resting /\ DOMAIN tx' = Connections /\ \A i \in Connections \ {k} : tx'[i] = tx[i]
    BY <1>1, <1>2 DEF Shapes
  <1>4. \A o \in Orders : Stands(o)' = Stands(o) /\ Status(o)' = IF locks[OrderRow(o)] = k THEN Stands(o) ELSE Status(o)
    <2> SUFFICES ASSUME NEW o \in Orders
                 PROVE  Stands(o)' = Stands(o) /\ Status(o)' = IF locks[OrderRow(o)] = k THEN Stands(o) ELSE Status(o)
      OBVIOUS
    <2>1. committed'[OrderRow(o)] = IF locks[OrderRow(o)] = k THEN row[OrderRow(o)] ELSE committed[OrderRow(o)]
      BY <1>1, RowsApart
    <2> QED
      BY <1>1, <2>1 DEF Stands, Status
  <1>5. RowShapes(committed')
    <2>1. \A r \in Rows : committed'[r] = row[r] \/ committed'[r] = committed[r]
      BY <1>1
    <2>2. ASSUME NEW o \in Orders PROVE OrderShape(committed'[OrderRow(o)], o)
      <3>1. committed'[OrderRow(o)] = row[OrderRow(o)] \/ committed'[OrderRow(o)] = committed[OrderRow(o)]
        BY <2>1, RowsApart
      <3> QED
        BY <1>2, <3>1 DEF RowShapes
    <2>3. ASSUME NEW t \in Tiers PROVE committed'[TierRow(t)] \in [reserved : Nat, sold : Nat]
      <3>1. committed'[TierRow(t)] = row[TierRow(t)] \/ committed'[TierRow(t)] = committed[TierRow(t)]
        BY <2>1, RowsApart
      <3> QED
        BY <1>2, <3>1 DEF RowShapes
    <2>4. ASSUME NEW c \in Chairs PROVE committed'[ChairRow(c)] \in [by : Orders \cup {Nobody}, sold : BOOLEAN]
      <3>1. CASE committed'[ChairRow(c)] = row[ChairRow(c)]
        BY <1>2, <3>1 DEF RowShapes
      <3>2. CASE committed'[ChairRow(c)] = committed[ChairRow(c)]
        BY <1>2, <3>2 DEF RowShapes
      <3> QED
        BY <2>1, <3>1, <3>2, RowsApart
    <2> QED
      BY <1>1, <2>2, <2>3, <2>4 DEF RowShapes
  <1>6. Shapes'
    <2>1. locks' \in [Rows -> Connections \cup {Nobody}]
      BY <1>1, <1>2 DEF Shapes
    <2>2. ASSUME NEW r \in Rows
          PROVE  IF locks'[r] = Nobody THEN row'[r] = committed'[r] ELSE ~(tx'[locks'[r]].kind = "idle")
      <3>1. CASE locks[r] = k
        BY <1>1, <3>1
      <3>2. CASE locks[r] = Nobody
        BY <1>1, <1>2, <3>2 DEF Shapes
      <3>3. CASE locks[r] # Nobody /\ locks[r] # k
        <4>1. locks'[r] = locks[r] /\ locks[r] \in Connections \ {k}
          BY <1>1, <1>2, <3>3 DEF Shapes
        <4>2. ~(tx[locks[r]].kind = "idle")
          BY <1>2, <3>3 DEF Shapes, Idle
        <4> QED
          BY <1>3, <3>3, <4>1, <4>2
      <3> QED
        BY <3>1, <3>2, <3>3
    <2>3. \A i \in Connections : tx'[i] = [kind |-> tx'[i].kind, order |-> tx'[i].order, todo |-> tx'[i].todo, scan |-> tx'[i].scan]
      BY <1>2, <1>3 DEF Shapes, Resting
    <2>4. RowShapes(row')
      BY <1>1, <1>2
    <2> QED
      BY <1>3, <1>5, <2>1, <2>2, <2>3, <2>4 DEF Shapes, RowShapes, OrderShape, Idle
  <1>7. \A r \in Rows : /\ locks'[r] = IF locks[r] = k THEN Nobody ELSE locks[r]
                        /\ committed'[r] = IF locks[r] = k THEN row[r] ELSE committed[r]
    BY <1>1
  <1> QED
    BY <1>1, <1>3, <1>4, <1>6, <1>7 DEF Commits

(* What it makes of the orders it locked.                                  *)
LEMMA CommitMakes ==
  ASSUME NEW k, Sound(k), tx[k].todo = {}, tx[k].kind # "idle", NEW o \in Orders, locks[OrderRow(o)] = k
  PROVE  \/ /\ tx[k].kind = "start" /\ Starts(k) /\ o = tx[k].order /\ Stands(o) = "pending_payment" /\ Status(o) = "none"
            /\ locks[BuyerRow(BuyerOf[o])] = k /\ Allows(o, Bought(o))
         \/ /\ tx[k].kind # "start" /\ Stands(o) # "none" /\ Status(o) # "none"
            /\ Stands(o) = Status(o) \/ Stands(o) # "pending_payment"
  <1>1. CASE tx[k].kind = "start" /\ Starts(k)
    BY <1>1 DEF Starts
  <1>2. CASE Looks(k)
    BY <1>2 DEF Looks
  <1>3. CASE tx[k].kind # "start" /\ Works(k)
    BY <1>3 DEF Works, Moving
  <1> QED
    BY <1>1, <1>2, <1>3 DEF Sound, Working

(* What it took is what others then see.                                   *)
LEMMA CommitShows ==
  ASSUME NEW k, Sound(k), Commits(k), NEW o \in Orders, NEW r
  PROVE  (Held(k, o, r) <=> Has(o, "pending_payment", r)') /\ (Owned(k, o, r) <=> Has(o, "paid", r)')
  <1>1. Status(o)' = (IF locks[OrderRow(o)] = k THEN Stands(o) ELSE Status(o)) /\ tx[k].todo = {} /\ tx[k].kind # "idle"
    BY DEF Commits
  <1>2. ~Left(k, Giving, r, o) /\ ~Left(k, Taking, r, o)
    BY <1>1 DEF Left
  <1>3. CASE tx[k].kind = "start" /\ tx[k].order = o
    <2>1. Starts(k)
      BY <1>3 DEF Sound, Working, Looks, Works
    <2>2. locks[OrderRow(o)] = k /\ Stands(o) = "pending_payment"
      BY <1>1, <1>3, <2>1 DEF Starts
    <2> QED
      BY <1>1, <1>2, <1>3, <2>2 DEF Held, Owned, InHand, Has, Concerns
  <1>4. CASE tx[k].kind # "start" /\ locks[OrderRow(o)] = k /\ Stands(o) # Status(o)
    <2>1. Stands(o) # "pending_payment"
      BY <1>1, <1>4, CommitMakes
    <2> QED
      BY <1>1, <1>2, <1>4, <2>1 DEF Held, Owned, InHand, Has, Concerns
  <1>5. CASE ~InHand(k, o)
    <2>1. Status(o)' = Status(o)
      BY <1>1, <1>5, CommitMakes DEF InHand
    <2> QED
      BY <1>5, <2>1 DEF Held, Owned, Has, Concerns
  <1> QED
    BY <1>3, <1>4, <1>5 DEF InHand

LEMMA CommitWhole ==
  ASSUME TillAssumption, TillInv, NEW k \in Connections, Commits(k)
  PROVE  CommittedWhole'
  <1>1. Sound(k) /\ CommittedWhole
    BY DEF TillInv
  <1>2. \A r : HoldingFor(k, r) = Holding(r)' /\ OwningFor(k, r) = Owning(r)'
    BY <1>1, CommitShows DEF HoldingFor, OwningFor, Holding, Owning
  <1>3. ASSUME NEW r \in TierRows \cup ChairRows, locks[r] # k
        PROVE  HoldingFor(k, r) = Holding(r) /\ OwningFor(k, r) = Owning(r)
    BY <1>1, <1>3 DEF Sound, Untouched, HoldingFor, OwningFor, Holding, Owning
  <1>4. ASSUME NEW t \in Tiers
        PROVE  TierWhole(committed'[TierRow(t)], t, Holding(TierRow(t))', Owning(TierRow(t))')
    <2>1. CASE locks[TierRow(t)] = k
      <3>1. committed'[TierRow(t)] = row[TierRow(t)]
        BY <2>1, RowsApart DEF Commits
      <3> QED
        BY <1>1, <1>2, <2>1, <3>1 DEF Sound, ViewWhole
    <2>2. CASE locks[TierRow(t)] # k
      <3>1. committed'[TierRow(t)] = committed[TierRow(t)]
        BY <2>2, RowsApart DEF Commits
      <3> QED
        BY <1>1, <1>2, <1>3, <2>2, <3>1, RowsApart DEF CommittedWhole
    <2> QED
      BY <2>1, <2>2
  <1>5. ASSUME NEW c \in Chairs
        PROVE  ChairWhole(committed'[ChairRow(c)], Holding(ChairRow(c))', Owning(ChairRow(c))')
    <2>1. CASE locks[ChairRow(c)] = k
      <3>1. committed'[ChairRow(c)] = row[ChairRow(c)]
        BY <2>1, RowsApart DEF Commits
      <3> QED
        BY <1>1, <1>2, <2>1, <3>1 DEF Sound, ViewWhole
    <2>2. CASE locks[ChairRow(c)] # k
      <3>1. committed'[ChairRow(c)] = committed[ChairRow(c)]
        BY <2>2, RowsApart DEF Commits
      <3> QED
        BY <1>1, <1>2, <1>3, <2>2, <3>1, RowsApart DEF CommittedWhole
    <2> QED
      BY <2>1, <2>2
  <1> QED
    BY <1>4, <1>5 DEF CommittedWhole, TierWhole, ChairWhole

(* The hold limits.                                                        *)
LEMMA UnitsNext ==
  ASSUME TillAssumption, Shapes', NEW t \in Tiers, NEW os, os \subseteq Orders, \A o \in os : Status(o)' # "none"
  PROVE  Units(os, t)' = Total(Wants(t), os)
  <1> DEFINE w == [o \in os |-> Places(Order(o)'.lines, t)]
  <1>1. Units(os, t)' = Total(w, os)
    BY DEF Units, SumFunction, Total, Places
  <1>2. ASSUME NEW o \in os PROVE w[o] = Wants(t)[o]
    <2>1. OrderShape(committed'[OrderRow(o)], o)
      BY DEF Shapes, RowShapes, OrderShape
    <2>2. PICK v : v = committed'[OrderRow(o)]
      OBVIOUS
    <2>3. v = [status |-> v.status, lines |-> IF v.status = "none" THEN {} ELSE Bought(o)] /\ v.status # "none"
      BY <2>1, <2>2 DEF OrderShape, Status
    <2>4. v.lines = Bought(o)
      BY <2>3
    <2> QED
      BY <2>2, <2>4 DEF Wants, Order
  <1> HIDE DEF w
  <1>3. Total(w, os) = Total(Wants(t), os)
    BY <1>2, OrdersFinite, TotalSame
  <1> QED
    BY <1>1, <1>3

LEMMA FewerWeighLess ==
  ASSUME TillAssumption, NEW A, NEW B, A \subseteq B, B \subseteq Orders
  PROVE  /\ Cardinality(A) \in Nat /\ Cardinality(B) \in Nat /\ Cardinality(A) <= Cardinality(B)
         /\ \A t \in Tiers : Total(Wants(t), A) \in Nat /\ Total(Wants(t), B) \in Nat /\ Total(Wants(t), A) <= Total(Wants(t), B)
  <1>1. IsFiniteSet(A) /\ IsFiniteSet(B)
    BY OrdersFinite
  <1>2. Cardinality(A) \in Nat /\ Cardinality(B) \in Nat /\ Cardinality(A) <= Cardinality(B)
    BY <1>1, FS_Subset, FS_CardinalityType
  <1>3. ASSUME NEW t \in Tiers
        PROVE  Total(Wants(t), A) \in Nat /\ Total(Wants(t), B) \in Nat /\ Total(Wants(t), A) <= Total(Wants(t), B)
    <2> DEFINE w == Wants(t)
    <2>1. (\A o \in A : w[o] \in Nat) /\ (\A o \in B : w[o] \in Nat)
      BY WantsOf
    <2> HIDE DEF w
    <2>2. Total(w, A) \in Nat /\ Total(w, B) \in Nat
      BY <1>1, <2>1, TotalNat
    <2>3. Total(w, A) <= Total(w, B)
      BY <1>1, <2>1, TotalGrows
    <2> QED
      BY <2>2, <2>3 DEF w
  <1> QED
    BY <1>2, <1>3

LEMMA OpenAre ==
  ASSUME NEW b
  PROVE  /\ OpenOrders(b) = {o \in Orders : Status(o) = "pending_payment" /\ BuyerOf[o] = b}
         /\ OpenOrders(b)' = {o \in Orders : Status(o)' = "pending_payment" /\ BuyerOf[o] = b}
  BY DEF OpenOrders, In, Order, Status

(* A commit opens the one order it started, of a buyer it has locked.      *)
LEMMA OpenAfter ==
  ASSUME NEW k, Sound(k), Commits(k), NEW b
  PROVE  \/ OpenOrders(b)' \subseteq OpenOrders(b)
         \/ \E o \in Orders : /\ b = BuyerOf[o] /\ locks[BuyerRow(b)] = k /\ Allows(o, Bought(o)) /\ Status(o) = "none"
                              /\ OpenOrders(b)' \subseteq OpenOrders(b) \cup {o}
  <1>1. tx[k].todo = {} /\ tx[k].kind # "idle"
    BY DEF Commits
  <1>2. ASSUME NEW o \in OpenOrders(b)', o \notin OpenOrders(b)
        PROVE  /\ o \in Orders /\ b = BuyerOf[o] /\ tx[k].kind = "start" /\ o = tx[k].order
               /\ locks[BuyerRow(b)] = k /\ Allows(o, Bought(o)) /\ Status(o) = "none"
    <2>1. o \in Orders /\ Status(o)' = "pending_payment" /\ BuyerOf[o] = b /\ Status(o) # "pending_payment"
      BY <1>2, OpenAre
    <2>2. locks[OrderRow(o)] = k /\ Stands(o) = "pending_payment"
      BY <2>1 DEF Commits
    <2> QED
      BY <1>1, <2>1, <2>2, CommitMakes
  <1>3. CASE \E o \in OpenOrders(b)' : o \notin OpenOrders(b)
    <2>1. PICK o \in OpenOrders(b)' : o \notin OpenOrders(b)
      BY <1>3
    <2>2. OpenOrders(b)' \subseteq OpenOrders(b) \cup {o}
      BY <1>2, <2>1
    <2> QED
      BY <1>2, <2>1, <2>2
  <1> QED
    BY <1>3

LEMMA CommitLimits ==
  ASSUME TillAssumption, TillInv, NEW k \in Connections, Commits(k), Shapes'
  PROVE  WithinHoldLimits'
  <1> SUFFICES ASSUME NEW b \in Range(BuyerOf)
               PROVE  /\ Cardinality(OpenOrders(b)') <= MaxOrders
                      /\ \A t \in Tiers : Units(OpenOrders(b), t)' <= MaxPerTier
    BY DEF WithinHoldLimits
  <1>1. Sound(k) /\ Shapes
    BY DEF TillInv
  <1>2. PICK A, B : A = OpenOrders(b) /\ B = OpenOrders(b)'
    OBVIOUS
  <1>3. A \subseteq Orders /\ B \subseteq Orders /\ (\A o \in A : Status(o) # "none") /\ (\A o \in B : Status(o)' # "none")
    BY <1>2, OpenAre
  <1>4. Cardinality(A) <= MaxOrders /\ \A t \in Tiers : Total(Wants(t), A) <= MaxPerTier
    <2>1. \A t \in Tiers : Units(A, t) = Total(Wants(t), A)
      BY <1>1, <1>3, UnitsTotal
    <2> QED
      BY <1>2, <2>1 DEF TillInv, WithinHoldLimits
  <1>5. \A t \in Tiers : Units(OpenOrders(b), t)' = Total(Wants(t), B)
    <2> SUFFICES ASSUME NEW t \in Tiers PROVE Units(OpenOrders(b), t)' = Total(Wants(t), B)
      OBVIOUS
    <2>1. Units(B, t)' = Total(Wants(t), B)
      BY <1>3, UnitsNext
    <2>2. Units(OpenOrders(b), t)' = Units(B, t)'
      BY <1>2 DEF Units
    <2> QED
      BY <2>1, <2>2
  <1>6. MaxOrders \in Nat /\ MaxPerTier \in Nat
    BY DEF TillAssumption
  <1>7. CASE B \subseteq A
    <2>1. Cardinality(A) \in Nat /\ Cardinality(B) \in Nat /\ Cardinality(B) <= Cardinality(A)
      BY <1>3, <1>7, FewerWeighLess
    <2>2. ASSUME NEW t \in Tiers PROVE Total(Wants(t), B) <= MaxPerTier
      <3>1. Total(Wants(t), B) \in Nat /\ Total(Wants(t), A) \in Nat /\ Total(Wants(t), B) <= Total(Wants(t), A)
        BY <1>3, <1>7, FewerWeighLess
      <3> QED
        BY <1>4, <1>6, <3>1
    <2> QED
      BY <1>2, <1>4, <1>5, <1>6, <2>1, <2>2
  <1>8. ASSUME NEW o \in Orders, b = BuyerOf[o], Allows(o, Bought(o)), Status(o) = "none", B \subseteq A \cup {o}
        PROVE  Cardinality(B) <= MaxOrders /\ \A t \in Tiers : Total(Wants(t), B) <= MaxPerTier
    <2>1. o \notin A /\ A \cup {o} \subseteq Orders /\ IsFiniteSet(A)
      BY <1>3, <1>8, OrdersFinite
    <2>2. Cardinality(A) \in Nat /\ Cardinality(A \cup {o}) = Cardinality(A) + 1 /\ Cardinality(A) < MaxOrders
      BY <1>2, <1>8, <2>1, FS_AddElement, FS_CardinalityType DEF Allows
    <2>3. Cardinality(B) \in Nat /\ Cardinality(B) <= Cardinality(A \cup {o})
      BY <1>8, <2>1, FewerWeighLess
    <2>4. ASSUME NEW t \in Tiers PROVE Total(Wants(t), B) <= MaxPerTier
      <3>1. Total(Wants(t), B) \in Nat /\ Total(Wants(t), A \cup {o}) \in Nat /\ Total(Wants(t), B) <= Total(Wants(t), A \cup {o})
        BY <1>8, <2>1, FewerWeighLess
      <3>2. Total(Wants(t), A \cup {o}) = Wants(t)[o] + Total(Wants(t), A)
        <4> DEFINE w == Wants(t)
        <4>1. \A p \in A \cup {o} : w[p] \in Int
          BY <2>1, WantsOf
        <4> HIDE DEF w
        <4>2. Total(w, A \cup {o}) = w[o] + Total(w, A)
          BY <2>1, <4>1, TotalWith
        <4> QED
          BY <4>2 DEF w
      <3>3. Total(Wants(t), A) \in Nat /\ Wants(t)[o] \in Nat
        BY <1>3, <1>8, FewerWeighLess, WantsOf
      <3>4. CASE \E l \in Bought(o) : l.tier = t
        <4>1. PICK l \in Bought(o) : l.tier = t
          BY <3>4
        <4>2. Units(A, t) + l.quantity <= MaxPerTier
          BY <1>2, <1>8, <4>1 DEF Allows
        <4>3. Units(A, t) = Total(Wants(t), A) /\ Wants(t)[o] = l.quantity
          BY <1>1, <1>3, <4>1, UnitsTotal, WantsOf
        <4> QED
          BY <1>6, <3>1, <3>2, <3>3, <4>2, <4>3
      <3>5. CASE \A l \in Bought(o) : l.tier # t
        <4>1. Wants(t)[o] = 0
          BY <3>5, WantsOf
        <4> QED
          BY <1>4, <1>6, <3>1, <3>2, <3>3, <4>1
      <3> QED
        BY <3>4, <3>5
    <2> QED
      BY <1>6, <2>2, <2>3, <2>4
  <1> QED
    BY <1>1, <1>2, <1>5, <1>7, <1>8, OpenAfter

(* Others keep their locks, and with them what they rest on.               *)
LEMMA CommitKeeps ==
  ASSUME TillAssumption, TillInv, NEW k \in Connections, Commits(k), NEW j \in Connections \ {k}
  PROVE  /\ tx'[j] = tx[j] /\ Sound(j) /\ Sound(k) /\ j # Nobody
         /\ \A r \in Rows : locks'[r] = j <=> locks[r] = j
         /\ \A o \in Orders : /\ InHand(j, o)' <=> InHand(j, o)
                              /\ InHand(j, o) \/ locks[OrderRow(o)] = j => Status(o)' = Status(o)
                              /\ Stands(o)' = Stands(o)
         /\ \A does, r, o : Left(j, does, r, o)' <=> Left(j, does, r, o)
         /\ LocksNothing(j)' <=> LocksNothing(j)
  <1>1. tx'[j] = tx[j] /\ Sound(j) /\ Sound(k) /\ j # Nobody /\ k # Nobody
    BY DEF Commits, TillInv, TillAssumption
  <1>2. \A r \in Rows : locks'[r] = j <=> locks[r] = j
    BY <1>1 DEF Commits
  <1>3. ASSUME NEW o \in Orders
        PROVE  /\ InHand(j, o)' <=> InHand(j, o)
               /\ InHand(j, o) \/ locks[OrderRow(o)] = j => Status(o)' = Status(o)
               /\ Stands(o)' = Stands(o)
    <2>1. OrderRow(o) \in Rows
      BY RowsApart
    <2>2. Stands(o)' = Stands(o) /\ Status(o)' = IF locks[OrderRow(o)] = k THEN Stands(o) ELSE Status(o)
      BY DEF Commits
    <2>3. locks[OrderRow(o)] = j => Status(o)' = Status(o)
      BY <2>2
    <2>4. CASE tx[j].kind = "start"
      <3>1. tx[j].order = o => locks[OrderRow(o)] # k
        BY <1>1, <2>4 DEF Sound, Working, Starts
      <3> QED
        BY <1>1, <2>2, <2>3, <2>4, <3>1, SMTT(30) DEF InHand
    <2>5. CASE tx[j].kind # "start"
      BY <1>1, <1>2, <2>1, <2>2, <2>3, <2>5 DEF InHand
    <2> QED
      BY <2>4, <2>5
  <1>4. \A does, r, o : Left(j, does, r, o)' <=> Left(j, does, r, o)
    BY <1>1 DEF Left
  <1>5. LocksNothing(j)' <=> LocksNothing(j)
    BY <1>2 DEF LocksNothing
  <1> QED
    BY <1>1, <1>2, <1>3, <1>4, <1>5

LEMMA CommitHides ==
  ASSUME TillAssumption, TillInv, NEW k \in Connections, Commits(k), NEW o \in Orders, NEW r \in TierRows \cup ChairRows, locks[r] # k
  PROVE  (Has(o, "pending_payment", r)' <=> Has(o, "pending_payment", r)) /\ (Has(o, "paid", r)' <=> Has(o, "paid", r))
  <1>1. Sound(k)
    BY DEF TillInv
  <1>2. (Held(k, o, r) <=> Has(o, "pending_payment", r)') /\ (Owned(k, o, r) <=> Has(o, "paid", r)')
    BY <1>1, CommitShows
  <1> QED
    BY <1>1, <1>2 DEF Sound, Untouched

LEMMA CommitViews ==
  ASSUME TillAssumption, TillInv, NEW k \in Connections, Commits(k), NEW j \in Connections \ {k}
  PROVE  ViewWhole(j)' /\ Untouched(j)'
  <1>1. /\ tx'[j] = tx[j] /\ Sound(j)
        /\ \A r \in Rows : locks'[r] = j <=> locks[r] = j
        /\ \A o \in Orders : /\ InHand(j, o)' <=> InHand(j, o)
                             /\ InHand(j, o) => Status(o)' = Status(o)
                             /\ Stands(o)' = Stands(o)
        /\ \A does, r, o : Left(j, does, r, o)' <=> Left(j, does, r, o)
    BY CommitKeeps
  <1>2. ASSUME NEW o \in Orders, InHand(j, o), NEW r
        PROVE  /\ (Held(j, o, r)' <=> Held(j, o, r)) /\ (Owned(j, o, r)' <=> Owned(j, o, r))
               /\ \A status : Has(o, status, r)' <=> Has(o, status, r)
    <2>1. \A status : Has(o, status, r)' <=> Has(o, status, r)
      BY <1>1, <1>2 DEF Has, Concerns
    <2>2. InHand(j, o)' /\ Stands(o)' = Stands(o)
      BY <1>1, <1>2
    <2>3. Held(j, o, r)' <=> Held(j, o, r)
      BY <1>1, <1>2, <2>2 DEF Held, Concerns
    <2>4. Owned(j, o, r)' <=> Owned(j, o, r)
      BY <1>1, <1>2, <2>2 DEF Owned, Concerns
    <2> QED
      BY <2>1, <2>3, <2>4
  <1>3. ASSUME NEW o \in Orders, ~InHand(j, o), NEW r
        PROVE  /\ (Held(j, o, r)' <=> Has(o, "pending_payment", r)') /\ (Owned(j, o, r)' <=> Has(o, "paid", r)')
               /\ (Held(j, o, r) <=> Has(o, "pending_payment", r)) /\ (Owned(j, o, r) <=> Has(o, "paid", r))
    <2>1. ~InHand(j, o)'
      BY <1>1, <1>3
    <2> QED
      BY <1>3, <2>1 DEF Held, Owned
  <1>4. ASSUME NEW r \in TierRows \cup ChairRows, locks[r] # k
        PROVE  HoldingFor(j, r)' = HoldingFor(j, r) /\ OwningFor(j, r)' = OwningFor(j, r)
    <2>1. ASSUME NEW o \in Orders
          PROVE  (Held(j, o, r)' <=> Held(j, o, r)) /\ (Owned(j, o, r)' <=> Owned(j, o, r))
      <3>1. CASE InHand(j, o)
        BY <1>2, <3>1
      <3>2. CASE ~InHand(j, o)
        BY <1>3, <1>4, <3>2, CommitHides
      <3> QED
        BY <3>1, <3>2
    <2> QED
      BY <2>1 DEF HoldingFor, OwningFor
  <1>5. ViewWhole(j)'
    <2>1. ASSUME NEW r \in TierRows \cup ChairRows, locks'[r] = j
          PROVE  /\ locks[r] = j /\ row'[r] = row[r]
                 /\ HoldingFor(j, r)' = HoldingFor(j, r) /\ OwningFor(j, r)' = OwningFor(j, r)
      <3>1. r \in Rows /\ locks[r] = j
        BY <1>1, <2>1 DEF Rows
      <3> QED
        BY <1>4, <3>1 DEF Commits
    <2>2. ASSUME NEW t \in Tiers, locks'[TierRow(t)] = j
          PROVE  TierWhole(row'[TierRow(t)], t, HoldingFor(j, TierRow(t))', OwningFor(j, TierRow(t))')
      BY <1>1, <2>1, <2>2, RowsApart DEF Sound, ViewWhole
    <2>3. ASSUME NEW c \in Chairs, locks'[ChairRow(c)] = j
          PROVE  ChairWhole(row'[ChairRow(c)], HoldingFor(j, ChairRow(c))', OwningFor(j, ChairRow(c))')
      BY <1>1, <2>1, <2>3, RowsApart DEF Sound, ViewWhole
    <2> QED
      BY <2>2, <2>3 DEF ViewWhole, TierWhole, ChairWhole
  <1>6. Untouched(j)'
    <2>1. ASSUME NEW o \in Orders, NEW r \in TierRows \cup ChairRows, locks'[r] # j
          PROVE  (Held(j, o, r)' <=> Has(o, "pending_payment", r)') /\ (Owned(j, o, r)' <=> Has(o, "paid", r)')
      <3>1. locks[r] # j
        BY <1>1, <2>1 DEF Rows
      <3>2. CASE InHand(j, o)
        BY <1>1, <1>2, <3>1, <3>2 DEF Sound, Untouched
      <3>3. CASE ~InHand(j, o)
        BY <1>3, <3>3
      <3> QED
        BY <3>2, <3>3
    <2> QED
      BY <2>1 DEF Untouched
  <1> QED
    BY <1>5, <1>6

(* A buyer another has locked opens no order.                              *)
LEMMA CommitAllows ==
  ASSUME TillAssumption, TillInv, NEW k \in Connections, Commits(k), Shapes', NEW o \in Orders, Allows(o, Bought(o)),
         locks[BuyerRow(BuyerOf[o])] # k
  PROVE  Allows(o, Bought(o))'
  <1>1. Sound(k) /\ Shapes /\ MaxOrders \in Nat /\ MaxPerTier \in Nat
    BY DEF TillInv, TillAssumption
  <1>2. PICK b, A, B : b = BuyerOf[o] /\ A = OpenOrders(b) /\ B = OpenOrders(b)'
    OBVIOUS
  <1>3. A \subseteq Orders /\ B \subseteq Orders /\ (\A p \in A : Status(p) # "none") /\ (\A p \in B : Status(p)' # "none")
    BY <1>2, OpenAre
  <1>4. B \subseteq A
    BY <1>1, <1>2, OpenAfter
  <1>5. Cardinality(B) < MaxOrders
    <2>1. Cardinality(A) \in Nat /\ Cardinality(B) \in Nat /\ Cardinality(B) <= Cardinality(A)
      BY <1>3, <1>4, FewerWeighLess
    <2>2. Cardinality(A) < MaxOrders
      BY <1>2 DEF Allows
    <2> QED
      BY <1>1, <2>1, <2>2
  <1>6. ASSUME NEW l \in Bought(o)
        PROVE  Units(B, l.tier)' + l.quantity <= MaxPerTier
    <2>1. l.tier \in Tiers /\ l.quantity \in Nat
      BY LinesGood
    <2>2. Units(A, l.tier) = Total(Wants(l.tier), A) /\ Units(B, l.tier)' = Total(Wants(l.tier), B)
      BY <1>1, <1>3, <2>1, UnitsTotal, UnitsNext
    <2>3. /\ Total(Wants(l.tier), A) \in Nat /\ Total(Wants(l.tier), B) \in Nat
          /\ Total(Wants(l.tier), B) <= Total(Wants(l.tier), A)
      BY <1>3, <1>4, <2>1, FewerWeighLess
    <2>4. Units(A, l.tier) + l.quantity <= MaxPerTier
      BY <1>2 DEF Allows
    <2> QED
      BY <1>1, <2>1, <2>2, <2>3, <2>4
  <1>7. \A t : Units(OpenOrders(BuyerOf[o]), t)' = Units(B, t)'
    BY <1>2 DEF Units
  <1> QED
    BY <1>2, <1>5, <1>6, <1>7 DEF Allows, Bought

LEMMA CommitOthers ==
  ASSUME TillAssumption, TillInv, NEW k \in Connections, Commits(k), Shapes', NEW j \in Connections \ {k}
  PROVE  Sound(j)'
  <1>1. /\ tx'[j] = tx[j] /\ Sound(j) /\ Sound(k) /\ j # Nobody
        /\ \A r \in Rows : locks'[r] = j <=> locks[r] = j
        /\ \A o \in Orders : /\ InHand(j, o)' <=> InHand(j, o)
                             /\ InHand(j, o) \/ locks[OrderRow(o)] = j => Status(o)' = Status(o)
                             /\ Stands(o)' = Stands(o)
        /\ \A does, r, o : Left(j, does, r, o)' <=> Left(j, does, r, o)
        /\ LocksNothing(j)' <=> LocksNothing(j)
    BY CommitKeeps
  <1>2. ViewWhole(j)' /\ Untouched(j)'
    BY CommitViews
  <1>3. Once(j)'
    BY <1>1 DEF Sound, Once
  <1>4. InOrder(j)'
    BY <1>1, RowsApart DEF Sound, InOrder
  <1>5. ASSUME tx[j].kind = "start", Starts(j) PROVE Starts(j)'
    <2>1. PICK o, todo : o = tx[j].order /\ todo = tx[j].todo
      OBVIOUS
    <2>2. o \in Orders /\ InHand(j, o) /\ Status(o)' = "none" /\ OrderRow(o) \in Rows /\ BuyerRow(BuyerOf[o]) \in Rows
      BY <1>1, <1>5, <2>1, RowsApart DEF Starts, InHand
    <2>3. todo \subseteq Basket(o, Bought(o), tx[j].scan)
      BY <1>5, <2>1 DEF Starts
    <2>4. locks'[OrderRow(o)] \in {Nobody, j}
      BY <1>5, <2>1, <2>2 DEF Starts, Commits
    <2>5. \A i \in Connections \ {j} : ~(tx'[i].kind = "start" /\ tx'[i].order = o)
      <3>1. ASSUME NEW i \in Connections \ {j}, tx'[i].kind = "start", tx'[i].order = o PROVE FALSE
        <4>1. i # k
          BY <3>1 DEF Commits, Resting
        <4> QED
          BY <1>5, <2>1, <3>1, <4>1 DEF Commits, Starts
      <3> QED
        BY <3>1
    <2>6. \A p \in Orders : locks'[OrderRow(p)] = j => p = o
      BY <1>1, <1>5, <2>1, RowsApart DEF Starts
    <2>7. IF todo = {} THEN locks'[OrderRow(o)] = j /\ Stands(o)' = "pending_payment"
          ELSE Inserting(o) \in todo /\ locks'[OrderRow(o)] # j
      BY <1>1, <1>5, <2>1, <2>2 DEF Starts
    <2>8. IF Counting(o) \in todo THEN LocksNothing(j)'
          ELSE locks'[BuyerRow(BuyerOf[o])] = j /\ Allows(o, Bought(o))'
      <3>1. CASE Counting(o) \in todo
        BY <1>1, <1>5, <2>1, <3>1 DEF Starts
      <3>2. CASE Counting(o) \notin todo
        <4>1. locks[BuyerRow(BuyerOf[o])] = j /\ Allows(o, Bought(o))
          BY <1>5, <2>1, <3>2 DEF Starts
        <4>2. Allows(o, Bought(o))'
          BY <2>2, <4>1, CommitAllows
        <4> QED
          BY <1>1, <2>2, <3>2, <4>1, <4>2
      <3> QED
        BY <3>1, <3>2
    <2>9. \A l \in Bought(o) : \A c \in l.chairs : TierOf[c] # l.tier =>
              Do("claim", ChairRow(c), l.tier, o, <<1, l.tier, tx[j].scan[c]>>) \in todo
      BY <1>5, <2>1 DEF Starts
    <2> QED
      BY <1>1, <2>1, <2>2, <2>3, <2>4, <2>5, <2>6, <2>7, <2>8, <2>9 DEF Starts
  <1>6. ASSUME Looks(j) PROVE Looks(j)'
    <2>1. PICK o : o = tx[j].order
      OBVIOUS
    <2>2. o \in Orders /\ Status(o) # "none"
      BY <1>6, <2>1 DEF Looks
    <2>3. Status(o)' # "none"
      BY <1>1, <2>2, CommitMakes DEF Commits
    <2> QED
      BY <1>1, <1>6, <2>1, <2>2, <2>3 DEF Looks
  <1>7. ASSUME tx[j].kind # "start", Works(j) PROVE Works(j)'
    <2>1. ASSUME NEW o \in Orders, locks'[OrderRow(o)] = j PROVE Moving(j, o)'
      <3>1. locks[OrderRow(o)] = j /\ Stands(o)' = Stands(o) /\ Status(o)' = Status(o)
        BY <1>1, <2>1, RowsApart
      <3>2. Moving(j, o)
        BY <1>7, <3>1 DEF Works
      <3> QED
        BY <1>1, <3>1, <3>2 DEF Moving
    <2>2. ASSUME NEW s \in tx[j].todo PROVE Statement(j, s)' /\ Status(s.order)' = Status(s.order) /\ s.row \in Rows
      <3>1. Statement(j, s) /\ s.order \in Orders /\ InHand(j, s.order)
        BY <1>7, <2>2 DEF Works, Statement
      <3>2. InHand(j, s.order)' /\ Status(s.order)' = Status(s.order)
        BY <1>1, <3>1
      <3>3. s.row \in Rows
        BY <3>1, WorkRows
      <3> QED
        BY <1>1, <3>1, <3>2, <3>3 DEF Statement
    <2>3. ASSUME tx[j].kind = "pay" PROVE TakesFirst(j)'
      <3>1. TakesFirst(j)
        BY <1>7, <2>3 DEF Works
      <3>2. ASSUME NEW s \in tx[j].todo
            PROVE  /\ s.does \in Taking => Left(j, Giving, s.row, s.order)'
                   /\ s.does = "sell" /\ Status(s.order)' # "pending_payment" =>
                         Left(j, {"reserve"}, s.row, s.order)' \/ locks'[s.row] = j
        BY <1>1, <2>2, <3>1, <3>2 DEF TakesFirst
      <3> QED
        BY <1>1, <3>2 DEF TakesFirst
    <2> QED
      BY <1>1, <2>1, <2>2, <2>3 DEF Works
  <1>8. Working(j)'
    BY <1>1, <1>5, <1>6, <1>7 DEF Sound, Working
  <1> QED
    BY <1>2, <1>3, <1>4, <1>8 DEF Sound

LEMMA CommitStep ==
  ASSUME TillAssumption, TillInv, NEW k \in Connections, Commit(k)
  PROVE  TillInv'
  <1>1. Commits(k) /\ Shapes'
    BY CommitSays
  <1>2. CommittedWhole' /\ WithinHoldLimits'
    BY <1>1, CommitWhole, CommitLimits
  <1>3. ASSUME NEW j \in Connections \ {k} PROVE Sound(j)'
    BY <1>1, <1>3, CommitOthers
  <1>4. Sound(k)'
    <2>1. \A r \in Rows : locks'[r] # k
      BY <1>1 DEF Commits, TillAssumption
    <2> QED
      BY <1>1, <2>1, RestingIsSound DEF Commits
  <1> QED
    BY <1>1, <1>2, <1>3, <1>4 DEF TillInv

-----------------------------------------------------------------------------
(* Every step of a transaction keeps the box office sound.                 *)
LEMMA TillStep ==
  ASSUME TillAssumption, TillInv, [Next]_<<row, committed, locks, tx>>
  PROVE  TillInv'
  <1>1. CASE UNCHANGED <<row, committed, locks, tx>>
    <2>1. Shapes'
      BY <1>1 DEF TillInv, Shapes, RowShapes, OrderShape, Idle
    <2>2. CommittedWhole' /\ WithinHoldLimits'
      BY <1>1, CommittedStays DEF TillInv
    <2>3. ASSUME NEW j \in Connections PROVE Sound(j)'
      <3>1. Sound(j)
        BY DEF TillInv
      <3>2. Undisturbed(j)
        BY <1>1, <3>1 DEF Undisturbed, Sound, Working, Starts
      <3> QED
        BY <1>1, <3>1, <3>2, OthersStay
    <2> QED
      BY <2>1, <2>2, <2>3 DEF TillInv
  <1>2. ASSUME NEW k \in Connections,
               \/ Start(k) \/ ExpireHold(k) \/ Cancel(k) \/ Settle(k) \/ ExpireHolds(k)
               \/ Look(k) \/ Step(k) \/ Misses(k) \/ Deadlock(k) \/ Crash(k) \/ Commit(k)
        PROVE  TillInv'
    <2>1. CASE Start(k)
      BY <2>1, StartStep
    <2>2. CASE ExpireHold(k) \/ Cancel(k) \/ Settle(k)
      BY <2>2, ApproachStep DEF ExpireHold, Cancel, Settle
    <2>3. CASE ExpireHolds(k)
      BY <2>3, ExpireHoldsStep
    <2>4. CASE Look(k)
      BY <2>4, LookStep
    <2>5. CASE Step(k)
      BY <2>5, StepStep
    <2>6. CASE Misses(k)
      BY <2>6, MissesStep
    <2>7. CASE Deadlock(k) \/ Crash(k)
      BY <2>7, RollbackStep DEF Deadlock, Crash
    <2>8. CASE Commit(k)
      BY <2>8, CommitStep
    <2> QED
      BY <1>2, <2>1, <2>2, <2>3, <2>4, <2>5, <2>6, <2>7, <2>8
  <1> QED
    BY <1>1, <1>2 DEF Next

LEMMA TillSafe ==
  ASSUME TillAssumption, TillInv
  PROVE  TypeOK /\ BasketsSound
  <1>1. TypeOK
    BY TypeOKHolds DEF TillInv
  <1>2. SeenWhole /\ CountersInOneOrder
    BY SeenWholeHolds, InOneOrder DEF TillInv
  <1> QED
    BY <1>1, <1>2 DEF BasketsSound, TillInv

(* Whoever holds, pays, gives up or sweeps at once, and whatever crashes   *)
(* or is ended in a circle of waiting: rows keep their types, no buyer     *)
(* passes the hold limits, what is committed adds up, and baskets meet the *)
(* counters in one order.                                                  *)
THEOREM BasketsStaySound ==
  ASSUME TillAssumption
  PROVE  Init /\ [][Next]_<<row, committed, locks, tx>> => [](TypeOK /\ BasketsSound)
  <1>1. Init => TillInv
    BY TillStarts
  <1>2. TillInv /\ [Next]_<<row, committed, locks, tx>> => TillInv'
    BY TillStep
  <1>3. TillInv => TypeOK /\ BasketsSound
    BY TillSafe
  <1> QED
    BY <1>1, <1>2, <1>3, PTL
=============================================================================
