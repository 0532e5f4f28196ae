-------------------------- MODULE CountingProofs --------------------------
(***************************************************************************)
(* Facts about counted sums and counted orders, for the proofs about       *)
(* Authoring and Access.  The library's facts about finite sets take the   *)
(* place of an induction.                                                  *)
(***************************************************************************)
EXTENDS Counting, Integers, FiniteSetsExt, TLAPS, FiniteSetTheorems, FunctionTheorems

----------------------------------------------------------------------------
(* Finite sets in order. *)

\* R is a strict order of S, in which one of any two elements comes first.
Orders(R, S) ==
    /\ \A x, y \in S : x # y => <<x, y>> \in R \/ <<y, x>> \in R
    /\ \A x \in S : <<x, x>> \notin R
    /\ \A x, y, z \in S : <<x, y>> \in R /\ <<y, z>> \in R => <<x, z>> \in R

\* A finite set in a strict total order: the places are the numbers from 1 on, each taken by
\* exactly one element.
LEMMA PlacesOf ==
    ASSUME NEW S, IsFiniteSet(S), NEW R, Orders(R, S)
    PROVE  /\ \A x \in S : Cardinality(UpTo(S, R, x)) \in 1..Cardinality(S)
           /\ \A x, y \in S : Cardinality(UpTo(S, R, x)) = Cardinality(UpTo(S, R, y)) => x = y
           /\ \A i \in 1..Cardinality(S) : \E x \in S : Cardinality(UpTo(S, R, x)) = i
<1> DEFINE n == Cardinality(S)
           place == [x \in S |-> Cardinality(UpTo(S, R, x))]
<1>1. n \in Nat
  BY FS_CardinalityType
<1>2. ASSUME NEW x \in S PROVE IsFiniteSet(UpTo(S, R, x)) /\ Cardinality(UpTo(S, R, x)) \in 1..n
  <2>1. UpTo(S, R, x) \in SUBSET S /\ x \in UpTo(S, R, x)
    BY DEF UpTo, Orders
  <2>2. IsFiniteSet(UpTo(S, R, x)) /\ Cardinality(UpTo(S, R, x)) <= n
    BY <2>1, FS_Subset
  <2>3. Cardinality(UpTo(S, R, x)) \in Nat
    BY <2>2, FS_CardinalityType
  <2>4. Cardinality(UpTo(S, R, x)) # 0
    BY <2>1, <2>2, FS_EmptySet
  <2>5. QED
    BY <2>2, <2>3, <2>4, <1>1
<1>3. ASSUME NEW x \in S, NEW y \in S, <<x, y>> \in R
      PROVE  Cardinality(UpTo(S, R, x)) # Cardinality(UpTo(S, R, y))
  <2>1. UpTo(S, R, x) \in SUBSET UpTo(S, R, y)
    BY <1>3 DEF UpTo, Orders
  <2>2. y \in UpTo(S, R, y) /\ y \notin UpTo(S, R, x)
    BY <1>3 DEF UpTo, Orders
  <2>3. QED
    BY <2>1, <2>2, <1>2, FS_Subset
<1>4. ASSUME NEW x \in S, NEW y \in S, Cardinality(UpTo(S, R, x)) = Cardinality(UpTo(S, R, y))
      PROVE  x = y
  BY <1>3, <1>4 DEF Orders
<1>5. place \in Injection(S, 1..n)
  <2>1. place \in [S -> 1..n]
    BY <1>2
  <2>2. \A x, y \in S : place[x] = place[y] => x = y
    BY <1>4
  <2>3. QED
    BY <2>1, <2>2 DEF Injection, IsInjective
<1>6. IsFiniteSet(1..n) /\ Cardinality(1..n) = n
  BY <1>1, FS_Interval
<1>7. place \in Surjection(S, 1..n)
  BY <1>5, <1>6, FS_Injection
<1>8. \A i \in 1..n : \E x \in S : place[x] = i
  BY <1>7 DEF Surjection
<1>9. QED
  BY <1>2, <1>4, <1>8

\* One that is not empty has a last element.
LEMMA LastOf ==
    ASSUME NEW S, IsFiniteSet(S), S # {}, NEW R, Orders(R, S)
    PROVE  \E x \in S : \A y \in S : <<x, y>> \notin R
<1>1. Cardinality(S) \in 1..Cardinality(S)
  BY FS_CardinalityType, FS_EmptySet
<1>2. \A i \in 1..Cardinality(S) : \E x \in S : Cardinality(UpTo(S, R, x)) = i
  BY PlacesOf
<1>3. PICK x \in S : Cardinality(UpTo(S, R, x)) = Cardinality(S)
  BY <1>1, <1>2
<1>4. UpTo(S, R, x) = S
  <2>1. UpTo(S, R, x) \in SUBSET S
    BY DEF UpTo
  <2> QED  BY <1>3, <2>1, FS_Subset
<1>5. QED
  BY <1>4 DEF UpTo

\* A finite set of numbers that is not empty has a largest one.
LEMMA MaxOf ==
    ASSUME NEW G, IsFiniteSet(G), G \subseteq Nat, G # {}
    PROVE  Max(G) \in G /\ \A g \in G : g <= Max(G)
<1> DEFINE less == {p \in G \X G : p[1] < p[2]}
<1>1. \A x, y \in G : <<x, y>> \in less <=> x < y
  OBVIOUS
<1>2. \A x, y \in G : x \in Nat /\ y \in Nat
  OBVIOUS
<1>3. \E x \in G : \A y \in G : <<x, y>> \notin less
  <2> HIDE DEF less
  <2>1. Orders(less, G)
    BY <1>1, <1>2 DEF Orders
  <2> QED  BY <2>1, LastOf
<1>4. PICK x \in G : \A y \in G : <<x, y>> \notin less
  BY <1>3
<1>5. \A y \in G : x >= y
  <2> SUFFICES ASSUME NEW y \in G PROVE x >= y
    OBVIOUS
  <2>1. ~(x < y)
    BY <1>1, <1>4
  <2> QED  BY <2>1, <1>2
<1>6. Max(G) \in G /\ \A y \in G : Max(G) >= y
  BY <1>5 DEF Max
<1>7. QED
  BY <1>6, <1>2

----------------------------------------------------------------------------
(* Points, and their number. *)

\* The points of finitely many numbers are finitely many.
LEMMA PointsFinite ==
    ASSUME NEW p, IsFiniteSet(DOMAIN p), \A g \in DOMAIN p : p[g] \in Nat
    PROVE  IsFiniteSet(Points(p)) /\ Total(p) \in Nat
<1> DEFINE D == DOMAIN p
           f == [g \in D |-> {g} \X (1..p[g])]
           T == {{g} \X (1..p[g]) : g \in D}
<1>1. f \in Surjection(D, T)
  <2>1. f \in [D -> T]
    OBVIOUS
  <2>2. \A t \in T : \E g \in D : f[g] = t
    OBVIOUS
  <2>3. QED
    BY <2>1, <2>2 DEF Surjection
<1>2. IsFiniteSet(T)
  <2> HIDE DEF f, T
  <2> QED  BY <1>1, FS_Surjection
<1>3. \A t \in T : IsFiniteSet(t)
  <2>1. SUFFICES ASSUME NEW g \in D PROVE IsFiniteSet({g} \X (1..p[g]))
    OBVIOUS
  <2>2. IsFiniteSet({g})
    BY FS_Singleton
  <2>3. IsFiniteSet(1..p[g])
    BY FS_Interval
  <2>4. QED
    BY <2>2, <2>3, FS_Product
<1>4. IsFiniteSet(UNION T)
  <2> HIDE DEF T
  <2> QED  BY <1>2, <1>3, FS_UNION
<1>5. IsFiniteSet(Points(p))
  BY <1>4 DEF Points
<1>6. QED
  BY <1>5, FS_CardinalityType DEF Total

\* No number is more than the sum.
LEMMA ShareAtMostTotal ==
    ASSUME NEW p, IsFiniteSet(DOMAIN p), \A g \in DOMAIN p : p[g] \in Nat,
           NEW g \in DOMAIN p
    PROVE  p[g] <= Total(p)
<1>1. {g} \X (1..p[g]) \in SUBSET Points(p)
  BY DEF Points
<1>2. IsFiniteSet({g}) /\ Cardinality({g}) = 1
  BY FS_Singleton
<1>3. IsFiniteSet(1..p[g]) /\ Cardinality(1..p[g]) = p[g]
  BY FS_Interval
<1>4. Cardinality({g} \X (1..p[g])) = p[g]
  <2>1. Cardinality({g} \X (1..p[g])) = Cardinality({g}) * Cardinality(1..p[g])
    BY <1>2, <1>3, FS_Product
  <2>2. Cardinality({g} \X (1..p[g])) = 1 * p[g] /\ p[g] \in Nat
    BY <2>1, <1>2, <1>3
  <2> QED  BY <2>2
<1>5. QED
  BY <1>1, <1>4, PointsFinite, FS_Subset DEF Total

\* A part of the numbers makes no more than all.
LEMMA FewerPoints ==
    ASSUME NEW p, IsFiniteSet(DOMAIN p), \A g \in DOMAIN p : p[g] \in Nat,
           NEW q, DOMAIN q \subseteq DOMAIN p, \A g \in DOMAIN q : q[g] = p[g]
    PROVE  Total(q) \in Nat /\ Total(q) <= Total(p)
<1>1. Points(q) \in SUBSET Points(p)
  BY DEF Points
<1>2. QED
  BY <1>1, PointsFinite, FS_Subset, FS_CardinalityType DEF Total

\* The sum of zeros is zero, and of nothing else.
LEMMA TotalZero ==
    ASSUME NEW p, IsFiniteSet(DOMAIN p), \A g \in DOMAIN p : p[g] \in Nat
    PROVE  Total(p) = 0 <=> \A g \in DOMAIN p : p[g] = 0
<1>1. ASSUME Total(p) = 0, NEW g \in DOMAIN p PROVE p[g] = 0
  <2>1. p[g] <= 0 /\ p[g] \in Nat
    BY <1>1, ShareAtMostTotal
  <2> QED  BY <2>1
<1>2. ASSUME \A g \in DOMAIN p : p[g] = 0 PROVE Total(p) = 0
  <2>1. \A g \in DOMAIN p : 1..p[g] = {}
    BY <1>2
  <2>2. Points(p) = {}
    BY <2>1 DEF Points
  <2> QED  BY <2>2, FS_EmptySet DEF Total
<1>3. QED
  BY <1>1, <1>2

----------------------------------------------------------------------------
(* A sorted set. *)

\* Sorting lists every element once.
LEMMA SortedWhole ==
    ASSUME NEW S, IsFiniteSet(S), NEW R, Orders(R, S)
    PROVE  /\ Cardinality(S) \in Nat
           /\ DOMAIN Sorted(S, R) = 1..Cardinality(S)
           /\ \A i \in DOMAIN Sorted(S, R) :
                /\ Sorted(S, R)[i] \in S
                /\ Cardinality(UpTo(S, R, Sorted(S, R)[i])) = i
           /\ \A x \in S : /\ Cardinality(UpTo(S, R, x)) \in DOMAIN Sorted(S, R)
                           /\ Sorted(S, R)[Cardinality(UpTo(S, R, x))] = x
<1>1. DOMAIN Sorted(S, R) = 1..Cardinality(S) /\ Cardinality(S) \in Nat
  BY FS_CardinalityType DEF Sorted
<1>2. ASSUME NEW i \in 1..Cardinality(S)
      PROVE  Sorted(S, R)[i] \in S /\ Cardinality(UpTo(S, R, Sorted(S, R)[i])) = i
  <2>1. Sorted(S, R)[i] = CHOOSE x \in S : Cardinality(UpTo(S, R, x)) = i
    BY DEF Sorted
  <2>2. \E x \in S : Cardinality(UpTo(S, R, x)) = i
    BY PlacesOf
  <2> QED  BY <2>1, <2>2
<1>3. ASSUME NEW x \in S
      PROVE  /\ Cardinality(UpTo(S, R, x)) \in 1..Cardinality(S)
             /\ Sorted(S, R)[Cardinality(UpTo(S, R, x))] = x
  <2>1. Cardinality(UpTo(S, R, x)) \in 1..Cardinality(S)
    BY PlacesOf
  <2>2. /\ Sorted(S, R)[Cardinality(UpTo(S, R, x))] \in S
        /\ Cardinality(UpTo(S, R, Sorted(S, R)[Cardinality(UpTo(S, R, x))]))
             = Cardinality(UpTo(S, R, x))
    BY <2>1, <1>2
  <2> QED  BY <2>1, <2>2, PlacesOf
<1>4. QED
  BY <1>1, <1>2, <1>3

\* Whatever comes first has the smaller place.
LEMMA SortedInOrder ==
    ASSUME NEW S, IsFiniteSet(S), NEW R, Orders(R, S), NEW x \in S, NEW y \in S
    PROVE  <<x, y>> \in R <=> Cardinality(UpTo(S, R, x)) < Cardinality(UpTo(S, R, y))
<1> DEFINE place(z) == Cardinality(UpTo(S, R, z))
<1>1. \A z \in S : place(z) \in Nat /\ IsFiniteSet(UpTo(S, R, z))
  <2> TAKE z \in S
  <2>1. UpTo(S, R, z) \in SUBSET S
    BY DEF UpTo
  <2> QED  BY <2>1, FS_Subset, FS_CardinalityType
<1>2. \A v, w \in S : <<v, w>> \in R => place(v) < place(w)
  <2> SUFFICES ASSUME NEW v \in S, NEW w \in S, <<v, w>> \in R PROVE place(v) < place(w)
    OBVIOUS
  <2>1. UpTo(S, R, v) \in SUBSET UpTo(S, R, w)
    BY DEF UpTo, Orders
  <2>2. w \in UpTo(S, R, w) /\ w \notin UpTo(S, R, v)
    BY DEF UpTo, Orders
  <2>3. place(v) <= place(w) /\ place(v) # place(w)
    BY <2>1, <2>2, <1>1, FS_Subset
  <2> QED  BY <2>3, <1>1
<1> HIDE DEF place
<1>3. x = y \/ <<x, y>> \in R \/ <<y, x>> \in R
  BY DEF Orders
<1>4. <<x, x>> \notin R
  BY DEF Orders
<1>5. place(x) \in Nat /\ place(y) \in Nat
  BY <1>1
<1>6. <<x, y>> \in R <=> place(x) < place(y)
  BY <1>2, <1>3, <1>4, <1>5
<1>7. QED
  BY <1>6 DEF place

\* A set of numbers that is not empty has a least one.
LEMMA MinOf ==
    ASSUME NEW G, G \subseteq Nat, G # {}
    PROVE  Min(G) \in G /\ \A g \in G : Min(G) <= g
<1>1. PICK m \in G : TRUE
  OBVIOUS
<1> DEFINE D == {g \in G : g <= m}
           after == {p \in D \X D : p[1] > p[2]}
<1>2. \A x, y \in D : (<<x, y>> \in after <=> x > y) /\ x \in Nat /\ y \in Nat
  OBVIOUS
<1>3. m \in D /\ m \in Nat
  <2>1. m \in Nat
    BY <1>1
  <2> QED  BY <2>1, <1>1
<1>4. IsFiniteSet(D)
  <2>1. D \in SUBSET (0..m)
    <3>1. \A g \in D : g \in Nat /\ g <= m
      OBVIOUS
    <3>2. \A g \in D : g \in 0..m
      <4> HIDE DEF D
      <4> QED  BY <3>1, <1>3
    <3> HIDE DEF D
    <3> QED  BY <3>2
  <2>2. IsFiniteSet(0..m)
    BY <1>3, FS_Interval
  <2> HIDE DEF D
  <2> QED  BY <2>1, <2>2, FS_Subset
<1>5. \E x \in D : \A y \in D : <<x, y>> \notin after
  <2> HIDE DEF after, D
  <2>1. Orders(after, D)
    BY <1>2 DEF Orders
  <2> QED  BY <2>1, <1>3, <1>4, LastOf
<1>6. PICK x \in D : \A y \in D : ~(x > y)
  BY <1>2, <1>5
<1>7. x \in G /\ \A y \in G : x <= y
  <2>1. x \in G /\ x <= m /\ x \in Nat /\ m \in Nat
    BY <1>3
  <2>2. ASSUME NEW y \in G PROVE x <= y
    BY <2>1, <2>2, <1>6
  <2> QED  BY <2>1, <2>2
<1>8. Min(G) \in G /\ \A y \in G : Min(G) <= y
  BY <1>7 DEF Min
<1>9. QED
  BY <1>8
===========================================================================
