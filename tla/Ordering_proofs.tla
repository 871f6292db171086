--------------------------- MODULE Ordering_proofs ---------------------------
(***************************************************************************)
(* What FirstOf returns, for every finite set and every order on it.       *)
(***************************************************************************)
EXTENDS Ordering, Sequences, FiniteSetTheorems, TLAPS

LEMMA UpToFinite ==
    ASSUME NEW n \in Nat
    PROVE  IsFiniteSet(1..n) /\ Cardinality(1..n) = n
<1>1. IsFiniteSet(1..n) /\ Cardinality(1..n) = IF 1 > n THEN 0 ELSE n - 1 + 1
  BY FS_Interval
<1> QED BY <1>1

LEMMA BeforeFinite ==
    ASSUME NEW S, IsFiniteSet(S), NEW R, Orders(R, S), NEW x \in S
    PROVE  /\ IsFiniteSet(Before(x, S, R))
           /\ Cardinality(Before(x, S, R)) \in 0..(Cardinality(S) - 1)
<1>1. Before(x, S, R) \in SUBSET (S \ {x})
  BY DEF Before, Orders
<1>2. IsFiniteSet(S \ {x}) /\ Cardinality(S \ {x}) = Cardinality(S) - 1
  BY FS_RemoveElement
<1>3. /\ IsFiniteSet(Before(x, S, R))
      /\ Cardinality(Before(x, S, R)) <= Cardinality(S) - 1
  BY <1>1, <1>2, FS_Subset
<1>4. Cardinality(Before(x, S, R)) \in Nat /\ Cardinality(S) \in Nat
  BY <1>3, FS_CardinalityType
<1> QED BY <1>3, <1>4

\* Fewer are before x than before y if x is before y.
LEMMA BeforeGrows ==
    ASSUME NEW S, IsFiniteSet(S), NEW R, Orders(R, S),
           NEW x \in S, NEW y \in S, <<x, y>> \in R
    PROVE  Cardinality(Before(x, S, R)) < Cardinality(Before(y, S, R))
<1>1. Before(x, S, R) \in SUBSET Before(y, S, R)
  BY DEF Before, Orders
<1>2. x \in Before(y, S, R) /\ x \notin Before(x, S, R)
  BY DEF Before, Orders
<1>3. IsFiniteSet(Before(y, S, R)) /\ IsFiniteSet(Before(x, S, R))
  BY BeforeFinite
<1>4. Cardinality(Before(x, S, R)) <= Cardinality(Before(y, S, R))
      /\ Cardinality(Before(x, S, R)) # Cardinality(Before(y, S, R))
  BY <1>1, <1>2, <1>3, FS_Subset
<1>5. Cardinality(Before(x, S, R)) \in Nat /\ Cardinality(Before(y, S, R)) \in Nat
  BY <1>3, FS_CardinalityType
<1> QED BY <1>4, <1>5

\* There is an element for every place.
LEMMA EveryPlaceTaken ==
    ASSUME NEW S, IsFiniteSet(S), NEW R, Orders(R, S), NEW n \in 1..Cardinality(S)
    PROVE  \E x \in S : Cardinality(Before(x, S, R)) = n - 1
<1> DEFINE place == [x \in S |-> Cardinality(Before(x, S, R)) + 1]
           places == 1..Cardinality(S)
<1>1. Cardinality(S) \in Nat
  BY FS_CardinalityType
<1>2. place \in [S -> places]
  BY <1>1, BeforeFinite
<1>3. \A x, y \in S : place[x] = place[y] => x = y
  <2> SUFFICES ASSUME NEW x \in S, NEW y \in S, place[x] = place[y], x # y
               PROVE  FALSE
    OBVIOUS
  <2>1. Cardinality(Before(x, S, R)) \in Nat /\ Cardinality(Before(y, S, R)) \in Nat
    BY BeforeFinite, <1>1
  <2>2. Cardinality(Before(x, S, R)) = Cardinality(Before(y, S, R))
    BY <2>1
  <2>3. CASE <<x, y>> \in R
    BY <2>1, <2>2, <2>3, BeforeGrows
  <2>4. CASE <<y, x>> \in R
    BY <2>1, <2>2, <2>4, BeforeGrows
  <2> QED BY <2>3, <2>4 DEF Orders
<1>4. IsFiniteSet(places) /\ Cardinality(places) = Cardinality(S)
  BY <1>1, FS_Interval
<1> HIDE DEF place, places
<1>5. place \in Injection(S, places)
  BY <1>2, <1>3 DEF Injection, IsInjective
<1>6. place \in Surjection(S, places)
  BY <1>4, <1>5, FS_Injection
<1>7. PICK x \in S : place[x] = n
  BY <1>6 DEF Surjection, places
<1> QED BY <1>7, BeforeFinite, <1>1 DEF place


LEMMA PlacesOrder ==
    ASSUME NEW S, IsFiniteSet(S), NEW R, Orders(R, S), NEW x \in S, NEW y \in S
    PROVE  /\ Cardinality(Before(x, S, R)) \in Nat
           /\ Cardinality(Before(x, S, R)) = Cardinality(Before(y, S, R)) => x = y
           /\ <<x, y>> \in R <=> Cardinality(Before(x, S, R)) < Cardinality(Before(y, S, R))
<1>1. Cardinality(Before(x, S, R)) \in Nat /\ Cardinality(Before(y, S, R)) \in Nat
  BY BeforeFinite, FS_CardinalityType
<1>2. x = y \/ <<x, y>> \in R \/ <<y, x>> \in R
  BY DEF Orders
<1>3. CASE x = y
  BY <1>1, <1>3 DEF Orders
<1>4. CASE <<x, y>> \in R
  BY <1>1, <1>4, BeforeGrows
<1>5. CASE x # y /\ <<y, x>> \in R
  BY <1>1, <1>5, BeforeGrows
<1> QED BY <1>2, <1>3, <1>4, <1>5

\* The n-th of the list is the one that n - 1 are before.
LEMMA FirstOfPlaces ==
    ASSUME NEW S, IsFiniteSet(S), NEW R, Orders(R, S), NEW limit \in Nat
    PROVE  LET list == FirstOf(S, R, limit)
           IN  /\ Len(list) = IF limit < Cardinality(S) THEN limit ELSE Cardinality(S)
               /\ list \in Seq(S)
               /\ \A n \in 1..Len(list) :
                    list[n] \in S /\ Cardinality(Before(list[n], S, R)) = n - 1
<1> DEFINE list == FirstOf(S, R, limit)
           size == IF limit < Cardinality(S) THEN limit ELSE Cardinality(S)
<1>1. Cardinality(S) \in Nat /\ size \in Nat /\ size <= Cardinality(S)
  BY FS_CardinalityType
<1>2. ASSUME NEW n \in 1..size
      PROVE  list[n] \in S /\ Cardinality(Before(list[n], S, R)) = n - 1
  <2>1. n \in 1..Cardinality(S)
    BY <1>1, <1>2
  <2>2. \E x \in S : Cardinality(Before(x, S, R)) = n - 1
    BY <2>1, EveryPlaceTaken
  <2>3. list[n] = CHOOSE x \in S : Cardinality(Before(x, S, R)) = n - 1
    BY DEF FirstOf
  <2> HIDE DEF list
  <2> QED BY <2>2, <2>3
<1>3. list = [n \in 1..size |-> list[n]]
  BY DEF FirstOf
<1> HIDE DEF list, size
<1>4. list \in Seq(S) /\ Len(list) = size
  BY <1>1, <1>2, <1>3
<1>5. \A n \in 1..Len(list) : list[n] \in S /\ Cardinality(Before(list[n], S, R)) = n - 1
  BY <1>2, <1>4
<1> QED BY <1>4, <1>5 DEF list, size

\* What FirstOf returns is in order and leaves none out before one it takes;
\* nothing is left out at all unless the limit is reached.
LEMMA FirstOfOrdered ==
    ASSUME NEW S, IsFiniteSet(S), NEW R, Orders(R, S), NEW limit \in Nat
    PROVE  LET list == FirstOf(S, R, limit)
           IN  /\ list \in Seq(S)
               /\ \A i, j \in 1..Len(list) : i < j => <<list[i], list[j]>> \in R
               /\ \A x \in S, i \in 1..Len(list) : <<x, list[i]>> \in R =>
                        \E j \in 1..Len(list) : list[j] = x
               /\ Len(list) <= limit
               /\ Len(list) < limit => \A x \in S : \E j \in 1..Len(list) : list[j] = x
<1> DEFINE list == FirstOf(S, R, limit)
<1>1. /\ Len(list) = IF limit < Cardinality(S) THEN limit ELSE Cardinality(S)
      /\ list \in Seq(S)
      /\ \A n \in 1..Len(list) : list[n] \in S /\ Cardinality(Before(list[n], S, R)) = n - 1
  BY FirstOfPlaces
<1> HIDE DEF list
<1>2. Cardinality(S) \in Nat /\ Len(list) \in Nat /\ Len(list) <= limit
      /\ (Len(list) < limit => Len(list) = Cardinality(S))
  BY <1>1, FS_CardinalityType
<1>3. ASSUME NEW i \in 1..Len(list), NEW j \in 1..Len(list), i < j
      PROVE  <<list[i], list[j]>> \in R
  <2>1. Cardinality(Before(list[i], S, R)) < Cardinality(Before(list[j], S, R))
    BY <1>1, <1>2, <1>3
  <2> QED BY <1>1, <2>1, PlacesOrder
<1>4. ASSUME NEW x \in S, NEW n \in Nat, n <= Len(list),
             Cardinality(Before(x, S, R)) < n
      PROVE  \E j \in 1..Len(list) : list[j] = x
  <2> DEFINE j == Cardinality(Before(x, S, R)) + 1
  <2>1. Cardinality(Before(x, S, R)) \in Nat
    BY BeforeFinite, FS_CardinalityType
  <2>2. j \in 1..Len(list) /\ j - 1 = Cardinality(Before(x, S, R))
    BY <1>2, <1>4, <2>1
  <2>3. list[j] \in S /\ Cardinality(Before(list[j], S, R)) = Cardinality(Before(x, S, R))
    BY <1>1, <2>2
  <2> HIDE DEF j
  <2>4. list[j] = x
    BY <2>3, PlacesOrder
  <2> QED BY <2>2, <2>4
<1>5. ASSUME NEW x \in S, NEW i \in 1..Len(list), <<x, list[i]>> \in R
      PROVE  \E j \in 1..Len(list) : list[j] = x
  <2>1. Cardinality(Before(x, S, R)) < Cardinality(Before(list[i], S, R))
    BY <1>1, <1>5, PlacesOrder
  <2>2. Cardinality(Before(list[i], S, R)) = i - 1
    BY <1>1
  <2>3. Cardinality(Before(x, S, R)) \in Nat
    BY BeforeFinite, FS_CardinalityType
  <2>4. i \in Nat /\ i <= Len(list) /\ Cardinality(Before(x, S, R)) < i
    BY <1>2, <2>1, <2>2, <2>3
  <2> QED BY <2>4, <1>4
<1>6. ASSUME Len(list) < limit, NEW x \in S
      PROVE  \E j \in 1..Len(list) : list[j] = x
  <2>1. Cardinality(Before(x, S, R)) \in 0..(Cardinality(S) - 1)
    BY BeforeFinite
  <2>2. Cardinality(Before(x, S, R)) < Len(list)
    BY <1>2, <1>6, <2>1
  <2> QED BY <1>2, <1>4, <2>2
<1> QED BY <1>1, <1>2, <1>3, <1>5, <1>6 DEF list

\* A list in the order R is the beginning of what FirstOf returns, if it is no
\* longer than the limit and leaves none out before one it has; if it leaves none
\* out at all, or reaches the limit, it is the whole of it.
LEMMA BeginningOfFirst ==
    ASSUME NEW S, IsFiniteSet(S), NEW R, Orders(R, S), NEW limit \in Nat,
           NEW list \in Seq(S), Len(list) <= limit,
           \A i, j \in 1..Len(list) : i < j => <<list[i], list[j]>> \in R,
           \A x \in S, i \in 1..Len(list) :
                <<x, list[i]>> \in R => \E j \in 1..Len(list) : list[j] = x
    PROVE  LET first == FirstOf(S, R, limit)
           IN  /\ Len(list) <= Len(first)
               /\ \A i \in 1..Len(list) : list[i] = first[i]
               /\ limit <= Len(list) \/ (\A x \in S : \E i \in 1..Len(list) : list[i] = x)
                    => Len(list) = Len(first)
<1> DEFINE first == FirstOf(S, R, limit)
<1>1. /\ Len(first) = IF limit < Cardinality(S) THEN limit ELSE Cardinality(S)
      /\ first \in Seq(S)
      /\ \A n \in 1..Len(first) : first[n] \in S /\ Cardinality(Before(first[n], S, R)) = n - 1
  BY FirstOfPlaces
<1> HIDE DEF first
<1>2. /\ Cardinality(S) \in Nat /\ Len(list) \in Nat /\ Len(first) \in Nat
      /\ \A i \in 1..Len(list) : list[i] \in S
  BY <1>1, FS_CardinalityType
<1>3. ASSUME NEW i \in 1..Len(list)
      PROVE  Cardinality(Before(list[i], S, R)) = i - 1
  <2> DEFINE up == [j \in 1..(i - 1) |-> list[j]]
             above == Before(list[i], S, R)
  <2>1. \A j \in 1..(i - 1) : j \in 1..Len(list) /\ j < i /\ list[j] \in S
    BY <1>2
  <2>2. \A j \in 1..(i - 1) : <<list[j], list[i]>> \in R
    BY <2>1
  <2>3. up \in [1..(i - 1) -> above]
    BY <2>1, <2>2 DEF Before
  <2>4. ASSUME NEW j \in 1..(i - 1), NEW k \in 1..(i - 1), up[j] = up[k]
        PROVE  j = k
    <3>1. ~(j < k) /\ ~(k < j)
      BY <2>1, <2>4 DEF Orders
    <3> QED BY <3>1
  <2>5. ASSUME NEW x \in above
        PROVE  \E j \in 1..(i - 1) : up[j] = x
    <3>1. x \in S /\ <<x, list[i]>> \in R
      BY DEF Before
    <3>2. PICK j \in 1..Len(list) : list[j] = x
      BY <3>1
    <3>3. ~(j = i) /\ ~(i < j)
      BY <1>2, <3>1, <3>2 DEF Orders
    <3> QED BY <1>2, <3>2, <3>3
  <2> HIDE DEF up, above
  <2>6. ExistsBijection(1..(i - 1), above)
    BY <2>3, <2>4, <2>5 DEF ExistsBijection, Bijection, Injection, Surjection, IsInjective
  <2>7. IsFiniteSet(1..(i - 1)) /\ Cardinality(1..(i - 1)) = i - 1
    BY <1>2, UpToFinite
  <2>8. Cardinality(above) = i - 1
    BY <2>6, <2>7, FS_Bijection
  <2> QED BY <2>8 DEF above
<1>4. ASSUME NEW i \in 1..Len(list)
      PROVE  i <= Len(first) /\ list[i] = first[i]
  <2>1. Cardinality(Before(list[i], S, R)) \in 0..(Cardinality(S) - 1)
    BY <1>2, BeforeFinite
  <2>2. i <= Cardinality(S)
    BY <1>2, <1>3, <2>1
  <2>3. i \in 1..Len(first)
    BY <1>1, <1>2, <2>2
  <2>4. first[i] \in S /\ Cardinality(Before(first[i], S, R)) = i - 1
    BY <1>1, <2>3
  <2>5. list[i] \in S /\ Cardinality(Before(list[i], S, R)) = Cardinality(Before(first[i], S, R))
    BY <1>2, <1>3, <2>4
  <2>6. list[i] = first[i]
    BY <2>4, <2>5, PlacesOrder
  <2> QED BY <2>3, <2>6
<1>5. Len(list) <= Len(first)
  <2>1. CASE Len(list) = 0
    BY <1>2, <2>1
  <2>2. CASE Len(list) # 0
    BY <1>2, <1>4, <2>2
  <2> QED BY <2>1, <2>2
<1>6. ASSUME \A x \in S : \E i \in 1..Len(list) : list[i] = x
      PROVE  Len(first) <= Len(list)
  <2> SUFFICES ASSUME Len(list) < Len(first)
               PROVE  FALSE
    BY <1>2
  <2>1. Len(first) \in 1..Len(first)
    BY <1>2
  <2>2. first[Len(first)] \in S /\ Cardinality(Before(first[Len(first)], S, R)) = Len(first) - 1
    BY <1>1, <2>1
  <2>3. PICK i \in 1..Len(list) : list[i] = first[Len(first)]
    BY <1>6, <2>2
  <2>4. i - 1 = Len(first) - 1
    BY <1>3, <2>2, <2>3
  <2> QED BY <1>2, <2>4
<1>7. ASSUME limit <= Len(list)
      PROVE  Len(first) <= Len(list)
  BY <1>1, <1>2, <1>7
<1> QED BY <1>2, <1>4, <1>5, <1>6, <1>7 DEF first

\* What a filter leaves is what it keeps, in the order it was.
LEMMA PickedKeeps ==
    ASSUME NEW E, NEW list \in Seq(E), NEW kept \in SUBSET (1..Len(list))
    PROVE  LET left == Picked(list, kept)
           IN  /\ left \in Seq(E) /\ Len(left) <= Len(list)
               /\ \E place \in Seq(kept) :
                    /\ Len(place) = Len(left)
                    /\ \A i \in 1..Len(left) : left[i] = list[place[i]] /\ place[i] \in kept
                    /\ \A i, j \in 1..Len(left) : i < j => place[i] < place[j]
                    /\ \A k \in kept : \E i \in 1..Len(left) : place[i] = k
<1> DEFINE earlier == {p \in kept \X kept : p[1] < p[2]}
           place == FirstOf(kept, earlier, Cardinality(kept))
           left == [n \in DOMAIN place |-> list[place[n]]]
<1>1. left = Picked(list, kept)
  BY DEF Picked
<1>2. kept \in SUBSET (1..Len(list))
  OBVIOUS
<1>3. Len(list) \in Nat /\ \A k \in 1..Len(list) : list[k] \in E
  OBVIOUS
<1>4. IsFiniteSet(kept) /\ Cardinality(kept) \in Nat /\ Cardinality(kept) <= Len(list)
  <2>1. IsFiniteSet(1..Len(list)) /\ Cardinality(1..Len(list)) = Len(list)
    BY <1>3, UpToFinite
  <2>2. IsFiniteSet(kept) /\ Cardinality(kept) <= Cardinality(1..Len(list))
    BY <1>2, <2>1, FS_Subset
  <2> QED BY <2>1, <2>2, FS_CardinalityType
<1>5. \A i, j \in kept : <<i, j>> \in earlier <=> i < j
  OBVIOUS
<1> HIDE DEF earlier
<1>6. Orders(earlier, kept)
  BY <1>2, <1>3, <1>5 DEF Orders
<1>7. /\ place \in Seq(kept) /\ Len(place) <= Cardinality(kept)
      /\ \A i, j \in 1..Len(place) : i < j => <<place[i], place[j]>> \in earlier
      /\ Len(place) = Cardinality(kept)
      /\ \A i \in 1..Len(place) : Cardinality(Before(place[i], kept, earlier)) = i - 1
  <2>1. /\ place \in Seq(kept) /\ Len(place) <= Cardinality(kept)
        /\ \A i, j \in 1..Len(place) : i < j => <<place[i], place[j]>> \in earlier
    BY <1>4, <1>6, FirstOfOrdered
  <2>2. ASSUME NEW limit \in Nat, limit = Cardinality(kept)
        PROVE  /\ Len(FirstOf(kept, earlier, limit)) = limit
               /\ \A i \in 1..limit :
                    Cardinality(Before(FirstOf(kept, earlier, limit)[i], kept, earlier)) = i - 1
    <3> DEFINE l == FirstOf(kept, earlier, limit)
    <3>1. Len(l) = IF limit < Cardinality(kept) THEN limit ELSE Cardinality(kept)
      BY <1>4, <1>6, FirstOfPlaces
    <3>2. \A n \in 1..Len(l) : Cardinality(Before(l[n], kept, earlier)) = n - 1
      BY <1>4, <1>6, FirstOfPlaces
    <3> HIDE DEF l
    <3>3. Len(l) = limit
      BY <2>2, <3>1
    <3> QED BY <3>2, <3>3 DEF l
  <2>3. /\ Len(place) = Cardinality(kept)
        /\ \A i \in 1..Len(place) : Cardinality(Before(place[i], kept, earlier)) = i - 1
    BY <1>4, <2>2
  <2> HIDE DEF place
  <2> QED BY <2>1, <2>3
<1>8. ASSUME NEW k \in kept
      PROVE  \E i \in 1..Len(place) : place[i] = k
  <2> DEFINE i == Cardinality(Before(k, kept, earlier)) + 1
  <2>1. Cardinality(Before(k, kept, earlier)) \in 0..(Cardinality(kept) - 1)
    BY <1>4, <1>6, BeforeFinite
  <2>2. i \in 1..Len(place) /\ Cardinality(Before(k, kept, earlier)) = i - 1
    BY <1>4, <1>7, <2>1
  <2>3. place[i] \in kept
    BY <1>7, <2>2
  <2> HIDE DEF i
  <2>4. Cardinality(Before(place[i], kept, earlier)) = Cardinality(Before(k, kept, earlier))
    BY <1>7, <2>2
  <2>5. place[i] = k
    BY <1>4, <1>6, <2>3, <2>4, PlacesOrder
  <2> QED BY <2>2, <2>5
<1> HIDE DEF place
<1>9. left \in Seq(E) /\ Len(left) = Len(place) /\ Len(left) <= Len(list)
      /\ \A i \in 1..Len(left) : left[i] = list[place[i]] /\ place[i] \in kept
  <2>1. DOMAIN place = 1..Len(place) /\ Len(place) \in Nat
        /\ \A i \in 1..Len(place) : place[i] \in kept
    BY <1>7
  <2>2. \A i \in 1..Len(place) : place[i] \in 1..Len(list) /\ list[place[i]] \in E
    BY <1>2, <1>3, <2>1
  <2>3. left = [n \in 1..Len(place) |-> list[place[n]]]
    BY <2>1
  <2>4. left \in Seq(E) /\ Len(left) = Len(place)
    BY <2>1, <2>2, <2>3
  <2>5. Len(left) <= Len(list)
    BY <1>4, <1>7, <2>4
  <2> HIDE DEF left
  <2> QED BY <2>1, <2>3, <2>4, <2>5 DEF left
<1> HIDE DEF left
<1>10. \A i, j \in 1..Len(left) : i < j => place[i] < place[j]
  BY <1>5, <1>7, <1>9
<1>11. place \in Seq(kept) /\ Len(place) = Len(left)
  BY <1>7, <1>9
<1>12. \A k \in kept : \E i \in 1..Len(left) : place[i] = k
  BY <1>8, <1>9
<1> QED BY <1>1, <1>9, <1>10, <1>11, <1>12
=============================================================================
