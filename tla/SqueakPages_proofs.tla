------------------------- MODULE SqueakPages_proofs -------------------------
(***************************************************************************)
(* That lists of squeaks are in order and without gaps, for every set of   *)
(* squeaks, every page size and any number of requests under way.          *)
(***************************************************************************)
EXTENDS SqueakPages, Ordering_proofs

\* Requests whose page has not been appended.
UnderWay == fetches \cup {r.fetch : r \in replies}

\* What a list, as it was opened last, has asked for.
AskedFor(l) == {f \in UnderWay : ListOf(f.query) = l /\ f.id >= opened[l]}

Numbered ==
    /\ \A f \in UnderWay : f.id <= fetched
    /\ \A l \in List : opened[l] <= fetched
    /\ \A r \in replies : r.fetch \notin fetches
    /\ \A r1, r2 \in replies : r1.fetch = r2.fetch => r1 = r2

Opened ==
    /\ \A l \in List : query[l] # None => ListOf(query[l]) = l
    /\ query["search"] # None => searchText \in Text
    /\ \A l \in List : stable[l] \subseteq IF query[l] = None THEN {} ELSE Matches(query[l])

\* LOAD MORE waits for the page that is under way.
OneAtATime ==
    \A l \in List \ mixed : \A f \in AskedFor(l) :
        l \in loading /\ \A g \in AskedFor(l) : f = g

\* The list ends where the page that was asked for begins.
Continues(l, f) ==
    /\ f.last = None => shown[l] = <<>>
    /\ f.last # None =>
        /\ \A i \in 1..Len(shown[l]) : ~Below(shown[l][i], f.last)
        /\ \A s \in stable[l] : Below(s, f.last) \/ s \in Range(shown[l])

FetchesContinue ==
    \A l \in List \ mixed : \A f \in AskedFor(l) : f.query = query[l] => Continues(l, f)

InOrder(list) ==
    \A i, j \in 1..Len(list) : i < j => Below(list[j], list[i])

HasNoGaps(list, S) ==
    \A s \in S : (\E t \in Range(list) : Below(t, s)) => s \in Range(list)

PagesFit ==
    \A r \in replies :
        /\ InOrder(r.page)
        /\ r.fetch.last # None => \A i \in 1..Len(r.page) : Below(r.page[i], r.fetch.last)
        /\ LET l == ListOf(r.fetch.query)
           IN  r.fetch.id >= opened[l] /\ r.fetch.query = query[l] =>
                 HasNoGaps(r.page, {s \in stable[l] :
                                        r.fetch.last = None \/ Below(s, r.fetch.last)})

ListsFit ==
    \A l \in List \ mixed : InOrder(shown[l]) /\ HasNoGaps(shown[l], stable[l])

PagesInv ==
    TypeOK /\ Numbered /\ Opened /\ OneAtATime /\ FetchesContinue /\ PagesFit /\ ListsFit
-----------------------------------------------------------------------------
(* The order of squeaks, the pages and the changes of lists.               *)

\* The hash tells any two squeaks apart: they are in a strict order.
LEMMA BelowOrders ==
    ASSUME NEW s \in Squeak, NEW t \in Squeak, NEW u \in Squeak
    PROVE  /\ ~Below(s, s)
           /\ s = t \/ Below(s, t) \/ Below(t, s)
           /\ Below(s, t) /\ Below(t, u) => Below(s, u)
<1>1. \A v \in Squeak : Key[v][1] \in Nat /\ Key[v][2] \in Nat /\ Key[v][3] \in Nat
  BY SqueakAssumption
<1>2. Key[s][3] = Key[t][3] => s = t
  BY SqueakAssumption
<1> QED BY <1>1, <1>2 DEF Below, Less

LEMMA NewerOrders ==
    ASSUME NEW S \in SUBSET Squeak
    PROVE  /\ IsFiniteSet(S) /\ Orders(Newer, S)
           /\ \A s, t \in S : <<s, t>> \in Newer <=> Below(t, s)
<1>1. IsFiniteSet(S)
  BY SqueakAssumption, FS_Subset
<1>2. \A s, t \in S : <<s, t>> \in Newer <=> Below(t, s)
  BY DEF Newer, Below
<1>3. Orders(Newer, S)
  BY <1>2, BelowOrders DEF Orders
<1> QED BY <1>1, <1>2, <1>3

\* A page holds rows below the last entry, the newest of them, in order.
LEMMA PageFits ==
    ASSUME TypeOK, NEW q, NEW last \in Squeak \cup {None}
    PROVE  LET page == GetPage(q, last)
           IN  /\ page \in Seq(Squeak)
               /\ InOrder(page)
               /\ last # None => \A i \in 1..Len(page) : Below(page[i], last)
               /\ \A S : S \subseteq {s \in Matches(q) : last = None \/ Below(s, last)} =>
                        HasNoGaps(page, S)
<1> DEFINE rows == {s \in Matches(q) : last = None \/ Below(s, last)}
           page == FirstOf(rows, Newer, Limit)
<1>1. rows \in SUBSET Squeak
  BY DEF TypeOK, Matches
<1>2. page = GetPage(q, last)
  BY DEF GetPage
<1>3. \A s \in rows : last = None \/ Below(s, last)
  OBVIOUS
<1> HIDE DEF rows
<1>4. Limit \in Nat
  BY EnvironmentAssumption
<1>5. /\ page \in Seq(rows)
      /\ \A i, j \in 1..Len(page) : i < j => <<page[i], page[j]>> \in Newer
      /\ \A x \in rows, i \in 1..Len(page) : <<x, page[i]>> \in Newer =>
            \E j \in 1..Len(page) : page[j] = x
  <2>1. IsFiniteSet(rows) /\ Orders(Newer, rows)
    BY <1>1, NewerOrders
  <2> QED BY <1>4, <2>1, FirstOfOrdered
<1> HIDE DEF page
<1>6. page \in Seq(Squeak) /\ \A i \in 1..Len(page) : page[i] \in rows
  BY <1>1, <1>5
<1>7. InOrder(page)
  BY <1>1, <1>5, <1>6, NewerOrders DEF InOrder
<1>8. ASSUME NEW S \in SUBSET rows
      PROVE  HasNoGaps(page, S)
  <2> SUFFICES ASSUME NEW s \in S, NEW t \in Range(page), Below(t, s)
               PROVE  s \in Range(page)
    BY DEF HasNoGaps
  <2>1. PICK i \in 1..Len(page) : t = page[i]
    BY <1>6 DEF Range
  <2>2. <<s, page[i]>> \in Newer
    BY <1>1, <1>6, <2>1, NewerOrders
  <2>3. PICK j \in 1..Len(page) : page[j] = s
    BY <1>5, <2>2
  <2> QED BY <1>6, <2>3 DEF Range
<1> QED BY <1>2, <1>3, <1>6, <1>7, <1>8 DEF rows

LEMMA InRange ==
    ASSUME NEW S, NEW list \in Seq(S), NEW x
    PROVE  x \in Range(list) <=> \E i \in 1..Len(list) : list[i] = x
BY DEF Range

\* What is left of a list is in the order it was.
LEMMA WithoutKeeps ==
    ASSUME NEW list \in Seq(Squeak), NEW x
    PROVE  LET left == Without(list, x)
           IN  /\ left \in Seq(Squeak)
               /\ \A y : y \in Range(left) <=> y \in Range(list) /\ y # x
               /\ InOrder(list) => InOrder(left)
<1> DEFINE kept == {i \in DOMAIN list : list[i] # x}
           left == Picked(list, kept)
<1>1. left = Without(list, x)
  BY DEF Without
<1>2. kept \in SUBSET (1..Len(list)) /\ \A k \in 1..Len(list) : k \in kept <=> list[k] # x
  OBVIOUS
<1>3. Len(list) \in Nat /\ \A k \in 1..Len(list) : list[k] \in Squeak
  OBVIOUS
<1> HIDE DEF kept
<1>4. left \in Seq(Squeak)
  BY <1>2, PickedKeeps
<1>5. PICK place \in Seq(kept) :
            /\ Len(place) = Len(left)
            /\ \A i \in 1..Len(left) : left[i] = list[place[i]] /\ place[i] \in kept
            /\ \A i, j \in 1..Len(left) : i < j => place[i] < place[j]
            /\ \A k \in kept : \E i \in 1..Len(left) : place[i] = k
  BY <1>2, PickedKeeps, SMTT(60)
<1> HIDE DEF left
<1>8. \A k \in kept : \E i \in 1..Len(place) : place[i] = k
  BY <1>5
<1>9. left \in Seq(Squeak) /\ Len(left) = Len(place)
      /\ \A i \in 1..Len(left) : left[i] = list[place[i]] /\ place[i] \in kept
  BY <1>4, <1>5
<1>10. \A i, j \in 1..Len(left) : i < j => place[i] < place[j]
  BY <1>5
<1>11. InOrder(list) => InOrder(left)
  <2> SUFFICES ASSUME InOrder(list), NEW i \in 1..Len(left), NEW j \in 1..Len(left), i < j
               PROVE  Below(left[j], left[i])
    BY DEF InOrder
  <2>1. place[i] \in 1..Len(list) /\ place[j] \in 1..Len(list) /\ place[i] < place[j]
    BY <1>2, <1>9, <1>10
  <2>2. Below(list[place[j]], list[place[i]])
    BY <2>1 DEF InOrder
  <2> QED BY <1>9, <2>2
<1>12. ASSUME NEW y
       PROVE  y \in Range(left) <=> y \in Range(list) /\ y # x
  <2>1. y \in Range(left) <=> \E i \in 1..Len(left) : left[i] = y
    BY <1>9, InRange
  <2>2. y \in Range(list) <=> \E k \in 1..Len(list) : list[k] = y
    BY InRange
  <2>3. ASSUME NEW i \in 1..Len(left), left[i] = y
        PROVE  \E k \in 1..Len(list) : list[k] = y /\ y # x
    BY <1>2, <1>9, <2>3
  <2>4. ASSUME NEW k \in 1..Len(list), list[k] = y, y # x
        PROVE  \E i \in 1..Len(left) : left[i] = y
    <3>1. PICK i \in 1..Len(place) : place[i] = k
      BY <1>2, <1>8, <2>4
    <3> QED BY <1>9, <2>4, <3>1
  <2> QED BY <2>1, <2>2, <2>3, <2>4
<1> QED BY <1>1, <1>9, <1>11, <1>12

\* A page that goes on where the list ends keeps it in order and without gaps.
LEMMA AppendedFits ==
    ASSUME NEW list \in Seq(Squeak), NEW page \in Seq(Squeak), NEW S \in SUBSET Squeak,
           NEW last \in Squeak \cup {None},
           InOrder(list), InOrder(page),
           last = None => list = <<>>,
           last # None => /\ \A i \in 1..Len(list) : ~Below(list[i], last)
                          /\ \A i \in 1..Len(page) : Below(page[i], last)
                          /\ \A s \in S : Below(s, last) \/ s \in Range(list),
           HasNoGaps(list, S),
           HasNoGaps(page, {s \in S : last = None \/ Below(s, last)})
    PROVE  InOrder(list \o page) /\ HasNoGaps(list \o page, S)
<1> DEFINE both == list \o page
<1>1. /\ both \in Seq(Squeak) /\ Len(both) = Len(list) + Len(page)
      /\ \A i \in 1..Len(list) : both[i] = list[i]
      /\ \A i \in 1..Len(page) : both[Len(list) + i] = page[i]
  OBVIOUS
<1>2. /\ Len(list) \in Nat /\ Len(page) \in Nat
      /\ \A i \in 1..Len(list) : list[i] \in Squeak
      /\ \A i \in 1..Len(page) : page[i] \in Squeak
  OBVIOUS
<1>3. \A i \in 1..Len(both) :
        \/ i \in 1..Len(list)
        \/ \E k \in 1..Len(page) : i = Len(list) + k /\ both[i] = page[k]
  <2> SUFFICES ASSUME NEW i \in 1..Len(both), i \notin 1..Len(list)
               PROVE  \E k \in 1..Len(page) : i = Len(list) + k /\ both[i] = page[k]
    OBVIOUS
  <2>1. (i - Len(list)) \in 1..Len(page) /\ i = Len(list) + (i - Len(list))
    BY <1>1, <1>2
  <2> QED BY <1>1, <2>1
<1> HIDE DEF both
<1>4. ASSUME NEW i \in 1..Len(list), NEW k \in 1..Len(page)
      PROVE  Below(page[k], list[i])
  <2>1. last # None
    BY <1>4
  <2>2. Below(page[k], last) /\ ~Below(list[i], last) /\ last \in Squeak
    BY <2>1
  <2>3. list[i] \in Squeak /\ page[k] \in Squeak
    BY <1>2
  <2> QED BY <2>2, <2>3, BelowOrders
<1>5. ASSUME NEW i \in 1..Len(both), NEW j \in 1..Len(both), i < j
      PROVE  Below(both[j], both[i])
  <2>1. CASE j \in 1..Len(list)
    BY <1>1, <1>2, <1>5, <2>1 DEF InOrder
  <2>2. CASE i \in 1..Len(list) /\ j \notin 1..Len(list)
    BY <1>1, <1>3, <1>4, <2>2
  <2>3. CASE i \notin 1..Len(list) /\ j \notin 1..Len(list)
    <3>1. PICK k \in 1..Len(page) : i = Len(list) + k /\ both[i] = page[k]
      BY <1>3, <2>3
    <3>2. PICK m \in 1..Len(page) : j = Len(list) + m /\ both[j] = page[m]
      BY <1>3, <2>3
    <3>3. k < m
      BY <1>2, <1>5, <3>1, <3>2
    <3> QED BY <3>1, <3>2, <3>3 DEF InOrder
  <2>4. i \notin 1..Len(list) => j \notin 1..Len(list)
    BY <1>2, <1>5
  <2> QED BY <2>1, <2>2, <2>3, <2>4
<1>6. ASSUME NEW s \in S, NEW t \in Range(both), Below(t, s)
      PROVE  s \in Range(both)
  <2>1. ASSUME NEW x
        PROVE  x \in Range(both) <=> x \in Range(list) \/ x \in Range(page)
    <3>1. x \in Range(both) <=> \E i \in 1..Len(both) : both[i] = x
      <4>1. both \in Seq(Squeak)
        BY <1>1
      <4> QED BY <4>1, InRange
    <3>2. x \in Range(list) <=> \E i \in 1..Len(list) : list[i] = x
      BY InRange
    <3>3. x \in Range(page) <=> \E i \in 1..Len(page) : page[i] = x
      BY InRange
    <3>4. \A i \in 1..Len(list) : i \in 1..Len(both) /\ both[i] = list[i]
      BY <1>1, <1>2
    <3>5. \A i \in 1..Len(page) : Len(list) + i \in 1..Len(both) /\ both[Len(list) + i] = page[i]
      BY <1>1, <1>2
    <3>6. ASSUME NEW i \in 1..Len(both), both[i] = x
          PROVE  \/ \E k \in 1..Len(list) : list[k] = x
                 \/ \E k \in 1..Len(page) : page[k] = x
      BY <1>1, <1>3, <3>6
    <3>7. ASSUME NEW k \in 1..Len(list), list[k] = x
          PROVE  \E i \in 1..Len(both) : both[i] = x
      BY <3>4, <3>7
    <3>8. ASSUME NEW k \in 1..Len(page), page[k] = x
          PROVE  \E i \in 1..Len(both) : both[i] = x
      BY <3>5, <3>8
    <3> QED BY <3>1, <3>2, <3>3, <3>6, <3>7, <3>8
  <2>2. CASE t \in Range(list)
    BY <1>6, <2>1, <2>2 DEF HasNoGaps
  <2>3. CASE t \in Range(page)
    BY <1>6, <2>1, <2>3 DEF HasNoGaps
  <2> QED BY <2>1, <2>2, <2>3
<1> QED BY <1>5, <1>6 DEF both, InOrder, HasNoGaps
-----------------------------------------------------------------------------
(* The inductive invariant.                                                *)

LEMMA FewerGaps ==
    ASSUME NEW list, NEW S, NEW T \in SUBSET S, HasNoGaps(list, S)
    PROVE  HasNoGaps(list, T)
BY DEF HasNoGaps

LEMMA PagesInvInit ==
    ASSUME Init
    PROVE  PagesInv
<1>1. TypeOK
  BY EnvironmentAssumption DEF Init, TypeOK, List
<1>2. UnderWay = {} /\ \A l \in List : AskedFor(l) = {}
  BY DEF Init, UnderWay, AskedFor
<1>3. Numbered /\ Opened /\ OneAtATime /\ FetchesContinue /\ PagesFit
  BY <1>2 DEF Init, Numbered, Opened, OneAtATime, FetchesContinue, PagesFit, List
<1>4. ListsFit
  BY DEF Init, ListsFit, InOrder, HasNoGaps, Range, List
<1> QED BY <1>1, <1>3, <1>4 DEF PagesInv

\* While the lists and the pages stay, rows may stop to be stable and requests
\* may be lost.
LEMMA KeptFits ==
    ASSUME PagesInv, UNCHANGED <<shown, loading, query, replies, fetched, opened, mixed>>,
           fetches' \subseteq fetches, \A l \in List : stable'[l] \subseteq stable[l]
    PROVE  (Numbered /\ OneAtATime /\ FetchesContinue /\ PagesFit /\ ListsFit)'
<1> USE DEF PagesInv
<1>1. UnderWay' \subseteq UnderWay /\ \A l : AskedFor(l)' \subseteq AskedFor(l)
  BY DEF UnderWay, AskedFor
<1>2. Numbered'
  BY <1>1 DEF Numbered
<1>3. OneAtATime'
  BY <1>1 DEF OneAtATime
<1>4. FetchesContinue'
  BY <1>1 DEF FetchesContinue, Continues
<1>5. PagesFit'
  <2> SUFFICES ASSUME NEW r \in replies,
                      r.fetch.id >= opened[ListOf(r.fetch.query)],
                      r.fetch.query = query[ListOf(r.fetch.query)]
               PROVE  HasNoGaps(r.page, {s \in stable'[ListOf(r.fetch.query)] :
                                            r.fetch.last = None \/ Below(s, r.fetch.last)})
    BY DEF PagesFit
  <2> DEFINE l == ListOf(r.fetch.query)
  <2>1. HasNoGaps(r.page, {s \in stable[l] : r.fetch.last = None \/ Below(s, r.fetch.last)})
    BY DEF PagesFit
  <2>2. l \in List
    BY DEF ListOf, List
  <2> HIDE DEF l
  <2>3. HasNoGaps(r.page, {s \in stable'[l] : r.fetch.last = None \/ Below(s, r.fetch.last)})
    BY <2>1, <2>2, FewerGaps
  <2> QED BY <2>3 DEF l
<1>6. ListsFit'
  BY FewerGaps DEF ListsFit
<1> QED BY <1>2, <1>3, <1>4, <1>5, <1>6

LEMMA StatementKeeps ==
    ASSUME PagesInv, Statement
    PROVE  PagesInv'
<1> USE DEF PagesInv, Statement
<1>1. /\ stored' \subseteq Squeak /\ unlocked' \subseteq stored'
      /\ following' \subseteq Profile /\ deleting' \subseteq Squeak
  BY DEF TypeOK, InsertSqueak, UnlockSqueak, RemoveRow, DeleteSqueak, SetProfileFollowing
<1>2. \A l \in List : /\ stable'[l] \subseteq stable[l]
                      /\ stable'[l] \subseteq IF query'[l] = None THEN {} ELSE Matches(query[l])'
  BY DEF StillMatching
<1>3. stable' \in [List -> SUBSET Squeak]
  <2>1. stable' = [l \in List |-> stable'[l]]
    BY DEF StillMatching
  <2> QED BY <1>2, <2>1 DEF TypeOK
<1>4. TypeOK'
  BY <1>1, <1>3 DEF TypeOK, wire
<1>5. Opened'
  BY <1>2 DEF Opened
<1>6. (Numbered /\ OneAtATime /\ FetchesContinue /\ PagesFit /\ ListsFit)'
  BY <1>2, KeptFits DEF wire
<1> QED BY <1>4, <1>5, <1>6

LEMMA Texts_ListOf ==
    /\ \A q : ListOf(q) \in List
    /\ \A q \in Query \cup Text : ListOf(q) = "search" => q \in Text
    /\ \A x \in Text : ListOf(x) = "search"
BY QueryAssumption DEF ListOf, List

\* What a request adds.
LEMMA SendAsks ==
    ASSUME PagesInv, NEW q \in Query \cup Text, NEW last \in Squeak \cup {None}, Send(q, last),
           \A l \in List \ {ListOf(q)} : opened'[l] = opened[l],
           opened'[ListOf(q)] \in {opened[ListOf(q)], fetched + 1}
    PROVE  LET new == [id |-> fetched + 1, query |-> q, last |-> last]
           IN  /\ new \in Fetch /\ fetched' \in 0..MaxFetches /\ fetches' \subseteq Fetch
               /\ \A f \in UnderWay : f # new
               /\ Numbered'
               /\ \A l \in List \ {ListOf(q)} : AskedFor(l)' = AskedFor(l)
               /\ opened'[ListOf(q)] = opened[ListOf(q)] =>
                    AskedFor(ListOf(q))' = AskedFor(ListOf(q)) \cup {new}
               /\ opened'[ListOf(q)] = fetched + 1 => AskedFor(ListOf(q))' = {new}
<1> DEFINE new == [id |-> fetched + 1, query |-> q, last |-> last]
<1> USE DEF PagesInv
<1>1. fetched \in Nat /\ fetched + 1 \in 1..MaxFetches /\ fetched' = fetched + 1
  BY EnvironmentAssumption DEF TypeOK, Send
<1>2. new \in Fetch
  BY <1>1 DEF Fetch
<1>3. new.id = fetched + 1 /\ new.query = q /\ new.last = last
  OBVIOUS
<1>4. \A f \in UnderWay : f \in Fetch /\ f.id \in Nat /\ f.id <= fetched
  BY EnvironmentAssumption DEF Numbered, UnderWay, TypeOK, Fetch
<1>5. \A f \in UnderWay : f # new
  BY <1>1, <1>3, <1>4
<1>6. fetches' = fetches \cup {new} /\ replies' = replies
  BY DEF Send
<1> HIDE DEF new
<1>7. UnderWay' = UnderWay \cup {new}
  BY <1>6 DEF UnderWay
<1>8. \A l \in List : opened[l] \in Nat /\ opened[l] <= fetched
  BY <1>1 DEF TypeOK, Numbered
<1>9. fetches' \subseteq Fetch
  BY <1>2, <1>6 DEF TypeOK
<1>10. Numbered'
  <2>1. \A f \in UnderWay' : f.id <= fetched'
    BY <1>1, <1>3, <1>4, <1>7
  <2>2. \A l \in List : opened'[l] <= fetched'
    BY <1>1, <1>8
  <2>3. \A r \in replies : r.fetch \notin fetches'
    BY <1>5, <1>6 DEF Numbered, UnderWay
  <2> QED BY <1>6, <2>1, <2>2, <2>3 DEF Numbered
<1>11. ASSUME NEW l \in List \ {ListOf(q)}
       PROVE  AskedFor(l)' = AskedFor(l)
  BY <1>3, <1>7, <1>11 DEF AskedFor
<1>12. ASSUME opened'[ListOf(q)] = opened[ListOf(q)]
       PROVE  AskedFor(ListOf(q))' = AskedFor(ListOf(q)) \cup {new}
  <2>1. new.id >= opened[ListOf(q)]
    BY <1>1, <1>3, <1>8, Texts_ListOf
  <2> QED BY <1>3, <1>7, <1>12, <2>1 DEF AskedFor
<1>13. ASSUME opened'[ListOf(q)] = fetched + 1
       PROVE  AskedFor(ListOf(q))' = {new}
  <2>1. \A f \in UnderWay : ~(f.id >= fetched + 1)
    BY <1>1, <1>4
  <2>2. new.id >= fetched + 1
    BY <1>1, <1>3
  <2> QED BY <1>3, <1>7, <1>13, <2>1, <2>2 DEF AskedFor
<1> QED BY <1>1, <1>2, <1>5, <1>9, <1>10, <1>11, <1>12, <1>13 DEF new

\* Nothing that was asked for before goes into a list that is opened.
LEMMA OpenKeeps ==
    ASSUME PagesInv, NEW q \in Query, Open(q)
    PROVE  PagesInv'
<1> DEFINE l == ListOf(q)
           new == [id |-> fetched + 1, query |-> q, last |-> None]
<1> USE DEF PagesInv
<1>1. Send(q, None) /\ q \in Query \cup Text /\ None \in Squeak \cup {None} /\ l \in List
  BY Texts_ListOf DEF Open
<1>2. fetched \in Nat
  BY DEF TypeOK
<1>3. /\ shown' = [shown EXCEPT ![l] = <<>>] /\ query' = [query EXCEPT ![l] = q]
      /\ opened' = [opened EXCEPT ![l] = fetched + 1] /\ mixed' = mixed \ {l}
      /\ stable' = [stable EXCEPT ![l] = Matches(q)] /\ loading' = loading \cup {l}
      /\ replies' = replies
  BY DEF Open, Send
<1>4. /\ \A k \in List \ {l} : /\ opened'[k] = opened[k] /\ shown'[k] = shown[k]
                               /\ query'[k] = query[k] /\ stable'[k] = stable[k]
      /\ opened'[l] = fetched + 1 /\ shown'[l] = <<>>
      /\ query'[l] = q /\ stable'[l] = Matches(q)
  BY <1>1, <1>3 DEF TypeOK
<1>5. /\ new \in Fetch /\ fetched' \in 0..MaxFetches /\ fetches' \subseteq Fetch
      /\ Numbered'
      /\ \A k \in List \ {l} : AskedFor(k)' = AskedFor(k)
      /\ AskedFor(l)' = {new}
  BY <1>1, <1>4, SendAsks
<1>6. new.last = None
  OBVIOUS
<1>7. UNCHANGED <<stored, unlocked, following, deleting, faults>>
      /\ searchText' = IF q \in Text THEN q ELSE searchText
  BY DEF Open, tables
<1> HIDE DEF new, l
<1>8. TypeOK'
  <2>1. Matches(q) \in SUBSET Squeak
    BY DEF Matches, TypeOK
  <2>2. fetched + 1 \in 0..MaxFetches
    BY <1>1, <1>2, EnvironmentAssumption DEF Send
  <2>3. shown' \in [List -> Seq(Squeak)] /\ query' \in [List -> Query \cup {None}]
    BY <1>1, <1>3 DEF TypeOK
  <2>4. opened' \in [List -> 0..MaxFetches]
    BY <1>3, <2>2 DEF TypeOK
  <2>5. stable' \in [List -> SUBSET Squeak]
    BY <1>3, <2>1 DEF TypeOK
  <2> QED BY <1>1, <1>3, <1>5, <1>7, <2>3, <2>4, <2>5 DEF TypeOK
<1>9. Opened'
  <2>1. \A k \in List : query'[k] # None => ListOf(query'[k]) = k
    BY <1>4 DEF Opened, l
  <2>2. query'["search"] # None => searchText' \in Text
    <3>1. CASE l = "search"
      BY <1>1, <1>7, <3>1, Texts_ListOf DEF l
    <3>2. CASE l # "search"
      BY <1>4, <1>7, <3>2 DEF Opened, List
    <3> QED BY <3>1, <3>2
  <2>3. \A p : Matches(p)' = Matches(p)
    BY <1>7 DEF Matches
  <2>4. \A k \in List : stable'[k] \subseteq IF query'[k] = None THEN {} ELSE Matches(query'[k])
    BY <1>1, <1>4, QueryAssumption DEF Opened
  <2> QED BY <2>1, <2>2, <2>3, <2>4 DEF Opened
<1>10. OneAtATime'
  BY <1>1, <1>3, <1>5 DEF OneAtATime
<1>11. FetchesContinue'
  <2> SUFFICES ASSUME NEW k \in List \ mixed', NEW f \in AskedFor(k)', f.query = query'[k]
               PROVE  Continues(k, f)'
    BY DEF FetchesContinue
  <2>1. CASE k = l
    BY <1>4, <1>5, <1>6, <2>1 DEF Continues
  <2>2. CASE k # l
    BY <1>3, <1>4, <1>5, <2>2 DEF FetchesContinue, Continues
  <2> QED BY <2>1, <2>2
<1>12. PagesFit'
  <2> SUFFICES ASSUME NEW r \in replies, NEW k \in List, k = ListOf(r.fetch.query),
                      r.fetch.id >= opened'[k], r.fetch.query = query'[k]
               PROVE  HasNoGaps(r.page, {s \in stable'[k] :
                                            r.fetch.last = None \/ Below(s, r.fetch.last)})
    BY <1>3, Texts_ListOf DEF PagesFit
  <2>1. r.fetch.id \in Nat /\ r.fetch.id <= fetched
    BY DEF Numbered, UnderWay, TypeOK, Fetch
  <2>2. k # l
    BY <1>2, <1>4, <2>1
  <2> QED BY <1>4, <2>2 DEF PagesFit
<1>13. ListsFit'
  <2> SUFFICES ASSUME NEW k \in List \ mixed'
               PROVE  InOrder(shown'[k]) /\ HasNoGaps(shown'[k], stable'[k])
    BY DEF ListsFit
  <2>1. CASE k = l
    BY <1>4, <2>1 DEF InOrder, HasNoGaps, Range
  <2>2. CASE k # l
    BY <1>3, <1>4, <2>2 DEF ListsFit
  <2> QED BY <2>1, <2>2
<1> QED BY <1>5, <1>8, <1>9, <1>10, <1>11, <1>12, <1>13

\* LOAD MORE goes on where the list ends.
LEMMA LoadMoreKeeps ==
    ASSUME PagesInv, NEW l \in List, LoadMore(l)
    PROVE  PagesInv'
<1> DEFINE q == IF l = "search" THEN searchText ELSE query[l]
           last == IF shown[l] = <<>> THEN None ELSE Last(shown[l])
           new == [id |-> fetched + 1, query |-> q, last |-> last]
<1> USE DEF PagesInv
<1>1. q \in Query \cup Text /\ ListOf(q) = l
  BY Texts_ListOf DEF LoadMore, Opened, TypeOK
<1>2. shown[l] \in Seq(Squeak)
  BY DEF TypeOK
<1>3. /\ shown[l] = <<>> => last = None
      /\ shown[l] # <<>> => /\ last = shown[l][Len(shown[l])] /\ last \in Squeak
                            /\ Len(shown[l]) \in 1..Len(shown[l])
  BY <1>2 DEF Last
<1>4. Send(q, last) /\ l \notin loading /\ loading' = loading \cup {ListOf(q)}
      /\ replies' = replies
      /\ UNCHANGED <<stored, unlocked, following, shown, query, searchText, deleting, opened,
                     mixed, stable, faults>>
  BY DEF LoadMore, Send, tables
<1>5. new.last = last /\ new.query = q
  OBVIOUS
<1> HIDE DEF q, last
<1>6. last \in Squeak \cup {None}
  BY <1>3
<1>7. /\ new \in Fetch /\ fetched' \in 0..MaxFetches /\ fetches' \subseteq Fetch
      /\ Numbered'
      /\ \A k \in List \ {l} : AskedFor(k)' = AskedFor(k)
      /\ AskedFor(l)' = AskedFor(l) \cup {new}
  BY <1>1, <1>4, <1>6, SendAsks
<1> HIDE DEF new
<1>8. TypeOK'
  BY <1>1, <1>4, <1>7 DEF TypeOK
<1>9. Opened'
  BY <1>4 DEF Opened, Matches
<1>10. l \notin mixed => AskedFor(l) = {}
  BY <1>4 DEF OneAtATime
<1>11. OneAtATime'
  BY <1>1, <1>4, <1>7, <1>10 DEF OneAtATime
<1>12. FetchesContinue'
  <2> SUFFICES ASSUME NEW k \in List \ mixed, NEW f \in AskedFor(k)', f.query = query[k]
               PROVE  Continues(k, f)
    BY <1>4 DEF FetchesContinue, Continues
  <2>1. CASE k # l
    BY <1>7, <2>1 DEF FetchesContinue
  <2>2. CASE k = l
    <3>1. f = new
      BY <1>7, <1>10, <2>2
    <3>2. CASE last = None
      BY <1>3, <1>5, <2>2, <3>1, <3>2, SqueakAssumption, QueryAssumption DEF Continues
    <3>3. CASE last # None
      <4>1. /\ last = shown[l][Len(shown[l])] /\ last \in Squeak
            /\ Len(shown[l]) \in 1..Len(shown[l])
        BY <1>3, <3>3
      <4>2. InOrder(shown[l]) /\ HasNoGaps(shown[l], stable[l])
        BY <2>2 DEF ListsFit
      <4>3. last \in Range(shown[l])
        BY <1>2, <4>1, InRange
      <4>4. ASSUME NEW i \in 1..Len(shown[l])
            PROVE  ~Below(shown[l][i], last)
        <5>1. shown[l][i] \in Squeak
          BY <1>2
        <5>2. CASE i = Len(shown[l])
          BY <4>1, <5>1, <5>2, BelowOrders
        <5>3. CASE i # Len(shown[l])
          <6>1. i < Len(shown[l])
            BY <1>2, <5>3
          <6>2. Below(last, shown[l][i])
            BY <4>1, <4>2, <6>1 DEF InOrder
          <6> QED BY <4>1, <5>1, <6>2, BelowOrders
        <5> QED BY <5>2, <5>3
      <4>5. ASSUME NEW s \in stable[l]
            PROVE  Below(s, last) \/ s \in Range(shown[l])
        <5>1. s \in Squeak
          BY DEF TypeOK
        <5>2. s = last \/ Below(s, last) \/ Below(last, s)
          BY <4>1, <5>1, BelowOrders
        <5> QED BY <4>2, <4>3, <5>2 DEF HasNoGaps
      <4> QED BY <1>5, <2>2, <3>1, <3>3, <4>4, <4>5 DEF Continues
    <3> QED BY <3>2, <3>3
  <2> QED BY <2>1, <2>2
<1>13. PagesFit'
  BY <1>4 DEF PagesFit
<1>14. ListsFit'
  BY <1>4 DEF ListsFit
<1> QED BY <1>7, <1>8, <1>9, <1>11, <1>12, <1>13, <1>14

LEMMA AnswerKeeps ==
    ASSUME PagesInv, NEW f \in fetches, Answer(f)
    PROVE  PagesInv'
<1> DEFINE new == [fetch |-> f, page |-> GetPage(f.query, f.last)]
<1> USE DEF PagesInv
<1>1. fetches' = fetches \ {f} /\ replies' = replies \cup {new}
      /\ UNCHANGED <<stored, unlocked, following, shown, loading, query, searchText, deleting,
                     fetched, opened, mixed, stable, faults>>
  BY DEF Answer, tables, slice
<1>2. new.fetch = f /\ new.page = GetPage(f.query, f.last)
  OBVIOUS
<1> HIDE DEF new
<1>3. f \in Fetch /\ f.last \in Squeak \cup {None}
  BY DEF TypeOK, Fetch
<1>4. /\ new.page \in Seq(Squeak)
      /\ InOrder(new.page)
      /\ f.last # None => \A i \in 1..Len(new.page) : Below(new.page[i], f.last)
      /\ \A S : S \subseteq {s \in Matches(f.query) : f.last = None \/ Below(s, f.last)} =>
            HasNoGaps(new.page, S)
  BY <1>2, <1>3, PageFits
<1>5. UnderWay' = UnderWay
  BY <1>1, <1>2 DEF UnderWay
<1>6. TypeOK'
  BY <1>1, <1>2, <1>3, <1>4 DEF TypeOK
<1>7. Numbered'
  BY <1>1, <1>2, <1>5 DEF Numbered
<1>8. Opened'
  BY <1>1 DEF Opened, Matches
<1>9. OneAtATime'
  BY <1>1, <1>5 DEF OneAtATime, AskedFor
<1>10. FetchesContinue'
  BY <1>1, <1>5 DEF FetchesContinue, Continues, AskedFor
<1>11. PagesFit'
  <2>1. ASSUME f.query = query[ListOf(f.query)]
        PROVE  HasNoGaps(new.page, {s \in stable[ListOf(f.query)] :
                                        f.last = None \/ Below(s, f.last)})
    <3> DEFINE S == {s \in stable[ListOf(f.query)] : f.last = None \/ Below(s, f.last)}
    <3>1. stable[ListOf(f.query)] \subseteq Matches(f.query)
      BY <2>1, Texts_ListOf DEF Opened
    <3>2. S \subseteq {s \in Matches(f.query) : f.last = None \/ Below(s, f.last)}
      BY <3>1
    <3> QED BY <1>4, <3>2
  <2>2. ASSUME NEW r \in replies
        PROVE  /\ InOrder(r.page)
               /\ r.fetch.last # None => \A i \in 1..Len(r.page) : Below(r.page[i], r.fetch.last)
               /\ r.fetch.id >= opened[ListOf(r.fetch.query)]
                    /\ r.fetch.query = query[ListOf(r.fetch.query)] =>
                  HasNoGaps(r.page, {s \in stable[ListOf(r.fetch.query)] :
                                        r.fetch.last = None \/ Below(s, r.fetch.last)})
    BY DEF PagesFit
  <2> QED BY <1>1, <1>2, <1>4, <2>1, <2>2 DEF PagesFit
<1>12. ListsFit'
  BY <1>1 DEF ListsFit
<1> QED BY <1>6, <1>7, <1>8, <1>9, <1>10, <1>11, <1>12

\* A page is appended to the list that has asked for it, or the list is mixed.
LEMMA FulfilledKeeps ==
    ASSUME PagesInv, NEW r \in replies, Fulfilled(r)
    PROVE  PagesInv'
<1> DEFINE f == r.fetch
           l == ListOf(f.query)
           strange == f.id < opened[l] \/ f.query # query[l]
<1> USE DEF PagesInv
<1>1. /\ replies' = replies \ {r} /\ shown' = [shown EXCEPT ![l] = @ \o r.page]
      /\ loading' = loading \ {l} /\ mixed' = IF strange THEN mixed \cup {l} ELSE mixed
      /\ UNCHANGED <<stored, unlocked, following, query, searchText, deleting, fetches,
                     fetched, opened, stable, faults>>
  BY DEF Fulfilled, tables
<1>2. f \in Fetch /\ r.page \in Seq(Squeak) /\ l \in List
  BY Texts_ListOf DEF TypeOK
<1>3. f.id \in Nat /\ f.last \in Squeak \cup {None} /\ opened[l] \in Nat
  BY <1>2 DEF TypeOK, Fetch
<1>4. f \in UnderWay /\ \A g \in UnderWay' : g \in UnderWay /\ g # f
  BY <1>1 DEF UnderWay, Numbered
<1>5. l \notin mixed' => /\ f \in AskedFor(l) /\ f.query = query[l] /\ l \notin mixed
                         /\ AskedFor(l)' = {}
  <2> SUFFICES ASSUME l \notin mixed'
               PROVE  f \in AskedFor(l) /\ f.query = query[l] /\ l \notin mixed /\ AskedFor(l)' = {}
    OBVIOUS
  <2>1. ~strange /\ l \notin mixed
    BY <1>1
  <2>2. f \in AskedFor(l)
    BY <1>3, <1>4, <2>1 DEF AskedFor
  <2>3. \A g \in AskedFor(l)' : g \in AskedFor(l) /\ g # f
    BY <1>1, <1>4 DEF AskedFor
  <2>4. AskedFor(l)' = {}
    BY <1>2, <2>1, <2>2, <2>3 DEF OneAtATime
  <2> QED BY <2>1, <2>2, <2>4
<1>6. \A k \in List \ {l} : /\ AskedFor(k)' \subseteq AskedFor(k) /\ shown'[k] = shown[k]
                            /\ k \notin mixed' => k \notin mixed
  BY <1>1, <1>4 DEF AskedFor, TypeOK
<1>7. shown'[l] = shown[l] \o r.page /\ shown[l] \in Seq(Squeak)
  BY <1>1, <1>2 DEF TypeOK
<1>8. TypeOK'
  <2>1. shown' \in [List -> Seq(Squeak)]
    BY <1>1, <1>2, <1>7 DEF TypeOK
  <2> QED BY <1>1, <1>2, <2>1 DEF TypeOK
<1>9. Numbered'
  BY <1>1, <1>4 DEF Numbered
<1>10. Opened'
  BY <1>1 DEF Opened, Matches
<1>11. PagesFit'
  BY <1>1 DEF PagesFit
<1>12. ASSUME l \notin mixed'
       PROVE  InOrder(shown'[l]) /\ HasNoGaps(shown'[l], stable[l])
  <2>1. Continues(l, f) /\ InOrder(shown[l]) /\ HasNoGaps(shown[l], stable[l])
    BY <1>2, <1>5, <1>12 DEF FetchesContinue, ListsFit
  <2>2. f.id >= opened[l]
    BY <1>5, <1>12 DEF AskedFor
  <2>3. /\ InOrder(r.page)
        /\ f.last # None => \A i \in 1..Len(r.page) : Below(r.page[i], f.last)
        /\ HasNoGaps(r.page, {s \in stable[l] : f.last = None \/ Below(s, f.last)})
    BY <1>5, <1>12, <2>2 DEF PagesFit
  <2>4. stable[l] \in SUBSET Squeak
    BY <1>2 DEF TypeOK
  <2>5. /\ f.last = None => shown[l] = <<>>
        /\ f.last # None =>
            /\ \A i \in 1..Len(shown[l]) : ~Below(shown[l][i], f.last)
            /\ \A s \in stable[l] : Below(s, f.last) \/ s \in Range(shown[l])
    BY <2>1 DEF Continues
  <2> HIDE DEF f, l
  <2> QED BY <1>2, <1>3, <1>7, <2>1, <2>3, <2>4, <2>5, AppendedFits
<1> HIDE DEF f, l, strange
<1>13. OneAtATime'
  <2> SUFFICES ASSUME NEW k \in List \ mixed', NEW g \in AskedFor(k)'
               PROVE  k \in loading' /\ \A h \in AskedFor(k)' : g = h
    BY DEF OneAtATime
  <2>1. k # l
    BY <1>5
  <2> QED BY <1>1, <1>6, <2>1 DEF OneAtATime
<1>14. FetchesContinue'
  <2> SUFFICES ASSUME NEW k \in List \ mixed', NEW g \in AskedFor(k)', g.query = query'[k]
               PROVE  Continues(k, g)'
    BY DEF FetchesContinue
  <2>1. k # l
    BY <1>5
  <2> QED BY <1>1, <1>6, <2>1 DEF FetchesContinue, Continues
<1>15. ListsFit'
  <2> SUFFICES ASSUME NEW k \in List \ mixed'
               PROVE  InOrder(shown'[k]) /\ HasNoGaps(shown'[k], stable'[k])
    BY DEF ListsFit
  <2>1. CASE k = l
    BY <1>1, <1>12, <2>1
  <2>2. CASE k # l
    BY <1>1, <1>6, <2>2 DEF ListsFit
  <2> QED BY <2>1, <2>2
<1> QED BY <1>8, <1>9, <1>10, <1>11, <1>13, <1>14, <1>15

\* A squeak that is taken off a list leaves the others as they were.
LEMMA RemoveDeletedKeeps ==
    ASSUME PagesInv, NEW x \in Squeak, RemoveDeleted(x)
    PROVE  PagesInv'
<1> USE DEF PagesInv
<1>1. /\ deleting' = deleting \ {x}
      /\ shown' = [l \in List |-> Without(shown[l], x)]
      /\ stable' = [l \in List |-> stable[l] \ {x}]
      /\ UNCHANGED <<stored, unlocked, following, loading, query, searchText, fetches, replies,
                     fetched, opened, mixed, faults>>
  BY DEF RemoveDeleted, tables, wire
<1>2. \A l \in List : shown[l] \in Seq(Squeak) /\ stable[l] \in SUBSET Squeak
  BY DEF TypeOK
<1>3. ASSUME NEW l \in List
      PROVE  /\ shown'[l] \in Seq(Squeak)
             /\ stable'[l] = stable[l] \ {x}
             /\ shown[l] = <<>> => shown'[l] = <<>>
             /\ \A i \in 1..Len(shown'[l]) : \E k \in 1..Len(shown[l]) : shown'[l][i] = shown[l][k]
             /\ \A y : y \in Range(shown'[l]) <=> y \in Range(shown[l]) /\ y # x
             /\ InOrder(shown[l]) => InOrder(shown'[l])
  <2> DEFINE list == shown[l]
             left == shown'[l]
  <2>1. left = Without(list, x) /\ list \in Seq(Squeak) /\ stable'[l] = stable[l] \ {x}
    BY <1>1, <1>2
  <2> HIDE DEF list, left
  <2>2. left \in Seq(Squeak)
    BY <2>1, WithoutKeeps
  <2>3. \A y : y \in Range(left) <=> y \in Range(list) /\ y # x
    BY <2>1, WithoutKeeps
  <2>4. InOrder(list) => InOrder(left)
    BY <2>1, WithoutKeeps
  <2>5. ASSUME NEW i \in 1..Len(left)
        PROVE  \E k \in 1..Len(list) : left[i] = list[k]
    <3>1. left[i] \in Range(left)
      BY <2>2, InRange
    <3>2. left[i] \in Range(list)
      BY <2>3, <3>1
    <3> QED BY <2>1, <3>2, InRange
  <2>6. list = <<>> => left = <<>>
    BY <2>1, <2>2, <2>5
  <2> QED BY <2>1, <2>2, <2>3, <2>4, <2>5, <2>6 DEF list, left
<1>stable. \A l \in List : \A s \in stable'[l] : s \in stable[l] /\ s # x
  BY <1>3
<1>list. \A l \in List : \A y : y \in Range(shown'[l]) => y \in Range(shown[l])
  BY <1>3
<1>left. \A l \in List : \A y : y \in Range(shown[l]) /\ y # x => y \in Range(shown'[l])
  BY <1>3
<1>4. UnderWay' = UnderWay /\ \A l : AskedFor(l)' = AskedFor(l)
  BY <1>1 DEF UnderWay, AskedFor
<1>5. TypeOK'
  <2>1. shown' = [l \in List |-> shown'[l]] /\ stable' = [l \in List |-> stable'[l]]
    BY <1>1
  <2>2. shown' \in [List -> Seq(Squeak)] /\ stable' \in [List -> SUBSET Squeak]
    BY <1>2, <1>3, <2>1
  <2> QED BY <1>1, <2>2 DEF TypeOK
<1>6. Numbered'
  BY <1>1, <1>4 DEF Numbered
<1>7. Opened'
  BY <1>1, <1>3 DEF Opened, Matches
<1>8. OneAtATime'
  BY <1>1, <1>4 DEF OneAtATime
<1>9. FetchesContinue'
  <2> SUFFICES ASSUME NEW l \in List \ mixed, NEW f \in AskedFor(l), f.query = query[l],
                      Continues(l, f)
               PROVE  Continues(l, f)'
    BY <1>1, <1>4 DEF FetchesContinue
  <2>1. f.last = None => shown'[l] = <<>>
    BY <1>3 DEF Continues
  <2>2. ASSUME f.last # None, NEW i \in 1..Len(shown'[l])
        PROVE  ~Below(shown'[l][i], f.last)
    <3>1. PICK k \in 1..Len(shown[l]) : shown'[l][i] = shown[l][k]
      BY <1>3
    <3> QED BY <2>2, <3>1 DEF Continues
  <2>3. ASSUME f.last # None, NEW s \in stable'[l]
        PROVE  Below(s, f.last) \/ s \in Range(shown'[l])
    <3>1. s \in stable[l] /\ s # x
      BY <1>stable
    <3>2. Below(s, f.last) \/ s \in Range(shown[l])
      BY <2>3, <3>1 DEF Continues
    <3> QED BY <1>left, <3>1, <3>2
  <2> QED BY <2>1, <2>2, <2>3 DEF Continues
<1>10. PagesFit'
  <2> SUFFICES ASSUME NEW r \in replies, NEW l \in List, l = ListOf(r.fetch.query),
                      r.fetch.id >= opened[l], r.fetch.query = query[l]
               PROVE  HasNoGaps(r.page, {s \in stable'[l] :
                                            r.fetch.last = None \/ Below(s, r.fetch.last)})
    BY <1>1, Texts_ListOf DEF PagesFit
  <2>1. HasNoGaps(r.page, {s \in stable[l] : r.fetch.last = None \/ Below(s, r.fetch.last)})
    BY DEF PagesFit
  <2> QED BY <1>3, <2>1, FewerGaps
<1>11. ListsFit'
  <2> SUFFICES ASSUME NEW l \in List \ mixed
               PROVE  InOrder(shown'[l]) /\ HasNoGaps(shown'[l], stable'[l])
    BY <1>1 DEF ListsFit
  <2>1. InOrder(shown[l]) /\ HasNoGaps(shown[l], stable[l])
    BY DEF ListsFit
  <2>2. ASSUME NEW s \in stable'[l], NEW t \in Range(shown'[l]), Below(t, s)
        PROVE  s \in Range(shown'[l])
    <3>1. s \in stable[l] /\ s # x /\ t \in Range(shown[l])
      BY <1>stable, <1>list
    <3>2. s \in Range(shown[l])
      BY <2>1, <2>2, <3>1 DEF HasNoGaps
    <3> QED BY <1>left, <3>1, <3>2
  <2> QED BY <1>3, <2>1, <2>2 DEF HasNoGaps
<1> QED BY <1>5, <1>6, <1>7, <1>8, <1>9, <1>10, <1>11

LEMMA PagesInvNext ==
    ASSUME PagesInv, [Next]_vars
    PROVE  PagesInv'
<1>1. CASE Statement
  BY <1>1, StatementKeeps
<1>2. ASSUME NEW q \in Query, Open(q)
      PROVE  PagesInv'
  BY <1>2, OpenKeeps
<1>3. ASSUME NEW x \in Text, EditSearchText(x)
      PROVE  PagesInv'
  <2>1. UNCHANGED <<stored, unlocked, following, shown, loading, query, deleting, fetches, replies,
                    fetched, opened, mixed, stable, faults>> /\ searchText' = x
    BY <1>3 DEF EditSearchText, tables, wire
  <2>2. TypeOK' /\ Opened'
    BY <2>1 DEF PagesInv, TypeOK, Opened, Matches
  <2> QED BY <2>1, <2>2, KeptFits DEF PagesInv
<1>4. ASSUME NEW l \in List, LoadMore(l)
      PROVE  PagesInv'
  BY <1>4, LoadMoreKeeps
<1>5. ASSUME NEW f \in fetches, Answer(f)
      PROVE  PagesInv'
  BY <1>5, AnswerKeeps
<1>6. ASSUME NEW f \in fetches, FetchFails(f)
      PROVE  PagesInv'
  <2>1. UNCHANGED <<stored, unlocked, following, shown, loading, query, searchText, deleting,
                    replies, fetched, opened, mixed, stable>>
        /\ fetches' = fetches \ {f} /\ faults' = faults + 1 /\ faults < MaxFaults
    BY <1>6 DEF FetchFails, tables, slice
  <2>2. faults' \in 0..MaxFaults
    BY <2>1, EnvironmentAssumption DEF PagesInv, TypeOK
  <2>3. TypeOK' /\ Opened'
    BY <2>1, <2>2 DEF PagesInv, TypeOK, Opened, Matches
  <2> QED BY <2>1, <2>3, KeptFits DEF PagesInv
<1>7. ASSUME NEW r \in replies, Fulfilled(r)
      PROVE  PagesInv'
  BY <1>7, FulfilledKeeps
<1>8. ASSUME NEW x \in Squeak, RemoveDeleted(x)
      PROVE  PagesInv'
  BY <1>8, RemoveDeletedKeeps
<1>9. CASE UNCHANGED vars
  <2>1. UNCHANGED <<stored, unlocked, following, shown, loading, query, searchText, deleting,
                    fetches, replies, fetched, opened, mixed, stable, faults>>
    BY <1>9 DEF vars, tables, slice, wire
  <2>2. TypeOK' /\ Opened'
    BY <2>1 DEF PagesInv, TypeOK, Opened, Matches
  <2> QED BY <2>1, <2>2, KeptFits DEF PagesInv
<1> QED BY <1>1, <1>2, <1>3, <1>4, <1>5, <1>6, <1>7, <1>8, <1>9 DEF Next
-----------------------------------------------------------------------------
LEMMA PagesInvAlways == Spec => []PagesInv
<1>1. Init => PagesInv
  BY PagesInvInit
<1>2. PagesInv /\ [Next]_vars => PagesInv'
  BY PagesInvNext
<1> QED BY <1>1, <1>2, PTL DEF Spec

\* The tables, the lists and the requests are always of their types.
THEOREM PagesTypeOK == Spec => []TypeOK
<1>1. PagesInv => TypeOK
  BY DEF PagesInv
<1> QED BY <1>1, PagesInvAlways, PTL

\* However rows come and go between the pages and however many requests are under
\* way, a list never shows a squeak twice nor out of order.
THEOREM PagesInOrder == Spec => []ListsInOrder
<1>1. PagesInv => ListsInOrder
  BY DEF PagesInv, ListsFit, InOrder, ListsInOrder, Below
<1> QED BY <1>1, PagesInvAlways, PTL

\* Under the same condition no squeak that has matched all the time is left out
\* between those that a list shows.
THEOREM PagesHaveNoGaps == Spec => []ListsHaveNoGaps
<1>1. PagesInv => ListsHaveNoGaps
  BY DEF PagesInv, ListsFit, HasNoGaps, ListsHaveNoGaps, Below
<1> QED BY <1>1, PagesInvAlways, PTL
=============================================================================
