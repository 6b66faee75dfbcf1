--------------------------- MODULE ProductPagesProofs ---------------------------
(***************************************************************************)
(* Proofs about ProductPages, for any table, filter and page size.  What a *)
(* client still has to see, or has seen, is told by the number of newer    *)
(* products that match, its place: at or beyond the offset, or before it.  *)
(***************************************************************************)
EXTENDS ProductPages, FiniteSetTheorems, TLAPS

\* How many elements of M are newer than p.
PlaceIn(M, p, at) == Cardinality({q \in M : at[q] > at[p]})

--------------------------------------------------------------------------------
(***************************************************************************)
(* OFFSET and LIMIT: which places a page holds.                            *)
(***************************************************************************)

\* Elements that a cut takes are newer than those it leaves, ties excluded.
LEMMA CutIsAbove ==
  ASSUME NEW S, NEW M, NEW n \in Nat, NEW at, Newest(S, M, n, at),
         \A p \in M : at[p] \in Nat,
         \A p, q \in M : p # q => at[p] # at[q],
         NEW p \in M \ S
  PROVE  \A q \in S : at[q] > at[p]
<1> SUFFICES ASSUME NEW q \in S PROVE at[q] > at[p]
  OBVIOUS
<1>1. q \in M /\ q # p /\ at[q] >= at[p]
  BY DEF Newest
<1>2. at[q] \in Nat /\ at[p] \in Nat /\ at[q] # at[p]
  BY <1>1
<1>3. QED
  BY <1>1, <1>2

\* A page of n after an offset of k holds the places from k to k + n - 1; a product
\* it does not hold has an earlier place, or a later one, and then the query for
\* one more row than the page has found that row.
LEMMA PlacesOfPage ==
  ASSUME NEW M, IsFiniteSet(M), NEW at, NEW k \in Nat, NEW n \in Nat,
         \A p \in M : at[p] \in Nat,
         \A p, q \in M : p # q => at[p] # at[q],
         NEW skipped, Newest(skipped, M, k, at),
         NEW R, Newest(R, M \ skipped, n + 1, at),
         NEW S, Newest(S, R, n, at),
         NEW p \in M
  PROVE  /\ p \in S => k <= PlaceIn(M, p, at) /\ PlaceIn(M, p, at) < k + n
         /\ p \notin S => \/ PlaceIn(M, p, at) < k
                          \/ Cardinality(R) > n /\ k + n <= PlaceIn(M, p, at)
<1> DEFINE newer == {q \in M : at[q] > at[p]}
<1>1. skipped \subseteq M /\ R \subseteq M \ skipped /\ S \subseteq R
  BY DEF Newest
<1>2. /\ IsFiniteSet(skipped) /\ IsFiniteSet(R) /\ IsFiniteSet(S) /\ IsFiniteSet(newer)
      /\ IsFiniteSet(M \ skipped)
  BY <1>1, FS_Subset
<1>3. /\ Cardinality(skipped) \in Nat /\ Cardinality(R) \in Nat
      /\ Cardinality(S) \in Nat /\ Cardinality(newer) \in Nat
  BY <1>2, FS_CardinalityType
<1>4. PlaceIn(M, p, at) = Cardinality(newer)
  BY DEF PlaceIn
<1>5a. newer \subseteq M /\ \A q \in M : q \in newer <=> at[q] > at[p]
  OBVIOUS
<1> HIDE DEF newer
<1>5b. ASSUME NEW x \in M, x \notin skipped, x \notin R
      PROVE  \A q \in R : at[q] > at[x]
  <2>1. x \in (M \ skipped) \ R
    BY <1>5b
  <2>2. \A q \in M \ skipped : at[q] \in Nat
    OBVIOUS
  <2>3. \A u, v \in M \ skipped : u # v => at[u] # at[v]
    OBVIOUS
  <2>4. n + 1 \in Nat
    OBVIOUS
  <2> HIDE DEF newer
  <2>5. QED
    BY <2>1, <2>2, <2>3, <2>4, CutIsAbove
<1>5c. \A x \in R \ S : \A q \in S : at[q] > at[x]
  BY <1>1, CutIsAbove
<1>5. /\ Cardinality(skipped) <= k
      /\ Cardinality(skipped) < k => skipped = M
      /\ Cardinality(R) <= n + 1
      /\ Cardinality(R) < n + 1 => R = M \ skipped
      /\ Cardinality(S) <= n
      /\ Cardinality(S) < n => S = R
  BY DEF Newest
<1>6. CASE p \in skipped
  <2>1. newer \subseteq skipped \ {p}
    <3> SUFFICES ASSUME NEW q \in M, at[q] > at[p], q \notin skipped PROVE FALSE
      BY <1>6, <1>5a
    <3>1. at[p] > at[q]
      BY <1>6, CutIsAbove
    <3>2. QED
      BY <3>1
  <2>2. Cardinality(skipped \ {p}) = Cardinality(skipped) - 1
    BY <1>2, <1>6, FS_RemoveElement
  <2>3. Cardinality(newer) <= Cardinality(skipped \ {p})
    BY <1>2, <2>1, FS_Subset, FS_RemoveElement
  <2>4. Cardinality(newer) < k
    BY <1>3, <1>5, <2>2, <2>3
  <2>5. p \notin S
    BY <1>1, <1>6
  <2>6. QED
    BY <1>4, <2>4, <2>5
<1>7. CASE p \in S
  <2>1. p \in M \ skipped /\ p \in R /\ p \notin skipped
    BY <1>1, <1>7
  <2>2. skipped \subseteq newer
    BY <1>1, <1>5a, <2>1, CutIsAbove
  <2>3. k <= Cardinality(newer)
    <3>1. Cardinality(skipped) <= Cardinality(newer)
      BY <1>2, <2>2, FS_Subset
    <3>2. Cardinality(skipped) = k
      BY <1>3, <1>5, <2>1
    <3>3. QED
      BY <3>1, <3>2
  <2>4. newer \subseteq skipped \cup (S \ {p})
    <3> SUFFICES ASSUME NEW q \in M, at[q] > at[p], q \notin skipped, q \notin S
                 PROVE  FALSE
      BY <1>5a
    <3>1. q \in R
      <4> SUFFICES ASSUME q \notin R PROVE FALSE
        OBVIOUS
      <4>1. at[p] > at[q]
        BY <2>1, <1>5b
      <4>2. QED
        BY <4>1
    <3>2. at[p] > at[q]
      BY <1>7, <3>1, <1>5c
    <3>3. QED
      BY <3>2
  <2>5. /\ IsFiniteSet(S \ {p}) /\ Cardinality(S \ {p}) = Cardinality(S) - 1
    BY <1>2, <1>7, FS_RemoveElement
  <2>6. /\ IsFiniteSet(skipped \cup (S \ {p}))
        /\ Cardinality(skipped \cup (S \ {p})) =
             Cardinality(skipped) + Cardinality(S \ {p})
               - Cardinality(skipped \cap (S \ {p}))
    BY <1>2, <2>5, FS_Union
  <2>7. Cardinality(skipped \cap (S \ {p})) \in Nat
    BY <1>2, FS_Subset, FS_CardinalityType
  <2>8. Cardinality(newer) <= Cardinality(skipped \cup (S \ {p}))
    BY <2>4, <2>6, FS_Subset
  <2>9. Cardinality(newer) < k + n
    BY <1>3, <1>5, <2>5, <2>6, <2>7, <2>8
  <2>10. QED
    BY <1>4, <1>7, <2>3, <2>9
<1>8. CASE p \notin skipped /\ p \notin S
  <2>1. Cardinality(S) = n
    <3> SUFFICES ASSUME Cardinality(S) # n PROVE FALSE
      OBVIOUS
    <3>1. Cardinality(S) < n /\ S = R
      BY <1>3, <1>5
    <3>2. R = M \ skipped
      BY <1>3, <1>5, <3>1
    <3>3. QED
      BY <1>8, <3>1, <3>2
  <2>2. Cardinality(R) > n
    <3> SUFFICES ASSUME ~(Cardinality(R) > n) PROVE FALSE
      OBVIOUS
    <3>1. R = M \ skipped
      BY <1>3, <1>5
    <3>2. S \subseteq R \ {p} /\ p \in R
      BY <1>1, <1>8, <3>1
    <3>3. IsFiniteSet(R \ {p}) /\ Cardinality(R \ {p}) = Cardinality(R) - 1
      BY <1>2, <3>2, FS_RemoveElement
    <3>4. Cardinality(S) <= Cardinality(R \ {p})
      BY <3>2, <3>3, FS_Subset
    <3>5. QED
      BY <1>3, <2>1, <3>3, <3>4
  <2>3. skipped \subseteq newer
    BY <1>1, <1>8, <1>5a, CutIsAbove
  <2>4. S \subseteq newer
    <3> SUFFICES ASSUME NEW q \in S PROVE at[q] > at[p]
      BY <1>1, <1>5a
    <3>1. CASE p \in R
      BY <1>8, <3>1, <1>5c
    <3>2. CASE p \notin R
      <4>1. \A r \in R : at[r] > at[p]
        BY <1>8, <3>2, <1>5b
      <4>2. QED
        BY <1>1, <4>1
    <3>3. QED
      BY <3>1, <3>2
  <2>5. Cardinality(skipped \cup S) = Cardinality(skipped) + Cardinality(S)
    <3>1. skipped \cap S = {}
      BY <1>1
    <3>2. Cardinality(skipped \cap S) = 0
      BY <3>1, FS_EmptySet
    <3>3. Cardinality(skipped \cup S) =
            Cardinality(skipped) + Cardinality(S) - Cardinality(skipped \cap S)
      BY <1>2, FS_Union
    <3>4. QED
      BY <1>3, <3>2, <3>3
  <2>6. Cardinality(skipped \cup S) <= Cardinality(newer)
    <3>1. skipped \cup S \subseteq newer
      BY <2>3, <2>4
    <3>2. QED
      BY <1>2, <3>1, FS_Subset
  <2>7. Cardinality(skipped) = k
    BY <1>3, <1>5, <1>8
  <2>8. QED
    BY <1>4, <1>8, <2>1, <2>2, <2>5, <2>6, <2>7
<1>9. QED
  BY <1>6, <1>7, <1>8

\* The place of a product in a finite list is a number,
LEMMA PlaceInNat ==
  ASSUME NEW M, IsFiniteSet(M), NEW at, NEW p
  PROVE  PlaceIn(M, p, at) \in Nat
<1>1. {q \in M : at[q] > at[p]} \subseteq M
  OBVIOUS
<1>2. QED
  BY <1>1, FS_Subset, FS_CardinalityType DEF PlaceIn

\* More matching products never move one to an earlier place.
LEMMA PlaceMonotone ==
  ASSUME NEW M, NEW N, IsFiniteSet(N), M \subseteq N,
         NEW at, NEW bt, \A q \in M : bt[q] = at[q], NEW p \in M
  PROVE  PlaceIn(M, p, at) <= PlaceIn(N, p, bt)
<1>1. {q \in M : at[q] > at[p]} \subseteq {q \in N : bt[q] > bt[p]}
  OBVIOUS
<1>2. IsFiniteSet({q \in N : bt[q] > bt[p]})
  BY FS_Subset, {q \in N : bt[q] > bt[p]} \subseteq N
<1>3. QED
  BY <1>1, <1>2, FS_Subset DEF PlaceIn

--------------------------------------------------------------------------------
(***************************************************************************)
(* The table and what the walk finds in it.                                *)
(***************************************************************************)
Place(p) == PlaceIn(Matching, p, CreatedAt)

At == ParsePageToken(token)

StampsDiffer ==
  \A p, q \in Stored : p # q => products[p].createdAt # products[q].createdAt

\* Offset and limit do not change what a statement selects.
LEMMA SelectedByFilter ==
  ASSUME NEW n, NEW k
  PROVE  /\ Selected(Offset(Limit(Query(filter), n), k)) = Matching
         /\ Selected(Count(Offset(Limit(Query(filter), n), k))) = Matching
         /\ Count(Offset(Limit(Query(filter), n), k)).limit = 0
         /\ Count(Offset(Limit(Query(filter), n), k)).offset = 0
         /\ Offset(Limit(Query(filter), n), k).limit = n
         /\ Offset(Limit(Query(filter), n), k).offset = k
BY DEF Matching, Selected, Offset, Limit, Count, Query, Where, From

\* The list a filter selects is finite, and part of the table,
LEMMA MatchingFacts ==
  ASSUME TypeOK, StampsDiffer
  PROVE  /\ IsFiniteSet(Matching) /\ Matching \subseteq Stored /\ Stored \subseteq Products
         /\ \A p \in Matching : CreatedAt[p] \in Nat
         /\ \A p, q \in Matching : p # q => CreatedAt[p] # CreatedAt[q]
<1>1. Matching \subseteq Stored /\ Stored \subseteq Products
  BY DEF Matching, Selected, Stored
<1>2. IsFiniteSet(Matching)
  BY <1>1, TableAssumption, FS_Subset
<1>3. \A p \in Stored : CreatedAt[p] = products[p].createdAt /\ CreatedAt[p] \in Nat
  BY TableAssumption DEF TypeOK, Stored, CreatedAt, Row
<1>4. QED
  BY <1>1, <1>2, <1>3 DEF StampsDiffer

\* so a place in it is a number.
LEMMA PlaceIsNat ==
  ASSUME TypeOK, StampsDiffer, NEW p
  PROVE  Place(p) \in Nat
BY MatchingFacts, PlaceInNat DEF Place

\* A command keeps the stamps of the products that are stored, and gives a new one
\* a stamp of its own.
LEMMA CommandKeepsStamps ==
  ASSUME products \in [Products -> Row \cup {None}], StampsDiffer,
         NEW p \in Products, Command(p)
  PROVE  /\ products' \in [Products -> Row \cup {None}]
         /\ StampsDiffer'
         /\ Stored \subseteq Stored'
         /\ \A q \in Stored : products'[q].createdAt = products[q].createdAt
<1> USE TableAssumption DEF Stored, Row, StampsDiffer
<1>1. CASE Create(p)
  <2>1. PICK c \in Categories, at \in Stamps :
          /\ \A q \in Stored : products[q].createdAt < at
          /\ products' = [products EXCEPT
               ![p] = [category |-> c, status |-> "inactive", createdAt |-> at]]
    BY <1>1 DEF Create
  <2> DEFINE row == [category |-> c, status |-> "inactive", createdAt |-> at]
  <2>2. row \in Row /\ row # None /\ row.createdAt = at
    BY DEF Stati
  <2>3. p \notin Stored
    BY <1>1 DEF Create
  <2> HIDE DEF row
  <2>4. products' = [products EXCEPT ![p] = row]
    BY <2>1 DEF row
  <2>5. /\ Stored' = Stored \cup {p} /\ products'[p] = row
        /\ \A q \in Stored : products'[q] = products[q]
    BY <2>2, <2>3, <2>4
  <2>6. \A q \in Stored : products[q].createdAt # at
    BY <2>1
  <2>7. products' \in [Products -> Row \cup {None}]
    BY <2>2, <2>4
  <2>8. QED
    BY <2>2, <2>5, <2>6, <2>7
<1>2. ASSUME NEW from, NEW row \in Row, row.createdAt = products[p].createdAt,
             Change(p, from, row)
      PROVE  /\ products' \in [Products -> Row \cup {None}]
             /\ StampsDiffer'
             /\ Stored \subseteq Stored'
             /\ \A q \in Stored : products'[q].createdAt = products[q].createdAt
  <2>1. products' = [products EXCEPT ![p] = row] /\ p \in Stored /\ row # None
    BY <1>2 DEF Change
  <2>2. Stored' = Stored
    BY <2>1
  <2>3. \A q \in Stored : products'[q].createdAt = products[q].createdAt
    BY <1>2, <2>1
  <2>4. products' \in [Products -> Row \cup {None}]
    BY <2>1
  <2>5. QED
    BY <2>2, <2>3, <2>4
<1>3. CASE Activate(p)
  <2>1. products[p] \in Row
    BY <1>3 DEF Activate, Change
  <2>2. [products[p] EXCEPT !.status = "active"] \in Row
    BY <2>1 DEF Stati
  <2>3. [products[p] EXCEPT !.status = "active"].createdAt = products[p].createdAt
    BY <2>1
  <2>4. QED
    BY <1>2, <1>3, <2>2, <2>3 DEF Activate
<1>4. CASE Deactivate(p)
  <2>1. products[p] \in Row
    BY <1>4 DEF Deactivate, Change
  <2>2. [products[p] EXCEPT !.status = "inactive"] \in Row
    BY <2>1 DEF Stati
  <2>3. [products[p] EXCEPT !.status = "inactive"].createdAt = products[p].createdAt
    BY <2>1
  <2>4. QED
    BY <1>2, <1>4, <2>2, <2>3 DEF Deactivate
<1>5. CASE Archive(p)
  <2>1. products[p] \in Row
    BY <1>5 DEF Archive, Change
  <2>2. [products[p] EXCEPT !.status = "archived"] \in Row
    BY <2>1 DEF Stati
  <2>3. [products[p] EXCEPT !.status = "archived"].createdAt = products[p].createdAt
    BY <2>1
  <2>4. QED
    BY <1>2, <1>5, <2>2, <2>3 DEF Archive
<1>6. CASE Recategorise(p)
  <2>1. PICK c \in Categories :
          Change(p, {"inactive", "active"}, [products[p] EXCEPT !.category = c])
    BY <1>6 DEF Recategorise
  <2>2. products[p] \in Row
    BY <2>1 DEF Change
  <2>3. [products[p] EXCEPT !.category = c] \in Row
    BY <2>2
  <2>4. [products[p] EXCEPT !.category = c].createdAt = products[p].createdAt
    BY <2>2
  <2>5. QED
    BY <1>2, <2>1, <2>3, <2>4
<1>7. QED
  BY <1>1, <1>3, <1>4, <1>5, <1>6 DEF Command
--------------------------------------------------------------------------------
(***************************************************************************)
(* The invariant of a walk.                                                *)
(***************************************************************************)
InCall == pc \in {"page", "count"}

\* Of the products that have matched all the time, those not seen are still ahead.
UnseenAhead == InCall /\ ~lost => \A p \in steady \ seen : At <= Place(p)

\* Of the products that match now, those seen are behind.
SeenBehind == InCall /\ ~gained => \A p \in seen \cap Matching : Place(p) < At

\* The same for the page in hand and the offset that goes with it.
PageLeavesAhead ==
  pc = "count" /\ ~lost =>
    \A p \in steady \ (seen \cup page) : next # None /\ next <= Place(p)

PageIsBehind ==
  pc = "count" /\ ~gained =>
    /\ page \cap seen = {}
    /\ next # None => \A p \in (seen \cup page) \cap Matching : Place(p) < next

WalkInv ==
  /\ TypeOK /\ StampsDiffer
  /\ steady \subseteq Matching
  /\ UnseenAhead /\ SeenBehind /\ PageLeavesAhead /\ PageIsBehind
  /\ NothingMissed /\ NothingTwice

\* The invariant holds before the first walk.
LEMMA WalkInitially == Init => WalkInv
<1> SUFFICES ASSUME Init PROVE WalkInv
  OBVIOUS
<1>1. TypeOK
  <2>1. products \in [Products -> Row \cup {None}]
    BY DEF Init, TableInit
  <2>2. DefaultPageSize \in 1 .. MaxPageSize
    BY PageAssumption
  <2>3. filter \in Filter
    BY PageAssumption DEF Init
  <2>4. QED
    BY <2>1, <2>2, <2>3 DEF Init, TypeOK
<1>2. StampsDiffer
  BY DEF Init, TableInit, StampsDiffer, Stored
<1>3. QED
  BY <1>1, <1>2 DEF Init, WalkInv, UnseenAhead, SeenBehind, PageLeavesAhead, PageIsBehind,
                    InCall, NothingMissed, NothingTwice

\* A step of the client that keeps table and filter keeps the places.
LEMMA PlacesUnchanged ==
  ASSUME UNCHANGED << products, filter >>
  PROVE  /\ Matching' = Matching
         /\ \A p : Place(p)' = Place(p)
         /\ StampsDiffer' <=> StampsDiffer
<1>1. Stored' = Stored /\ CreatedAt' = CreatedAt
  BY DEF Stored, CreatedAt
<1>2. Matching' = Matching
  BY <1>1 DEF Matching, Selected, Query, Where, From
<1>3. QED
  BY <1>1, <1>2 DEF Place, PlaceIn, StampsDiffer

\* A walk begins with everything ahead.
LEMMA StartWalkStep ==
  ASSUME WalkInv, NEW f \in Filters, NEW n \in Asked, StartWalk(f, n)
  PROVE  WalkInv'
<1>1. PageSize(n) \in 1 .. MaxPageSize
  BY PageAssumption DEF PageSize
<1>2. TypeOK'
  <2>1. Selected(Query(f)) \subseteq Products
    BY DEF Selected, Stored
  <2>2. QED
    BY <1>1, <2>1, PageAssumption DEF WalkInv, TypeOK, StartWalk
<1>3. StampsDiffer'
  BY DEF WalkInv, StartWalk, StampsDiffer, Stored
<1>4. steady' = Matching'
  BY DEF StartWalk, Matching, Selected, Stored, Query, Where, From
<1>5. At' = 0
  BY DEF StartWalk, At, ParsePageToken
<1>6. \A p : Place(p)' \in Nat
  <2>1. Matching' \subseteq Products
    BY DEF Matching, Selected, Stored
  <2>2. IsFiniteSet(Matching')
    BY <2>1, TableAssumption, FS_Subset
  <2>3. QED
    BY <2>2, PlaceInNat DEF Place
<1>7. QED
  BY <1>2, <1>3, <1>4, <1>5, <1>6
     DEF StartWalk, WalkInv, UnseenAhead, SeenBehind, PageLeavesAhead, PageIsBehind,
         InCall, NothingMissed, NothingTwice

\* The first query takes the places from the offset on, and stays ahead of what the
\* walk has seen.
LEMMA ReadPageStep ==
  ASSUME WalkInv, ReadPage
  PROVE  WalkInv'
<1> DEFINE b == Offset(Limit(Query(filter), pageSize + 1), ParsePageToken(token))
<1>1. PICK R \in SUBSET Selected(b) :
        /\ Result(R, b)
        /\ \E S \in SUBSET R : FirstPage(S, R) /\ page' = S
        /\ next' = NextToken(R)
  BY DEF ReadPage
<1>2. Selected(b) = Matching /\ b.limit = pageSize + 1 /\ b.offset = At
  BY SelectedByFilter DEF At
<1> HIDE DEF b
<1>3. At \in Nat /\ pageSize \in Nat /\ pageSize > 0
  BY PageAssumption DEF WalkInv, TypeOK, At, ParsePageToken
<1>4. PICK skipped \in SUBSET Matching :
        /\ Newest(skipped, Matching, At, CreatedAt)
        /\ Newest(R, Matching \ skipped, pageSize + 1, CreatedAt)
  BY <1>1, <1>2, <1>3 DEF Result
<1>5. Newest(page', R, pageSize, CreatedAt)
  BY <1>1 DEF FirstPage
<1>6. R \subseteq Matching /\ page' \subseteq R
  BY <1>1, <1>2
<1>7. /\ IsFiniteSet(Matching) /\ Matching \subseteq Products
      /\ \A p \in Matching : CreatedAt[p] \in Nat
      /\ \A p, q \in Matching : p # q => CreatedAt[p] # CreatedAt[q]
  BY MatchingFacts DEF WalkInv
<1>8. Cardinality(R) \in Nat
  BY <1>6, <1>7, FS_Subset, FS_CardinalityType
<1>9. next' = IF Cardinality(R) > pageSize THEN At + pageSize ELSE None
  BY <1>1 DEF NextToken, At
<1>10. \A p \in Matching :
         /\ p \in page' => At <= Place(p) /\ Place(p) < At + pageSize
         /\ p \notin page' => \/ Place(p) < At
                              \/ Cardinality(R) > pageSize /\ At + pageSize <= Place(p)
  BY <1>3, <1>4, <1>5, <1>7, PlacesOfPage DEF Place
<1>11. TypeOK'
  BY <1>3, <1>6, <1>7, <1>9 DEF ReadPage, WalkInv, TypeOK, ghosts
<1>12. /\ UNCHANGED << products, filter, token, seen, twice, steady, lost, gained >>
       /\ pc = "page" /\ pc' = "count"
  BY DEF ReadPage, ghosts
<1>13. /\ Matching' = Matching /\ \A p : Place(p)' = Place(p)
       /\ StampsDiffer' /\ At' = At
  BY <1>12, PlacesUnchanged DEF WalkInv, At
<1>14. \A p \in Matching : Place(p) \in Nat
  BY PlaceIsNat DEF WalkInv
<1>15. next' # None => next' = At + pageSize
  BY <1>9
<1>16. UnseenAhead' /\ SeenBehind'
  BY <1>12, <1>13 DEF WalkInv, UnseenAhead, SeenBehind, InCall
<1>17. PageLeavesAhead'
  <2> SUFFICES ASSUME ~lost, NEW p \in steady, p \notin seen, p \notin page'
               PROVE  next' # None /\ next' <= Place(p)
    BY <1>12, <1>13 DEF PageLeavesAhead
  <2>1. p \in Matching /\ At <= Place(p)
    BY <1>12 DEF WalkInv, UnseenAhead, InCall
  <2>2. Cardinality(R) > pageSize /\ At + pageSize <= Place(p)
    BY <1>3, <1>10, <1>14, <2>1
  <2>3. At + pageSize # None
    BY <1>3, PageAssumption
  <2>4. QED
    BY <1>9, <2>2, <2>3
<1>18. PageIsBehind'
  <2> SUFFICES ASSUME ~gained
               PROVE  /\ page' \cap seen = {}
                      /\ next' # None =>
                           \A p \in (seen \cup page') \cap Matching : Place(p) < next'
    BY <1>12, <1>13 DEF PageIsBehind
  <2>1. \A p \in seen \cap Matching : Place(p) < At
    BY <1>12 DEF WalkInv, SeenBehind, InCall
  <2>2. page' \cap seen = {}
    BY <1>3, <1>6, <1>10, <1>14, <2>1
  <2>3. QED
    BY <1>3, <1>10, <1>14, <1>15, <2>1, <2>2
<1>19. QED
  BY <1>11, <1>12, <1>13, <1>16, <1>17, <1>18 DEF WalkInv, NothingMissed, NothingTwice

\* The reply moves the client to the offset that goes with the page, or ends the
\* walk with nothing ahead.
LEMMA CountProductsStep ==
  ASSUME WalkInv, CountProducts
  PROVE  WalkInv'
<1>1. /\ UNCHANGED << products, filter, pageSize, steady, lost, gained >>
      /\ pc = "count" /\ pc' = (IF next = None THEN "done" ELSE "page")
      /\ seen' = seen \cup page /\ twice' = twice \cup (seen \cap page)
      /\ page' = {} /\ next' = None /\ token' = next
  BY DEF CountProducts, ghosts
<1>2. /\ Matching' = Matching /\ \A p : Place(p)' = Place(p) /\ StampsDiffer'
  BY <1>1, PlacesUnchanged DEF WalkInv
<1>3. TypeOK'
  <2>1. PICK R \in SUBSET Matching : total' = Cardinality(R)
    BY DEF CountProducts
  <2>2. total' \in Nat
    BY <2>1, MatchingFacts, FS_Subset, FS_CardinalityType DEF WalkInv
  <2>3. QED
    BY <1>1, <2>2 DEF WalkInv, TypeOK
<1>4. next # None => At' = next
  BY <1>1 DEF At, ParsePageToken
<1>5. CASE next = None
  BY <1>1, <1>2, <1>3, <1>5
     DEF WalkInv, PageLeavesAhead, PageIsBehind, UnseenAhead, SeenBehind, InCall,
         NothingMissed, NothingTwice
<1>6. CASE next # None
  BY <1>1, <1>2, <1>3, <1>4, <1>6
     DEF WalkInv, PageLeavesAhead, PageIsBehind, UnseenAhead, SeenBehind, InCall,
         NothingMissed, NothingTwice
<1>7. QED
  BY <1>5, <1>6

\* After a failed count the same page is asked for again.
LEMMA CountFailsStep ==
  ASSUME WalkInv, CountFails
  PROVE  WalkInv'
<1>1. /\ UNCHANGED << products, filter, pageSize, token, seen, twice, total,
                      steady, lost, gained >>
      /\ pc = "count" /\ pc' = "page" /\ page' = {} /\ next' = None
  BY DEF CountFails, ghosts
<1>2. /\ Matching' = Matching /\ \A p : Place(p)' = Place(p)
      /\ StampsDiffer' /\ At' = At
  BY <1>1, PlacesUnchanged DEF WalkInv, At
<1>3. TypeOK'
  BY <1>1 DEF WalkInv, TypeOK
<1>4. QED
  BY <1>1, <1>2, <1>3
     DEF WalkInv, PageLeavesAhead, PageIsBehind, UnseenAhead, SeenBehind, InCall,
         NothingMissed, NothingTwice

\* A command moves products to later places unless one leaves the filter, and to
\* earlier ones unless one enters it.
LEMMA WriteStep ==
  ASSUME WalkInv, NEW w \in Products, Write(w)
  PROVE  WalkInv'
<1>1. /\ UNCHANGED << pc, filter, pageSize, token, page, next, seen, twice, total >>
      /\ steady' = steady \cap Matching'
      /\ lost' = (lost \/ ~(Matching \subseteq Matching'))
      /\ gained' = (gained \/ ~(Matching' \subseteq Matching))
  BY DEF Write, walk
<1>2. /\ products' \in [Products -> Row \cup {None}] /\ StampsDiffer'
      /\ Stored \subseteq Stored'
      /\ \A q \in Stored : products'[q].createdAt = products[q].createdAt
  BY CommandKeepsStamps DEF Write, WalkInv, TypeOK
<1>3. TypeOK'
  <2>1. steady' \subseteq Products /\ lost' \in BOOLEAN /\ gained' \in BOOLEAN
    BY <1>1 DEF WalkInv, TypeOK
  <2>2. QED
    BY <1>1, <1>2, <2>1 DEF WalkInv, TypeOK
<1>4. At' = At /\ At \in Nat
  BY <1>1 DEF WalkInv, TypeOK, At, ParsePageToken
<1>5. Matching \subseteq Stored /\ Matching' \subseteq Stored' /\ IsFiniteSet(Matching)
  BY MatchingFacts DEF WalkInv, Matching, Selected
<1>6. IsFiniteSet(Matching')
  <2>1. Matching' \subseteq Products
    BY DEF Matching, Selected, Stored
  <2>2. QED
    BY <2>1, TableAssumption, FS_Subset
<1>7. \A q \in Stored : CreatedAt'[q] = CreatedAt[q]
  BY <1>2 DEF CreatedAt
<1>8. ASSUME Matching \subseteq Matching', NEW p \in Matching
      PROVE  Place(p) <= Place(p)'
  BY <1>5, <1>6, <1>7, <1>8, PlaceMonotone DEF Place
<1>9. ASSUME Matching' \subseteq Matching, NEW p \in Matching'
      PROVE  Place(p)' <= Place(p)
  BY <1>5, <1>7, <1>9, PlaceMonotone DEF Place
<1>10. \A p : Place(p) \in Nat /\ Place(p)' \in Nat
  BY <1>6, PlaceIsNat, PlaceInNat DEF WalkInv, Place
<1>11. UnseenAhead' /\ PageLeavesAhead'
  <2> SUFFICES ASSUME InCall, ~lost', NEW p \in steady', p \notin seen
               PROVE  /\ At <= Place(p)'
                      /\ pc = "count" /\ p \notin page => next # None /\ next <= Place(p)'
    BY <1>1, <1>4 DEF UnseenAhead, PageLeavesAhead, InCall
  <2>1. ~lost /\ Matching \subseteq Matching' /\ p \in steady /\ p \in Matching
    BY <1>1 DEF WalkInv
  <2>2. Place(p) <= Place(p)'
    BY <1>8, <2>1
  <2>3. At <= Place(p)
    BY <2>1 DEF WalkInv, UnseenAhead
  <2>4. pc = "count" /\ p \notin page => next \in Nat /\ next # None /\ next <= Place(p)
    BY <2>1 DEF WalkInv, PageLeavesAhead, TypeOK
  <2>5. QED
    BY <1>4, <1>10, <2>2, <2>3, <2>4
<1>12. SeenBehind' /\ PageIsBehind'
  <2> SUFFICES ASSUME ~gained'
               PROVE  SeenBehind' /\ PageIsBehind'
    BY DEF SeenBehind, PageIsBehind
  <2>1. ~gained /\ Matching' \subseteq Matching
    BY <1>1
  <2>2. \A p \in Matching' : p \in Matching /\ Place(p)' <= Place(p)
    BY <1>9, <2>1
  <2>3. InCall => \A p \in seen \cap Matching : Place(p) < At
    BY <2>1 DEF WalkInv, SeenBehind
  <2>4. pc = "count" =>
          /\ page \cap seen = {}
          /\ next # None => \A p \in (seen \cup page) \cap Matching : Place(p) < next
    BY <2>1 DEF WalkInv, PageIsBehind
  <2>5. next # None => next \in Nat
    BY DEF WalkInv, TypeOK
  <2>6. SeenBehind'
    <3> SUFFICES ASSUME InCall, NEW p \in seen \cap Matching' PROVE Place(p)' < At
      BY <1>1, <1>4 DEF SeenBehind, InCall
    <3>1. QED
      BY <1>4, <1>10, <2>2, <2>3
  <2>7. PageIsBehind'
    <3> SUFFICES ASSUME pc = "count", next # None, NEW p \in (seen \cup page) \cap Matching'
                 PROVE  Place(p)' < next
      BY <1>1, <2>4 DEF PageIsBehind
    <3>1. QED
      BY <1>10, <2>2, <2>4, <2>5
  <2>8. QED
    BY <2>6, <2>7
<1>13. QED
  BY <1>1, <1>2, <1>3, <1>11, <1>12 DEF WalkInv, NothingMissed, NothingTwice

\* Every step keeps the invariant.
LEMMA WalkInductive == WalkInv /\ [Next]_vars => WalkInv'
<1> SUFFICES ASSUME WalkInv, [Next]_vars PROVE WalkInv'
  OBVIOUS
<1>1. CASE UNCHANGED vars
  <2>1. UNCHANGED << products, filter >> /\ At' = At
    BY <1>1 DEF vars, At
  <2>2. Matching' = Matching /\ (\A p : Place(p)' = Place(p)) /\ StampsDiffer'
    BY <2>1, PlacesUnchanged DEF WalkInv
  <2>3. TypeOK'
    BY <1>1 DEF vars, WalkInv, TypeOK
  <2>4. QED
    BY <1>1, <2>1, <2>2, <2>3
       DEF vars, WalkInv, UnseenAhead, SeenBehind, PageLeavesAhead, PageIsBehind, InCall,
           NothingMissed, NothingTwice
<1>2. QED
  BY <1>1, WriteStep, StartWalkStep, ReadPageStep, CountProductsStep, CountFailsStep
     DEF Next

\* It holds for ever.
LEMMA WalkInvariant == Spec => []WalkInv
BY WalkInitially, WalkInductive, PTL DEF Spec

\* Every variable keeps its range, the table included.
THEOREM PagesTyped == Spec => []TypeOK
<1>1. WalkInv => TypeOK
  BY DEF WalkInv
<1>2. QED
  BY <1>1, WalkInvariant, PTL

\* Offsets lose no product as long as none leaves the filter, whatever is created.
THEOREM NoProductMissed == Spec => []NothingMissed
<1>1. WalkInv => NothingMissed
  BY DEF WalkInv
<1>2. QED
  BY <1>1, WalkInvariant, PTL

\* Offsets repeat no product as long as none enters the filter, whatever leaves it.
THEOREM NoProductTwice == Spec => []NothingTwice
<1>1. WalkInv => NothingTwice
  BY DEF WalkInv
<1>2. QED
  BY <1>1, WalkInvariant, PTL
--------------------------------------------------------------------------------
(***************************************************************************)
(* The total.  A walk during which nothing came or went has shown only     *)
(* products that match, and what matches now is what matched throughout;   *)
(* the count, which neither offset nor limit cuts, finds the same.         *)
(***************************************************************************)
ShownStillMatch ==
  pc # "idle" /\ ~lost /\ ~gained => steady = Matching /\ seen \cup page \subseteq Matching

TotalInv == ShownStillMatch /\ TotalAddsUp

\* A statement without OFFSET and LIMIT has one result, everything it selects.
LEMMA CountIsOfAll ==
  ASSUME TypeOK, StampsDiffer, NEW R, NEW n, NEW k,
         Result(R, Count(Offset(Limit(Query(filter), n), k)))
  PROVE  R = Matching
<1> DEFINE b == Count(Offset(Limit(Query(filter), n), k))
<1>1. Selected(b) = Matching /\ b.limit = 0 /\ b.offset = 0
  BY SelectedByFilter
<1>2. Result(R, b)
  OBVIOUS
<1> HIDE DEF b
<1>3. PICK skipped \in SUBSET Matching :
        /\ Newest(skipped, Matching, 0, CreatedAt)
        /\ R = Matching \ skipped
  BY <1>1, <1>2 DEF Result
<1>4. IsFiniteSet(skipped)
  BY <1>3, MatchingFacts, FS_Subset
<1>5. Cardinality(skipped) = 0
  <2>1. Cardinality(skipped) \in Nat
    BY <1>4, FS_CardinalityType
  <2>2. Cardinality(skipped) <= 0
    BY <1>3 DEF Newest
  <2>3. QED
    BY <2>1, <2>2
<1>6. skipped = {}
  BY <1>4, <1>5, FS_EmptySet
<1>7. QED
  BY <1>3, <1>6

\* The last page completes the products the count finds.
LEMMA TotalInductive ==
  ASSUME WalkInv, WalkInv', TotalInv, [Next]_vars
  PROVE  TotalInv'
<1>1. CASE UNCHANGED vars
  <2>1. UNCHANGED << products, filter, pc, lost, gained, steady, seen, page, total >>
    BY <1>1 DEF vars
  <2>2. Matching' = Matching
    BY <2>1, PlacesUnchanged
  <2>3. QED
    BY <2>1, <2>2 DEF TotalInv, ShownStillMatch, TotalAddsUp
<1>2. ASSUME NEW p \in Products, Write(p) PROVE TotalInv'
  <2>1. /\ UNCHANGED << pc, page, seen, total >>
        /\ steady' = steady \cap Matching'
        /\ lost' = (lost \/ ~(Matching \subseteq Matching'))
        /\ gained' = (gained \/ ~(Matching' \subseteq Matching))
    BY <1>2 DEF Write, walk
  <2>2. ~lost' /\ ~gained' => ~lost /\ ~gained /\ Matching' = Matching
    BY <2>1
  <2>3. ShownStillMatch'
    BY <2>1, <2>2 DEF TotalInv, ShownStillMatch
  <2>4. TotalAddsUp'
    BY <2>1, <2>2 DEF TotalInv, TotalAddsUp
  <2>5. QED
    BY <2>3, <2>4 DEF TotalInv
<1>3. ASSUME NEW f \in Filters, NEW n \in Asked, StartWalk(f, n) PROVE TotalInv'
  <2>1. steady' = Matching'
    BY <1>3 DEF StartWalk, Matching, Selected, Stored, Query, Where, From
  <2>2. seen' = {} /\ page' = {} /\ pc' = "page"
    BY <1>3 DEF StartWalk
  <2>3. QED
    BY <2>1, <2>2 DEF TotalInv, ShownStillMatch, TotalAddsUp
<1>4. CASE ReadPage
  <2>1. /\ UNCHANGED << products, filter, lost, gained, steady, seen >>
        /\ pc = "page" /\ pc' = "count"
    BY <1>4 DEF ReadPage, ghosts
  <2>2. page' \subseteq Matching
    BY <1>4, SelectedByFilter DEF ReadPage
  <2>3. Matching' = Matching
    BY <2>1, PlacesUnchanged
  <2>4. QED
    BY <2>1, <2>2, <2>3 DEF TotalInv, ShownStillMatch, TotalAddsUp
<1>5. CASE CountProducts
  <2>1. /\ UNCHANGED << products, filter, lost, gained, steady >>
        /\ pc = "count" /\ seen' = seen \cup page /\ page' = {}
    BY <1>5 DEF CountProducts, ghosts
  <2>2. Matching' = Matching
    BY <2>1, PlacesUnchanged
  <2>3. total' = Cardinality(Matching)
    <3>1. PICK R \in SUBSET Matching :
            /\ Result(R, Count(Offset(Limit(Query(filter), pageSize + 1),
                                      ParsePageToken(token))))
            /\ total' = Cardinality(R)
      BY <1>5 DEF CountProducts
    <3>2. R = Matching
      BY <3>1, CountIsOfAll DEF WalkInv
    <3>3. QED
      BY <3>1, <3>2
  <2>4. ShownStillMatch'
    BY <2>1, <2>2 DEF TotalInv, ShownStillMatch
  <2>5. ASSUME pc' = "done", ~lost', ~gained' PROVE seen' = Matching
    <3>1. steady \subseteq seen'
      BY <2>1, <2>5 DEF WalkInv, NothingMissed
    <3>2. steady = Matching /\ seen' \subseteq Matching
      BY <2>1, <2>5 DEF TotalInv, ShownStillMatch
    <3>3. QED
      BY <3>1, <3>2
  <2>6. TotalAddsUp'
    BY <2>3, <2>5 DEF TotalAddsUp
  <2>7. QED
    BY <2>4, <2>6 DEF TotalInv
<1>6. CASE CountFails
  <2>1. /\ UNCHANGED << products, filter, lost, gained, steady, seen >>
        /\ pc = "count" /\ pc' = "page" /\ page' = {}
    BY <1>6 DEF CountFails, ghosts
  <2>2. Matching' = Matching
    BY <2>1, PlacesUnchanged
  <2>3. QED
    BY <2>1, <2>2 DEF TotalInv, ShownStillMatch, TotalAddsUp
<1>7. QED
  BY <1>1, <1>2, <1>3, <1>4, <1>5, <1>6 DEF Next

\* The total of the last page is the number of products of all pages, although it
\* is counted in another snapshot than any of them is read in.
THEOREM TotalIsOfTheWalk == Spec => []TotalAddsUp
<1>1. Init => TotalInv
  BY DEF Init, TotalInv, ShownStillMatch, TotalAddsUp
<1>2. WalkInv /\ WalkInv' /\ TotalInv /\ [Next]_vars => TotalInv'
  BY TotalInductive
<1>3. TotalInv => TotalAddsUp
  BY DEF TotalInv
<1>4. QED
  BY <1>1, <1>2, <1>3, WalkInvariant, PTL DEF Spec
=================================================================================
