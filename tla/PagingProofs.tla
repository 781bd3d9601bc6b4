----------------------------- MODULE PagingProofs -----------------------------
(***************************************************************************)
(* Theorems about Paging: whoever follows the cursors sees what the list   *)
(* holds, nothing of another list, and nothing twice, but for the reasons  *)
(* the properties name.                                                    *)
(***************************************************************************)
EXTENDS Paging, FiniteSetTheorems, SequenceTheorems, WellFoundedInduction, TLAPS

-----------------------------------------------------------------------------
(***************************************************************************)
(* The order of the entries, and the sorted list.                          *)
(***************************************************************************)
Ranked(entries, n) == \A e \in entries : e.rank \in [1 .. n -> Int]

Ordered(entries) ==
    /\ \A e \in entries : ~Before(e, e)
    /\ \A e, f, g \in entries : Before(e, f) /\ Before(f, g) => Before(e, g)

Total(entries) ==
    \A e, f \in entries : e # f => Before(e, f) \/ Before(f, e)

\* Ranks of one length are ordered.
LEMMA RanksOrdered ==
    ASSUME NEW entries, NEW n \in 1 .. 3, Ranked(entries, n)
    PROVE  Ordered(entries)
<1>1. \A e \in entries : DOMAIN e.rank = 1 .. n /\ \A k \in 1 .. n : e.rank[k] \in Int
  BY DEF Ranked
<1>2. ASSUME NEW e \in entries, Before(e, e) PROVE FALSE
  <2>1. PICK k \in DOMAIN e.rank : e.rank[k] < e.rank[k]
    BY <1>2 DEF Before
  <2> QED
    BY <1>1, <2>1
<1>3. ASSUME NEW e \in entries, NEW f \in entries, NEW g \in entries,
             Before(e, f), Before(f, g)
      PROVE  Before(e, g)
  <2>1. PICK k \in 1 .. n : /\ e.rank[k] < f.rank[k]
                            /\ \A j \in 1 .. k - 1 : e.rank[j] = f.rank[j]
    BY <1>1, <1>3 DEF Before
  <2>2. PICK l \in 1 .. n : /\ f.rank[l] < g.rank[l]
                            /\ \A j \in 1 .. l - 1 : f.rank[j] = g.rank[j]
    BY <1>1, <1>3 DEF Before
  <2>3. CASE k <= l
    <3>1. e.rank[k] < g.rank[k]
      BY <1>1, <2>1, <2>2, <2>3
    <3>2. \A j \in 1 .. k - 1 : e.rank[j] = g.rank[j]
      BY <2>1, <2>2, <2>3
    <3> QED
      BY <1>1, <3>1, <3>2 DEF Before
  <2>4. CASE l < k
    <3>1. e.rank[l] < g.rank[l]
      BY <1>1, <2>1, <2>2, <2>4
    <3>2. \A j \in 1 .. l - 1 : e.rank[j] = g.rank[j]
      BY <2>1, <2>2, <2>4
    <3> QED
      BY <1>1, <3>1, <3>2 DEF Before
  <2> QED
    BY <2>3, <2>4
<1> QED
  BY <1>2, <1>3 DEF Ordered

\* Of two entries with different ranks one comes first.
LEMMA RanksTotal ==
    ASSUME NEW entries, NEW n \in 1 .. 3, Ranked(entries, n),
           \A e, f \in entries : e.rank = f.rank => e = f
    PROVE  Total(entries)
<1> SUFFICES ASSUME NEW e \in entries, NEW f \in entries, e # f
             PROVE  Before(e, f) \/ Before(f, e)
  BY DEF Total
<1>1. /\ DOMAIN e.rank = 1 .. n /\ \A k \in 1 .. n : e.rank[k] \in Int
      /\ DOMAIN f.rank = 1 .. n /\ \A k \in 1 .. n : f.rank[k] \in Int
  BY DEF Ranked
<1>2. PICK k \in 1 .. n : e.rank[k] # f.rank[k]
  <2>1. e.rank # f.rank /\ e.rank \in [1 .. n -> Int] /\ f.rank \in [1 .. n -> Int]
    BY DEF Ranked
  <2> QED
    BY <2>1
<1>3. PICK l \in 1 .. n : /\ e.rank[l] # f.rank[l]
                          /\ \A j \in 1 .. l - 1 : e.rank[j] = f.rank[j]
  <2>1. k \in {1, 2, 3}
    OBVIOUS
  <2>2. CASE n >= 1 /\ e.rank[1] # f.rank[1]
    BY <2>2
  <2>3. CASE n >= 2 /\ e.rank[1] = f.rank[1] /\ e.rank[2] # f.rank[2]
    <3>1. \A j \in 1 .. 2 - 1 : e.rank[j] = f.rank[j]
      BY <2>3
    <3> QED
      BY <2>3, <3>1
  <2>4. CASE n >= 3 /\ e.rank[1] = f.rank[1] /\ e.rank[2] = f.rank[2] /\ e.rank[3] # f.rank[3]
    <3>1. \A j \in 1 .. 3 - 1 : j = 1 \/ j = 2
      OBVIOUS
    <3>2. \A j \in 1 .. 3 - 1 : e.rank[j] = f.rank[j]
      BY <2>4, <3>1
    <3> QED
      BY <2>4, <3>2
  <2> QED
    BY <1>2, <2>1, <2>2, <2>3, <2>4
<1>4. e.rank[l] < f.rank[l] \/ f.rank[l] < e.rank[l]
  BY <1>1, <1>3
<1> QED
  BY <1>1, <1>3, <1>4 DEF Before

\* Places are numbers from 1 on, and an earlier entry has a smaller one.
LEMMA PlaceIs ==
    ASSUME NEW entries, IsFiniteSet(entries), Ordered(entries), NEW e \in entries
    PROVE  /\ Place(e, entries) \in 1 .. Cardinality(entries)
           /\ \A f \in entries : Before(e, f) => Place(e, entries) < Place(f, entries)
<1> DEFINE front(f) == {x \in entries : Before(x, f)}
<1>1. \A f \in entries : /\ front(f) \subseteq entries /\ f \notin front(f)
                         /\ IsFiniteSet(front(f)) /\ Cardinality(front(f)) \in Nat
  <2> SUFFICES ASSUME NEW f \in entries
               PROVE  /\ front(f) \subseteq entries /\ f \notin front(f)
                      /\ IsFiniteSet(front(f)) /\ Cardinality(front(f)) \in Nat
    OBVIOUS
  <2>1. front(f) \subseteq entries /\ f \notin front(f)
    BY DEF Ordered
  <2>2. IsFiniteSet(front(f))
    BY <2>1, FS_Subset
  <2> QED
    BY <2>1, <2>2, FS_CardinalityType
<1>2. Cardinality(entries) \in Nat
  BY FS_CardinalityType
<1>3. Cardinality(front(e)) < Cardinality(entries)
  <2>1. front(e) \subseteq entries /\ front(e) # entries
    BY <1>1
  <2> HIDE DEF front
  <2> QED
    BY <1>1, <1>2, <2>1, FS_Subset
<1>4. ASSUME NEW f \in entries, Before(e, f)
      PROVE  Cardinality(front(e)) < Cardinality(front(f))
  <2>1. front(e) \subseteq front(f)
    BY <1>4 DEF Ordered
  <2>2. e \in front(f) /\ e \notin front(e)
    BY <1>1, <1>4
  <2> HIDE DEF front
  <2> QED
    BY <1>1, <2>1, <2>2, FS_Subset
<1>5. Place(e, entries) = Cardinality(front(e)) + 1
  BY DEF Place
<1>6. \A f \in entries : Place(f, entries) = Cardinality(front(f)) + 1
  BY DEF Place
<1> HIDE DEF front
<1> QED
  BY <1>1, <1>2, <1>3, <1>4, <1>6

\* The place of each entry, as a function.
Places(entries) == [e \in entries |-> Place(e, entries)]

\* Each place is taken, once.
LEMMA PlacesTaken ==
    ASSUME NEW entries, IsFiniteSet(entries), Ordered(entries), Total(entries)
    PROVE  /\ \A e, f \in entries : Place(e, entries) = Place(f, entries) => e = f
           /\ \A k \in 1 .. Cardinality(entries) :
                 \E e \in entries : Place(e, entries) = k
<1> DEFINE c == Cardinality(entries)
           T == 1 .. c
           place == [e \in entries |-> Place(e, entries)]
<1>1. c \in Nat
  BY FS_CardinalityType
<1>2. \A e \in entries : Place(e, entries) \in T
  BY PlaceIs
<1>3. \A e, f \in entries : Place(e, entries) = Place(f, entries) => e = f
  <2> SUFFICES ASSUME NEW e \in entries, NEW f \in entries, e # f
               PROVE  Place(e, entries) # Place(f, entries)
    OBVIOUS
  <2>1. Place(e, entries) < Place(f, entries) \/ Place(f, entries) < Place(e, entries)
    BY PlaceIs DEF Total
  <2> HIDE DEF c
  <2> QED
    BY <1>1, <1>2, <2>1
<1>4. IsFiniteSet(T) /\ Cardinality(T) = c
  <2> HIDE DEF c
  <2>1. 1 \in Int /\ c \in Int
    BY <1>1
  <2>2. IsFiniteSet(T) /\ Cardinality(T) = IF 1 > c THEN 0 ELSE c - 1 + 1
    BY <2>1, FS_Interval, Zenon
  <2> QED
    BY <1>1, <2>2
<1>5. place \in Injection(entries, T)
  <2>1. place \in [entries -> T]
    <3> HIDE DEF T
    <3> QED
      BY <1>2
  <2>2. \A e, f \in entries : place[e] = place[f] => e = f
    BY <1>3
  <2> HIDE DEF place, T
  <2> QED
    BY <2>1, <2>2 DEF Injection, IsInjective
<1>6. place \in Surjection(entries, T)
  <2> HIDE DEF place, T
  <2> QED
    BY <1>4, <1>5, FS_Injection
<1>7. \A k \in T : \E e \in entries : place[e] = k
  <2> HIDE DEF place, T
  <2> QED
    BY <1>6 DEF Surjection
<1> QED
  BY <1>3, <1>7

\* A list of the entries, each at its place.
SortedList(list, entries) ==
    /\ list \in Seq(entries) /\ Len(list) = Cardinality(entries)
    /\ \A k \in 1 .. Len(list) : list[k] \in entries /\ Place(list[k], entries) = k
    /\ \A e \in entries : /\ Place(e, entries) \in 1 .. Len(list)
                          /\ list[Place(e, entries)] = e
    /\ \A k, l \in 1 .. Len(list) : Before(list[k], list[l]) <=> k < l

\* Sorting gives it.
LEMMA SortedIs ==
    ASSUME NEW entries, IsFiniteSet(entries), Ordered(entries), Total(entries)
    PROVE  SortedList(Sorted(entries), entries)
<1> DEFINE list == Sorted(entries)
           c == Cardinality(entries)
<1>1. c \in Nat
  BY FS_CardinalityType
<1>2. \A k \in 1 .. c : list[k] \in entries /\ Place(list[k], entries) = k
  <2> SUFFICES ASSUME NEW k \in 1 .. c
               PROVE  list[k] \in entries /\ Place(list[k], entries) = k
    OBVIOUS
  <2>1. list[k] = CHOOSE e \in entries : Place(e, entries) = k
    BY DEF Sorted
  <2>2. \E e \in entries : Place(e, entries) = k
    BY PlacesTaken
  <2> QED
    BY <2>1, <2>2
<1>3. DOMAIN list = 1 .. c
  BY DEF Sorted
<1>4. list \in Seq(entries) /\ Len(list) = c
  <2>1. list \in [1 .. c -> entries]
    BY <1>2 DEF Sorted
  <2> HIDE DEF c, list
  <2> QED
    BY <1>1, <2>1
<1>5. ASSUME NEW e \in entries
      PROVE  Place(e, entries) \in 1 .. c /\ list[Place(e, entries)] = e
  <2>1. Place(e, entries) \in 1 .. c
    BY PlaceIs
  <2>2. Place(list[Place(e, entries)], entries) = Place(e, entries)
    BY <1>2, <2>1
  <2> QED
    BY <1>2, <2>1, <2>2, PlacesTaken
<1>6. ASSUME NEW k \in 1 .. c, NEW l \in 1 .. c
      PROVE  Before(list[k], list[l]) <=> k < l
  <2>1. list[k] \in entries /\ list[l] \in entries
    BY <1>2
  <2>2. Before(list[k], list[l]) => k < l
    BY <1>2, <2>1, PlaceIs
  <2>3. ASSUME k < l PROVE Before(list[k], list[l])
    <3>1. list[k] # list[l]
      BY <1>2, <2>3
    <3>2. ~Before(list[l], list[k])
      <4>1. Before(list[l], list[k]) => l < k
        BY <1>2, <2>1, PlaceIs
      <4> HIDE DEF c, list
      <4> QED
        BY <1>1, <2>3, <4>1
    <3> QED
      BY <2>1, <3>1, <3>2 DEF Total
  <2> QED
    BY <2>2, <2>3
<1>7. SortedList(list, entries)
  <2> HIDE DEF c, list
  <2>1. Len(list) = c
    BY <1>4
  <2>2. c = Cardinality(entries)
    BY DEF c
  <2> QED
    BY <1>2, <1>4, <1>5, <1>6, <2>1, <2>2 DEF SortedList
<1> QED
  BY <1>7
-----------------------------------------------------------------------------
(***************************************************************************)
(* A page of a sorted list.                                                *)
(***************************************************************************)
Keyed(entries) == \A e, f \in entries : e.key = f.key => e = f

\* What the entries of every list are.
Proper(entries) ==
    /\ IsFiniteSet(entries) /\ Ordered(entries) /\ Total(entries) /\ Keyed(entries)
    /\ \A e \in entries : e.id \in Int \cup {None} /\ e.key \in Keys

LEMMA MinOfTwo ==
    ASSUME NEW a \in Int, NEW b \in Int
    PROVE  Min({a, b}) = IF a <= b THEN a ELSE b
<1>1. Min({a, b}) = CHOOSE x \in {a, b} : \A y \in {a, b} : x <= y
  BY DEF Min
<1>2. \A x \in {a, b} : (\A y \in {a, b} : x <= y) <=> x = IF a <= b THEN a ELSE b
  OBVIOUS
<1>3. (IF a <= b THEN a ELSE b) \in {a, b}
  OBVIOUS
<1> QED
  BY <1>1, <1>2, <1>3

\* A set of numbers has a least one, and Min is it.
LEMMA MinIs ==
    ASSUME NEW S \in SUBSET Nat, S # {}
    PROVE  Min(S) \in S /\ \A i \in S : Min(S) <= i
<1> DEFINE Less == OpToRel(<, Nat)
<1>1. PICK m \in S : \A i \in S : ~(<<i, m>> \in Less)
  <2>1. IsWellFoundedOn(Less, Nat)
    BY NatLessThanWellFounded
  <2> HIDE DEF Less
  <2> QED
    BY <2>1, WFMin
<1>2. \A i \in S : m <= i
  <2> SUFFICES ASSUME NEW i \in S, ~(m <= i)
               PROVE  <<i, m>> \in Less
    BY <1>1
  <2> QED
    BY DEF OpToRel
<1> QED
  BY <1>2 DEF Min

\* The page starts behind the first entry with the cursor's id, if there is one.
LEMMA StartIs ==
    ASSUME NEW entries, NEW list, SortedList(list, entries), Len(list) \in Nat,
           NEW cursor
    PROVE  /\ Start(list, cursor) \in 0 .. Len(list)
           /\ cursor = None => Start(list, cursor) = 0
           /\ cursor # None =>
                 \/ /\ Start(list, cursor) = 0
                    /\ \A e \in entries : e.id # cursor.id
                 \/ /\ Start(list, cursor) \in 1 .. Len(list)
                    /\ list[Start(list, cursor)].id = cursor.id
                    /\ \A e \in entries : e.id = cursor.id =>
                          Start(list, cursor) <= Place(e, entries)
<1>1. CASE cursor = None
  BY <1>1 DEF Start
<1>2. CASE cursor # None
  <2> DEFINE I == {i \in 1 .. Len(list) : list[i].id = cursor.id}
  <2>1. Start(list, cursor) = IF I # {} THEN Min(I) ELSE 0
    BY <1>2 DEF Start, SelectInSeq
  <2>2. \A e \in entries : e.id = cursor.id => Place(e, entries) \in I
    BY DEF SortedList
  <2>3. CASE I = {}
    <3>1. Start(list, cursor) = 0
      BY <2>1, <2>3
    <3> QED
      BY <1>2, <2>2, <2>3, <3>1
  <2>4. CASE I # {}
    <3>1. Min(I) \in I /\ \A i \in I : Min(I) <= i
      <4>1. I \in SUBSET Nat
        OBVIOUS
      <4> HIDE DEF I
      <4> QED
        BY <2>4, <4>1, MinIs
    <3>2. Start(list, cursor) = Min(I)
      BY <2>1, <2>4
    <3>3. Start(list, cursor) \in 1 .. Len(list) /\ list[Start(list, cursor)].id = cursor.id
      BY <3>1, <3>2
    <3>4. \A e \in entries : e.id = cursor.id => Start(list, cursor) <= Place(e, entries)
      BY <2>2, <3>1, <3>2
    <3> QED
      BY <1>2, <3>3, <3>4
  <2> QED
    BY <2>3, <2>4
<1> QED
  BY <1>1, <1>2

\* What a page holds of the entries behind its start: the first of them, in
\* their order; the others are behind the entry that the next cursor names.
LEMMA PageIs ==
    ASSUME NEW entries, Proper(entries), NEW list, SortedList(list, entries),
           Len(list) \in Nat, NEW start \in 0 .. Len(list)
    PROVE  /\ PageRows(list, start) \in Seq(Keys)
           /\ \A k \in DOMAIN PageRows(list, start) :
                 \E e \in entries : /\ e.key = PageRows(list, start)[k]
                                    /\ Place(e, entries) = start + k
           /\ \A e \in entries : Place(e, entries) > start =>
                 \/ \E k \in DOMAIN PageRows(list, start) : PageRows(list, start)[k] = e.key
                 \/ /\ NextCursor(list, start) # None
                    /\ \E c \in entries : /\ c.key = NextCursor(list, start).key
                                          /\ Before(c, e)
           /\ NextCursor(list, start) # None =>
                 \E c \in entries :
                    /\ NextCursor(list, start) = [id |-> c.id, key |-> c.key]
                    /\ Len(PageRows(list, start)) > 0
                    /\ PageRows(list, start)[Len(PageRows(list, start))] = c.key
<1> DEFINE n == IF Limit <= Len(list) - start THEN Limit ELSE Len(list) - start
           rows == PageRows(list, start)
           next == NextCursor(list, start)
<1>1. Limit \in Nat /\ Limit > 0
  BY PagingAssumption
<1>2. Min({Limit, Len(list) - start}) = n
  BY <1>1, MinOfTwo
<1>3. n \in Nat /\ start + n <= Len(list)
  BY <1>1
<1>4. rows = [k \in 1 .. n |-> list[start + k].key]
  BY <1>2 DEF PageRows
<1>5. \A k \in 1 .. Len(list) : list[k] \in entries /\ Place(list[k], entries) = k
  BY DEF SortedList
<1>6. \A k \in 1 .. n : /\ start + k \in 1 .. Len(list)
                        /\ rows[k] = list[start + k].key
                        /\ list[start + k] \in entries
                        /\ Place(list[start + k], entries) = start + k
  <2> SUFFICES ASSUME NEW k \in 1 .. n
               PROVE  /\ start + k \in 1 .. Len(list)
                      /\ rows[k] = list[start + k].key
                      /\ list[start + k] \in entries
                      /\ Place(list[start + k], entries) = start + k
    OBVIOUS
  <2>1. start + k \in 1 .. Len(list)
    BY <1>3
  <2>2. rows[k] = list[start + k].key
    BY <1>4
  <2> QED
    BY <1>5, <2>1, <2>2
<1>7. rows \in Seq(Keys) /\ DOMAIN rows = 1 .. n /\ Len(rows) = n
  <2>1. \A k \in 1 .. n : list[start + k].key \in Keys
    BY <1>6 DEF Proper
  <2>2. rows \in [1 .. n -> Keys]
    <3> HIDE DEF n, rows
    <3> QED
      BY <1>4, <2>1
  <2> HIDE DEF n, rows
  <2> QED
    BY <1>3, <2>2
<1>8. ASSUME next # None
      PROVE  /\ next = [id |-> list[start + Limit].id, key |-> list[start + Limit].key]
             /\ n = Limit /\ start + Limit < Len(list)
  BY <1>1, <1>8 DEF NextCursor
<1>9. ASSUME NEW e \in entries, Place(e, entries) > start
      PROVE  \/ \E k \in DOMAIN rows : rows[k] = e.key
             \/ /\ next # None
                /\ \E c \in entries : c.key = next.key /\ Before(c, e)
  <2> DEFINE k == Place(e, entries) - start
  <2>1. Place(e, entries) \in 1 .. Len(list) /\ list[Place(e, entries)] = e
    BY DEF SortedList
  <2>2. k \in 1 .. Len(list) /\ start + k = Place(e, entries)
    BY <1>9, <2>1
  <2>3. CASE k <= n
    <3>1. k \in 1 .. n
      BY <1>3, <2>2, <2>3
    <3>2. rows[k] = e.key
      <4> HIDE DEF k, rows, n
      <4> QED
        BY <1>6, <2>1, <2>2, <3>1
    <3> HIDE DEF rows, n, k
    <3> QED
      BY <1>7, <3>1, <3>2
  <2>4. CASE ~(k <= n)
    <3>1. Limit < k /\ start + Limit < Len(list) /\ start + Limit \in 1 .. Len(list)
      BY <1>1, <2>1, <2>2, <2>4
    <3>2. next = [id |-> list[start + Limit].id, key |-> list[start + Limit].key]
      BY <3>1 DEF NextCursor
    <3>3. list[start + Limit] \in entries
      BY <1>5, <3>1
    <3>4. next \in Cursor(Keys)
      BY <3>2, <3>3 DEF Proper, Cursor
    <3>5. start + Limit < Place(e, entries)
      BY <1>1, <2>1, <2>2, <3>1
    <3>6. Before(list[start + Limit], list[Place(e, entries)])
      BY <2>1, <3>1, <3>5 DEF SortedList
    <3>7. next.key = list[start + Limit].key
      BY <3>2
    <3> HIDE DEF next
    <3> QED
      BY <2>1, <3>3, <3>4, <3>6, <3>7, NullAssumption
  <2> QED
    BY <2>3, <2>4
<1>10. ASSUME next # None
       PROVE  \E c \in entries : /\ next = [id |-> c.id, key |-> c.key]
                                 /\ Len(rows) > 0 /\ rows[Len(rows)] = c.key
  <2>1. Limit \in 1 .. n
    BY <1>1, <1>8, <1>10
  <2>2. rows[Limit] = list[start + Limit].key /\ list[start + Limit] \in entries
    BY <1>6, <2>1
  <2>3. Len(rows) = Limit
    BY <1>7, <1>8, <1>10
  <2> HIDE DEF rows, next, n
  <2> QED
    BY <1>1, <1>8, <1>10, <2>2, <2>3
<1>11. \A k \in DOMAIN rows : \E e \in entries : e.key = rows[k] /\ Place(e, entries) = start + k
  <2> HIDE DEF rows, n
  <2> QED
    BY <1>6, <1>7
<1> QED
  BY <1>7, <1>9, <1>10, <1>11

-----------------------------------------------------------------------------
(***************************************************************************)
(* The lists.                                                              *)
(***************************************************************************)
\* The values of a function over a finite set, and their union.
LEMMA ValuesFinite ==
    ASSUME NEW S, IsFiniteSet(S), NEW f, DOMAIN f = S
    PROVE  IsFiniteSet({f[x] : x \in S})
<1> DEFINE T == {f[x] : x \in S}
           g == [x \in S |-> f[x]]
<1>1. g \in [S -> T] /\ \A y \in T : \E x \in S : g[x] = y
  OBVIOUS
<1> HIDE DEF g, T
<1>2. g \in Surjection(S, T)
  BY <1>1 DEF Surjection
<1>3. IsFiniteSet(T)
  BY <1>2, FS_Surjection
<1> QED
  BY <1>3 DEF T

LEMMA FamilyFinite ==
    ASSUME NEW S, IsFiniteSet(S), NEW f, DOMAIN f = S, \A x \in S : IsFiniteSet(f[x])
    PROVE  IsFiniteSet(UNION {f[x] : x \in S})
<1> DEFINE T == {f[x] : x \in S}
<1>1. IsFiniteSet(T)
  BY ValuesFinite
<1>2. \A U \in T : IsFiniteSet(U)
  OBVIOUS
<1> HIDE DEF T
<1>3. IsFiniteSet(UNION T)
  BY <1>1, <1>2, FS_UNION
<1> QED
  BY <1>3 DEF T

\* What is known of the points that are there.
PointsTyped ==
    /\ made \in 0 .. MaxPoints /\ PointIds \subseteq 1 .. made
    /\ \A p \in PointIds : points[p] \in Point

LEMMA PointIdsFinite ==
    ASSUME PointsTyped
    PROVE  MaxPoints \in Nat /\ made \in Nat /\ IsFiniteSet(PointIds)
<1>1. MaxPoints \in Nat
  BY FindingsAssumption DEF MaxPoints
<1>2. made \in Int /\ 1 \in Int
  BY <1>1 DEF PointsTyped
<1>3. IsFiniteSet(1 .. made)
  BY <1>2, FS_Interval
<1>4. PointIds \in SUBSET (1 .. made)
  BY DEF PointsTyped
<1>5. IsFiniteSet(PointIds)
  BY <1>3, <1>4, FS_Subset
<1>6. made \in Nat
  BY DEF PointsTyped
<1> QED
  BY <1>1, <1>5, <1>6

\* Ranks of the lists.
LEMMA RanksTyped ==
    /\ \A a \in Int : <<a>> \in [1 .. 1 -> Int] /\ <<a>>[1] = a
    /\ \A a, b \in Int : <<a, b>> \in [1 .. 2 -> Int] /\ <<a, b>>[2] = b
    /\ \A a, b, c \in Int : <<a, b, c>> \in [1 .. 3 -> Int]
<1>1. ASSUME NEW a \in Int PROVE <<a>> \in [1 .. 1 -> Int] /\ <<a>>[1] = a
  OBVIOUS
<1>2. ASSUME NEW a \in Int, NEW b \in Int
      PROVE  <<a, b>> \in [1 .. 2 -> Int] /\ <<a, b>>[2] = b
  OBVIOUS
<1>3. ASSUME NEW a \in Int, NEW b \in Int, NEW c \in Int
      PROVE  <<a, b, c>> \in [1 .. 3 -> Int]
  OBVIOUS
<1> QED
  BY <1>1, <1>2, <1>3

\* The entries of a list have ranks of one length, which tell them apart, and
\* so do their keys.
LEMMA ProperByRank ==
    ASSUME NEW entries, IsFiniteSet(entries), NEW n \in 1 .. 3, Ranked(entries, n),
           \A e, f \in entries : e.rank = f.rank => e = f, Keyed(entries),
           \A e \in entries : e.id \in Int \cup {None} /\ e.key \in Keys
    PROVE  Proper(entries)
  BY RanksOrdered, RanksTotal DEF Proper

LEMMA PointEntriesProper ==
    ASSUME PointsTyped, NEW conn
    PROVE  Proper(PointEntries(conn))
<1> DEFINE there == {q \in PointIds : conn \in {None, points[q].conn}}
           entry == [p \in there |-> Entry(p, p, <<-points[p].at, p>>)]
           entries == {entry[p] : p \in there}
<1>1. entries = PointEntries(conn)
  BY DEF PointEntries
<1>2. IsFiniteSet(entries)
  <2>1. IsFiniteSet(there)
    <3>1. there \in SUBSET PointIds
      OBVIOUS
    <3> QED
      BY <3>1, PointIdsFinite, FS_Subset
  <2>2. DOMAIN entry = there
    OBVIOUS
  <2> HIDE DEF there, entry
  <2> QED
    BY <2>1, <2>2, ValuesFinite
<1>3. \A p \in there : p \in Int /\ -points[p].at \in Int
  BY PointIdsFinite DEF PointsTyped, Point
<1>4. \A p \in there : /\ entry[p].key = p /\ entry[p].id = p
                       /\ entry[p].rank = <<-points[p].at, p>>
  BY DEF Entry
<1> HIDE DEF there, entry
<1>5. ASSUME NEW p \in there
      PROVE  entry[p].rank \in [1 .. 2 -> Int] /\ entry[p].rank[2] = p
  <2>1. p \in Int /\ -points[p].at \in Int /\ entry[p].rank = <<-points[p].at, p>>
    BY <1>3, <1>4
  <2> QED
    BY <2>1, RanksTyped
<1>6. Ranked(entries, 2)
  BY <1>5 DEF Ranked
<1>7. \A e, f \in entries : e.rank = f.rank => e = f
  BY <1>5
<1>8. Keyed(entries)
  BY <1>4 DEF Keyed
<1>9. \A e \in entries : e.id \in Int \cup {None} /\ e.key \in Keys
  BY <1>3, <1>4 DEF Keys, KeysOf
<1> HIDE DEF entries
<1> QED
  BY <1>1, <1>2, <1>6, <1>7, <1>8, <1>9, ProperByRank

LEMMA IssueEntriesProper ==
    ASSUME PointsTyped, NEW p \in PointIds, NEW q
    PROVE  /\ Proper(IssueEntries(p, q))
           /\ \A e \in IssueEntries(p, q) : e.key \in Int
<1> DEFINE held == points[p].manifest
           found == {j \in DOMAIN held : Matches(IssueOf[j][held[j]], q)}
           entry == [i \in found |-> Entry(i, i, <<-IssueOf[i][held[i]].updated, i>>)]
           entries == {entry[i] : i \in found}
<1>1. entries = IssueEntries(p, q)
  BY DEF IssueEntries
<1>2. held \in ToSet(Manifests)
  BY DEF PointsTyped, Point
<1>3. /\ IsFiniteSet(DOMAIN held) /\ DOMAIN held \subseteq Int
      /\ \A i \in DOMAIN held : IssueOf[i][held[i]].updated \in Int
  BY <1>2, FindingsAssumption
<1>4. IsFiniteSet(entries)
  <2>1. IsFiniteSet(found)
    <3>1. found \in SUBSET DOMAIN held
      OBVIOUS
    <3> QED
      BY <1>3, <3>1, FS_Subset
  <2>2. DOMAIN entry = found
    OBVIOUS
  <2> HIDE DEF found, entry
  <2> QED
    BY <2>1, <2>2, ValuesFinite
<1>5. \A i \in found : i \in Int /\ -IssueOf[i][held[i]].updated \in Int
  BY <1>3
<1>6. \A i \in found : /\ entry[i].key = i /\ entry[i].id = i
                       /\ entry[i].rank = <<-IssueOf[i][held[i]].updated, i>>
  BY DEF Entry
<1> HIDE DEF found, entry
<1>7. ASSUME NEW i \in found
      PROVE  entry[i].rank \in [1 .. 2 -> Int] /\ entry[i].rank[2] = i
  <2> DEFINE at == IssueOf[i][held[i]].updated
  <2>1. i \in Int /\ -at \in Int /\ entry[i].rank = <<-at, i>>
    BY <1>5, <1>6
  <2> HIDE DEF at
  <2> QED
    BY <2>1, RanksTyped
<1>8. Ranked(entries, 2)
  BY <1>7 DEF Ranked
<1>9. \A e, f \in entries : e.rank = f.rank => e = f
  BY <1>7
<1>10. Keyed(entries)
  BY <1>6 DEF Keyed
<1>11. \A e \in entries : e.id \in Int \cup {None} /\ e.key \in Keys /\ e.key \in Int
  BY <1>5, <1>6 DEF Keys, KeysOf
<1> HIDE DEF entries
<1> QED
  BY <1>1, <1>4, <1>8, <1>9, <1>10, <1>11, ProperByRank

LEMMA ObjectEntriesProper ==
    ASSUME PointsTyped, NEW p \in PointIds, NEW indicators
    PROVE  /\ Proper(ObjectEntries(p, indicators))
           /\ \A e \in ObjectEntries(p, indicators) : e.key \in Int
<1> DEFINE held == points[p].manifest
           before == IF points[p].prior \in PointIds
                     THEN points[points[p].prior].manifest ELSE <<>>
           diff == ChangeMap(held, before)
           found == {j \in DOMAIN diff : diff[j] \in indicators}
           entry == [i \in found |-> Entry(i, i, <<i>>)]
           entries == {entry[i] : i \in found}
<1>1. entries = ObjectEntries(p, indicators)
  BY DEF ObjectEntries
<1>2. /\ IsFiniteSet(DOMAIN held) /\ DOMAIN held \subseteq Int
  <2>1. held \in ToSet(Manifests)
    BY DEF PointsTyped, Point
  <2> QED
    BY <2>1, FindingsAssumption
<1>3. IsFiniteSet(DOMAIN before) /\ DOMAIN before \subseteq Int
  <2>1. CASE points[p].prior \in PointIds
    <3>1. before \in ToSet(Manifests)
      BY <2>1 DEF PointsTyped, Point
    <3> QED
      BY <3>1, FindingsAssumption
  <2>2. CASE points[p].prior \notin PointIds
    <3>1. DOMAIN before = {}
      BY <2>2
    <3> QED
      BY <3>1, FS_EmptySet
  <2> QED
    BY <2>1, <2>2
<1>4. DOMAIN diff = DOMAIN held \cup DOMAIN before
  BY DEF ChangeMap
<1>5. IsFiniteSet(DOMAIN diff) /\ DOMAIN diff \subseteq Int
  <2> HIDE DEF diff, held, before
  <2> QED
    BY <1>2, <1>3, <1>4, FS_Union
<1> HIDE DEF diff, held, before
<1>6. IsFiniteSet(entries)
  <2>1. IsFiniteSet(found)
    <3>1. found \in SUBSET DOMAIN diff
      OBVIOUS
    <3> QED
      BY <1>5, <3>1, FS_Subset
  <2>2. DOMAIN entry = found
    OBVIOUS
  <2> HIDE DEF found, entry
  <2> QED
    BY <2>1, <2>2, ValuesFinite
<1>7. \A i \in found : i \in Int
  BY <1>5
<1>8. \A i \in found : entry[i].key = i /\ entry[i].id = i /\ entry[i].rank = <<i>>
  BY DEF Entry
<1> HIDE DEF found, entry
<1>9. \A i \in found : entry[i].rank \in [1 .. 1 -> Int] /\ entry[i].rank[1] = i
  BY <1>7, <1>8, RanksTyped
<1>10. Ranked(entries, 1)
  BY <1>9 DEF Ranked
<1>11. \A e, f \in entries : e.rank = f.rank => e = f
  BY <1>9
<1>12. Keyed(entries)
  BY <1>8 DEF Keyed
<1>13. \A e \in entries : e.id \in Int \cup {None} /\ e.key \in Keys /\ e.key \in Int
  BY <1>7, <1>8 DEF Keys, KeysOf
<1> HIDE DEF entries
<1> QED
  BY <1>1, <1>6, <1>10, <1>11, <1>12, <1>13, ProperByRank

\* What the backup point p adds to the list of boards and sprints.
BoardsOf(p, q) ==
    {Entry(<<"board", p, b>>, b, <<Boards[p][b], b, p>>) :
        b \in IF q.states = {} /\ q.dates = None THEN DOMAIN Boards[p] ELSE {}}

SprintsOf(p, q) ==
    {Entry(<<"sprint", p, s>>, s, <<Sprints[p][s].name, s, MaxPoints + p>>) :
        s \in {t \in DOMAIN Sprints[p] : SprintMatches(Sprints[p][t], q)}}

LEMMA BoardEntriesAre ==
    ASSUME NEW q
    PROVE  BoardEntries(q) = UNION {BoardsOf(p, q) \cup SprintsOf(p, q) : p \in PointIds}
  BY DEF BoardEntries, BoardsOf, SprintsOf

\* An entry of the list and the record it is of.
LEMMA BoardEntryIs ==
    ASSUME PointsTyped, NEW q, NEW e \in BoardEntries(q)
    PROVE  /\ e.rank \in [1 .. 3 -> Int] /\ e.id \in Int
           /\ e.key \in {"board", "sprint"} \X Int \X Int
           /\ e.key = <<e.key[1], e.key[2], e.id>>
           /\ e.key[2] \in PointIds /\ e \in BoardsOf(e.key[2], q) \cup SprintsOf(e.key[2], q)
           /\ e.rank[2] = e.id
           /\ e.rank[3] = IF e.key[1] = "board" THEN e.key[2] ELSE MaxPoints + e.key[2]
           /\ e = Entry(e.key, e.id, e.rank)
           /\ e.rank[1] = IF e.key[1] = "board" THEN Boards[e.key[2]][e.id]
                                               ELSE Sprints[e.key[2]][e.id].name
<1>1. PICK p \in PointIds : e \in BoardsOf(p, q) \cup SprintsOf(p, q)
  BY BoardEntriesAre
<1>2. p \in Int /\ p \in 1 .. MaxPoints /\ MaxPoints \in Int
  BY PointIdsFinite DEF PointsTyped
<1>3. CASE e \in BoardsOf(p, q)
  <2>1. PICK b \in DOMAIN Boards[p] : e = Entry(<<"board", p, b>>, b, <<Boards[p][b], b, p>>)
    BY <1>3 DEF BoardsOf
  <2>2. b \in Int /\ Boards[p][b] \in Int
    BY <1>2, FindingsAssumption
  <2>3. e.key = <<"board", p, b>> /\ e.id = b /\ e.rank = <<Boards[p][b], b, p>>
    BY <2>1 DEF Entry
  <2> QED
    BY <1>1, <1>2, <2>1, <2>2, <2>3
<1>4. CASE e \in SprintsOf(p, q)
  <2>1. PICK s \in DOMAIN Sprints[p] :
            e = Entry(<<"sprint", p, s>>, s, <<Sprints[p][s].name, s, MaxPoints + p>>)
    BY <1>4 DEF SprintsOf
  <2>2. s \in Int /\ Sprints[p][s].name \in Int /\ MaxPoints + p \in Int
    BY <1>2, FindingsAssumption
  <2>3. /\ e.key = <<"sprint", p, s>> /\ e.id = s
        /\ e.rank = <<Sprints[p][s].name, s, MaxPoints + p>>
    BY <2>1 DEF Entry
  <2> QED
    BY <1>1, <1>2, <2>1, <2>2, <2>3
<1> QED
  BY <1>1, <1>3, <1>4

LEMMA BoardEntriesProper ==
    ASSUME PointsTyped, NEW q
    PROVE  Proper(BoardEntries(q))
<1> DEFINE part == [p \in PointIds |-> BoardsOf(p, q) \cup SprintsOf(p, q)]
           entries == BoardEntries(q)
<1>1. ASSUME NEW p \in PointIds PROVE IsFiniteSet(part[p])
  <2>1. p \in 1 .. MaxPoints
    BY PointIdsFinite DEF PointsTyped
  <2> DEFINE boards == IF q.states = {} /\ q.dates = None THEN DOMAIN Boards[p] ELSE {}
             sprints == {t \in DOMAIN Sprints[p] : SprintMatches(Sprints[p][t], q)}
             board == [b \in boards |-> Entry(<<"board", p, b>>, b, <<Boards[p][b], b, p>>)]
             sprint == [s \in sprints |->
                          Entry(<<"sprint", p, s>>, s, <<Sprints[p][s].name, s, MaxPoints + p>>)]
  <2>2. IsFiniteSet(boards)
    BY <2>1, FindingsAssumption, FS_EmptySet
  <2>3. IsFiniteSet(sprints)
    <3>1. sprints \in SUBSET DOMAIN Sprints[p]
      OBVIOUS
    <3> QED
      BY <2>1, <3>1, FindingsAssumption, FS_Subset
  <2>4. BoardsOf(p, q) = {board[b] : b \in boards}
    BY DEF BoardsOf
  <2>5. SprintsOf(p, q) = {sprint[s] : s \in sprints}
    BY DEF SprintsOf
  <2>6. IsFiniteSet(BoardsOf(p, q))
    <3>1. DOMAIN board = boards
      OBVIOUS
    <3> HIDE DEF board, boards
    <3> QED
      BY <2>2, <2>4, <3>1, ValuesFinite
  <2>7. IsFiniteSet(SprintsOf(p, q))
    <3>1. DOMAIN sprint = sprints
      OBVIOUS
    <3> HIDE DEF sprint, sprints
    <3> QED
      BY <2>3, <2>5, <3>1, ValuesFinite
  <2> QED
    BY <2>6, <2>7, FS_Union
<1>2. entries = UNION {part[p] : p \in PointIds}
  BY BoardEntriesAre
<1>3. IsFiniteSet(entries)
  <2>1. DOMAIN part = PointIds
    OBVIOUS
  <2> HIDE DEF part, entries
  <2> QED
    BY <1>1, <1>2, <2>1, PointIdsFinite, FamilyFinite
<1>4. Ranked(entries, 3)
  BY BoardEntryIs DEF Ranked
<1>5. ASSUME NEW e \in entries, NEW f \in entries, e.rank = f.rank PROVE e = f
  <2>1. e.id = f.id
    BY <1>5, BoardEntryIs
  <2>2. /\ e.key[1] \in {"board", "sprint"} /\ f.key[1] \in {"board", "sprint"}
        /\ e.key[2] \in 1 .. MaxPoints /\ f.key[2] \in 1 .. MaxPoints
    BY BoardEntryIs, PointIdsFinite DEF PointsTyped
  <2>3. /\ e.rank[3] = IF e.key[1] = "board" THEN e.key[2] ELSE MaxPoints + e.key[2]
        /\ f.rank[3] = IF f.key[1] = "board" THEN f.key[2] ELSE MaxPoints + f.key[2]
    BY BoardEntryIs
  <2>4. e.key[1] = f.key[1] /\ e.key[2] = f.key[2]
    BY <1>5, <2>2, <2>3, PointIdsFinite
  <2>5. e.key = f.key
    BY <2>1, <2>4, BoardEntryIs
  <2> QED
    BY <1>5, <2>1, <2>5, BoardEntryIs
<1>6. ASSUME NEW e \in entries, NEW f \in entries, e.key = f.key PROVE e = f
  <2>1. e.key = <<e.key[1], e.key[2], e.id>> /\ f.key = <<f.key[1], f.key[2], f.id>>
    BY BoardEntryIs
  <2>2. e.id = f.id
    BY <1>6, <2>1
  <2>3. e.rank[1] = f.rank[1] /\ e.rank[2] = f.rank[2] /\ e.rank[3] = f.rank[3]
    BY <1>6, <2>2, BoardEntryIs
  <2>4. e.rank = f.rank
    <3>1. e.rank \in [1 .. 3 -> Int] /\ f.rank \in [1 .. 3 -> Int]
      BY BoardEntryIs
    <3>2. \A k \in 1 .. 3 : k = 1 \/ k = 2 \/ k = 3
      OBVIOUS
    <3> QED
      BY <2>3, <3>1, <3>2
  <2> QED
    BY <1>5, <2>4
<1>7. \A e \in entries : e.id \in Int \cup {None} /\ e.key \in Keys
  BY BoardEntryIs DEF Keys, KeysOf
<1>8. Keyed(entries)
  BY <1>6 DEF Keyed
<1>9. 3 \in 1 .. 3 /\ \A e, f \in entries : e.rank = f.rank => e = f
  BY <1>5
<1> HIDE DEF entries
<1>10. Proper(entries)
  BY <1>3, <1>4, <1>7, <1>8, <1>9, ProperByRank
<1> QED
  BY <1>10 DEF entries

\* The fields there are on all sites.
EveryField == UNION {{Entry(<<c, f>>, None, <<f>>) : f \in Fields[c]} : c \in Conns}

LEMMA FieldEntryIs ==
    ASSUME NEW e \in EveryField
    PROVE  /\ e.key \in Conns \X Int /\ e.key[2] \in Fields[e.key[1]]
           /\ e.id = None /\ e.rank = <<e.key[2]>> /\ e = Entry(e.key, None, <<e.key[2]>>)
           /\ e.rank \in [1 .. 1 -> Int]
<1>1. PICK c \in Conns : \E f \in Fields[c] : e = Entry(<<c, f>>, None, <<f>>)
  BY DEF EveryField
<1>4. PICK f \in Fields[c] : e = Entry(<<c, f>>, None, <<f>>)
  BY <1>1
<1>2. f \in Int
  BY FindingsAssumption
<1>3. e.key = <<c, f>> /\ e.id = None /\ e.rank = <<f>>
  BY <1>4 DEF Entry
<1> QED
  BY <1>2, <1>3, <1>4

LEMMA EveryFieldProper ==
    /\ IsFiniteSet(EveryField) /\ Ordered(EveryField) /\ Keyed(EveryField)
    /\ Ranked(EveryField, 1)
    /\ \A e \in EveryField : e.id \in Int \cup {None} /\ e.key \in Keys
<1> DEFINE part == [c \in Conns |-> {Entry(<<c, f>>, None, <<f>>) : f \in Fields[c]}]
<1>1. ASSUME NEW c \in Conns PROVE IsFiniteSet(part[c])
  <2> DEFINE entry == [f \in Fields[c] |-> Entry(<<c, f>>, None, <<f>>)]
  <2>1. part[c] = {entry[f] : f \in Fields[c]}
    OBVIOUS
  <2>2. DOMAIN entry = Fields[c] /\ IsFiniteSet(Fields[c])
    BY FindingsAssumption
  <2> HIDE DEF entry, part
  <2> QED
    BY <2>1, <2>2, ValuesFinite
<1>2. EveryField = UNION {part[c] : c \in Conns}
  BY DEF EveryField
<1>3. IsFiniteSet(EveryField)
  <2>1. DOMAIN part = Conns /\ IsFiniteSet(Conns)
    BY FindingsAssumption
  <2> HIDE DEF part
  <2> QED
    BY <1>1, <1>2, <2>1, FamilyFinite
<1>4. Ranked(EveryField, 1)
  BY FieldEntryIs DEF Ranked
<1>5. Ordered(EveryField)
  <2>1. 1 \in 1 .. 3
    OBVIOUS
  <2> QED
    BY <1>4, <2>1, RanksOrdered
<1>6. Keyed(EveryField)
  BY FieldEntryIs DEF Keyed
<1>7. \A e \in EveryField : e.id \in Int \cup {None} /\ e.key \in Keys
  BY FieldEntryIs DEF Keys, KeysOf
<1> QED
  BY <1>3, <1>4, <1>5, <1>6, <1>7

\* Those that are found are among them, and comparable unless the comparator throws.
LEMMA FieldEntriesProper ==
    ASSUME NEW arg
    PROVE  /\ FieldEntries(arg.of) \subseteq EveryField
           /\ ~Incomparable("global", arg) => Proper(FieldEntries(arg.of))
<1>1. FieldEntries(arg.of) \subseteq EveryField
  <2> SUFFICES ASSUME NEW e \in FieldEntries(arg.of) PROVE e \in EveryField
    OBVIOUS
  <2>1. PICK c \in Conns : e \in {Entry(<<c, f>>, None, <<f>>) : f \in Fields[c]}
    BY DEF FieldEntries
  <2> QED
    BY <2>1 DEF EveryField
<1>2. ASSUME ~Incomparable("global", arg) PROVE Proper(FieldEntries(arg.of))
  <2> DEFINE entries == FieldEntries(arg.of)
  <2>1. IsFiniteSet(entries)
    <3>1. entries \in SUBSET EveryField
      BY <1>1
    <3> QED
      BY <3>1, EveryFieldProper, FS_Subset
  <2>2. \A e, f \in entries : e.rank = f.rank => e = f
    BY <1>2 DEF Incomparable
  <2>3. /\ Ranked(entries, 1) /\ Keyed(entries)
        /\ \A e \in entries : e.id \in Int \cup {None} /\ e.key \in Keys
    BY <1>1, EveryFieldProper DEF Ranked, Keyed
  <2>4. 1 \in 1 .. 3
    OBVIOUS
  <2> HIDE DEF entries
  <2> QED
    BY <2>1, <2>2, <2>3, <2>4, ProperByRank DEF entries
<1> QED
  BY <1>1, <1>2

\* What the arguments of a request are about.
Asked(list, arg) ==
    /\ list \in Lists
    /\ list \in {"issues", "objects"} => arg.of \in 1 .. made
    /\ list = "issues" => arg.query \in Queries

\* All lists that can be sorted can be paged through.
LEMMA EntriesProper ==
    ASSUME PointsTyped, NEW list, NEW arg, Asked(list, arg), ~NotFound(list, arg),
           ~Incomparable(list, arg)
    PROVE  Proper(EntriesOf(list, arg))
<1>1. list \in {"points", "issues", "objects", "boards", "global"}
  BY PagingAssumption DEF Asked
<1>2. CASE list = "points"
  BY <1>2, PointEntriesProper DEF EntriesOf
<1>3. CASE list = "issues"
  BY <1>3, IssueEntriesProper DEF EntriesOf, NotFound
<1>4. CASE list = "objects"
  BY <1>4, ObjectEntriesProper DEF EntriesOf, NotFound
<1>5. CASE list = "boards"
  BY <1>5, BoardEntriesProper DEF EntriesOf
<1>6. CASE list = "global"
  BY <1>6, FieldEntriesProper DEF EntriesOf
<1> QED
  BY <1>1, <1>2, <1>3, <1>4, <1>5, <1>6

-----------------------------------------------------------------------------
(***************************************************************************)
(* What a request gets.                                                    *)
(***************************************************************************)
\* A key of an entry of the list that there is now, or once was.
Past(list, key) ==
    /\ key \in KeysOf(list)
    /\ list = "points" => key \in 1 .. made
    /\ list = "boards" => key[2] \in 1 .. made

\* The id of an entry, by its key.
IdOf(list, key) ==
    IF list = "boards" THEN key[3] ELSE IF list = "global" THEN None ELSE key

LEMMA EntryIs ==
    ASSUME PointsTyped, NEW list, NEW arg, Asked(list, arg), ~NotFound(list, arg),
           NEW e \in EntriesOf(list, arg)
    PROVE  Past(list, e.key) /\ e.id = IdOf(list, e.key)
<1>1. list \in {"points", "issues", "objects", "boards", "global"}
  BY PagingAssumption DEF Asked
<1>2. CASE list = "points"
  <2>1. PICK p \in PointIds : e = Entry(p, p, <<-points[p].at, p>>)
    BY <1>2 DEF EntriesOf, PointEntries
  <2>2. e.key = p /\ e.id = p
    BY <2>1 DEF Entry
  <2>3. p \in 1 .. made /\ p \in Int
    BY PointIdsFinite DEF PointsTyped
  <2> QED
    BY <1>2, <2>2, <2>3 DEF Past, IdOf, KeysOf
<1>3. CASE list = "issues"
  <2>1. e.id = e.key
    BY <1>3 DEF EntriesOf, IssueEntries, Entry
  <2>2. e.key \in Int
    BY <1>3, IssueEntriesProper DEF EntriesOf, NotFound
  <2> QED
    BY <1>3, <2>1, <2>2 DEF Past, IdOf, KeysOf
<1>4. CASE list = "objects"
  <2>1. e.id = e.key
    BY <1>4 DEF EntriesOf, ObjectEntries, Entry
  <2>2. e.key \in Int
    BY <1>4, ObjectEntriesProper DEF EntriesOf, NotFound
  <2> QED
    BY <1>4, <2>1, <2>2 DEF Past, IdOf, KeysOf
<1>5. CASE list = "boards"
  <2>1. e \in BoardEntries(arg.query)
    BY <1>5 DEF EntriesOf
  <2>2. /\ e.key[2] \in PointIds /\ e.key = <<e.key[1], e.key[2], e.id>>
        /\ e.key \in {"board", "sprint"} \X Int \X Int
    BY <2>1, BoardEntryIs
  <2>3. e.key[3] = e.id
    BY <2>2
  <2> QED
    BY <1>5, <2>2, <2>3 DEF Past, IdOf, PointsTyped, KeysOf
<1>6. CASE list = "global"
  <2>1. e \in EveryField
    BY <1>6, FieldEntriesProper DEF EntriesOf
  <2> QED
    BY <1>6, <2>1, FieldEntryIs DEF Past, IdOf, KeysOf
<1> QED
  BY <1>1, <1>2, <1>3, <1>4, <1>5, <1>6

\* A page of the entries behind the first "start" ones, asked for with a cursor.
ServedFrom(start, entries, cursor, reply) ==
    /\ reply \in Rows(Keys)
    /\ \A k \in DOMAIN reply.rows :
          \E e \in entries : e.key = reply.rows[k] /\ Place(e, entries) = start + k
    /\ \A e \in entries : Place(e, entries) > start =>
          \/ \E k \in DOMAIN reply.rows : reply.rows[k] = e.key
          \/ /\ reply.next # None
             /\ \E c \in entries : c.key = reply.next.key /\ Before(c, e)
    /\ reply.next # None =>
          \E c \in entries : /\ reply.next = [id |-> c.id, key |-> c.key]
                             /\ Len(reply.rows) > 0
                             /\ reply.rows[Len(reply.rows)] = c.key
    /\ cursor = None => /\ start = 0 /\ reply.wanted = {e.key : e \in entries}
                        /\ ~reply.lost /\ ~reply.ambiguous
    /\ cursor # None =>
          /\ reply.wanted = {}
          /\ ~reply.lost => \E e \in entries : e.key = cursor.key
          /\ ~reply.ambiguous => \A e \in entries : e.id = cursor.id => e.key = cursor.key
          /\ \/ start = 0 /\ \A e \in entries : e.id # cursor.id
             \/ /\ \E e \in entries : e.id = cursor.id /\ Place(e, entries) = start
                /\ \A e \in entries : e.id = cursor.id => start <= Place(e, entries)

LEMMA ReplyIs ==
    ASSUME PointsTyped, NEW list, NEW arg, Asked(list, arg), ~NotFound(list, arg),
           ~Incomparable(list, arg), NEW cursor \in Cursor(Keys) \cup {None}
    PROVE  \E start \in Nat :
              ServedFrom(start, EntriesOf(list, arg), cursor, Reply(list, arg, cursor))
<1> DEFINE entries == EntriesOf(list, arg)
           sorted == Sorted(entries)
           start == Start(sorted, cursor)
           reply == Reply(list, arg, cursor)
<1>1. Proper(entries)
  BY EntriesProper
<1>2. SortedList(sorted, entries)
  <2> HIDE DEF entries
  <2> QED
    BY <1>1, SortedIs DEF Proper
<1>3. Len(sorted) \in Nat
  BY <1>2 DEF SortedList
<1>4. reply = [rows |-> PageRows(sorted, start), next |-> NextCursor(sorted, start),
               wanted |-> IF cursor = None THEN {e.key : e \in entries} ELSE {},
               lost |-> /\ cursor # None
                        /\ \A e \in entries : e.key # cursor.key,
               ambiguous |-> /\ cursor # None
                             /\ \E e \in entries : /\ e.id = cursor.id
                                                   /\ e.key # cursor.key]
  BY DEF Reply
<1> HIDE DEF entries, sorted
<1>5. /\ start \in 0 .. Len(sorted)
      /\ cursor = None => start = 0
      /\ cursor # None =>
            \/ start = 0 /\ \A e \in entries : e.id # cursor.id
            \/ /\ start \in 1 .. Len(sorted) /\ sorted[start].id = cursor.id
               /\ \A e \in entries : e.id = cursor.id => start <= Place(e, entries)
  BY <1>2, <1>3, StartIs
<1> HIDE DEF start
<1> DEFINE rows == PageRows(sorted, start)
           next == NextCursor(sorted, start)
<1>6. /\ rows \in Seq(Keys)
      /\ \A k \in DOMAIN rows :
            \E e \in entries : e.key = rows[k] /\ Place(e, entries) = start + k
      /\ \A e \in entries : Place(e, entries) > start =>
            \/ \E k \in DOMAIN rows : rows[k] = e.key
            \/ next # None /\ \E c \in entries : c.key = next.key /\ Before(c, e)
      /\ next # None =>
            \E c \in entries : /\ next = [id |-> c.id, key |-> c.key]
                               /\ Len(rows) > 0 /\ rows[Len(rows)] = c.key
  BY <1>1, <1>2, <1>3, <1>5, PageIs
<1> HIDE DEF rows, next
<1>7. /\ reply.rows = rows /\ reply.next = next
      /\ reply.wanted = IF cursor = None THEN {e.key : e \in entries} ELSE {}
      /\ reply.lost = (cursor # None /\ \A e \in entries : e.key # cursor.key)
      /\ reply.ambiguous = (cursor # None
                            /\ \E e \in entries : e.id = cursor.id /\ e.key # cursor.key)
  <2> HIDE DEF reply
  <2>1. reply.rows = rows /\ reply.next = next
    BY <1>4 DEF rows, next
  <2>2. reply.wanted = IF cursor = None THEN {e.key : e \in entries} ELSE {}
    BY <1>4
  <2>3. reply.lost = (cursor # None /\ \A e \in entries : e.key # cursor.key)
    BY <1>4
  <2>4. reply.ambiguous = (cursor # None
                           /\ \E e \in entries : e.id = cursor.id /\ e.key # cursor.key)
    BY <1>4
  <2> QED
    BY <2>1, <2>2, <2>3, <2>4
<1>8. next \in Cursor(Keys) \cup {None} /\ {e.key : e \in entries} \in SUBSET Keys
  BY <1>1, <1>6 DEF Cursor, Proper
<1>9. reply \in Rows(Keys)
  <2>1. reply = [rows |-> reply.rows, next |-> reply.next, wanted |-> reply.wanted,
                 lost |-> reply.lost, ambiguous |-> reply.ambiguous]
    BY <1>4
  <2>2. reply.lost \in BOOLEAN /\ reply.ambiguous \in BOOLEAN
    BY <1>7
  <2>3. reply.rows \in Seq(Keys) /\ reply.next \in Cursor(Keys) \cup {None}
        /\ reply.wanted \in SUBSET Keys
    BY <1>6, <1>7, <1>8
  <2> HIDE DEF reply
  <2> QED
    BY <2>1, <2>2, <2>3 DEF Rows
<1> HIDE DEF reply
<1>10. ASSUME start \in 1 .. Len(sorted), sorted[start].id = cursor.id
       PROVE  \E e \in entries : e.id = cursor.id /\ Place(e, entries) = start
  BY <1>2, <1>10 DEF SortedList
<1>11. start \in Nat
  BY <1>3, <1>5
<1>12. ASSUME cursor # None
       PROVE  /\ reply.wanted = {}
              /\ ~reply.lost => \E e \in entries : e.key = cursor.key
              /\ ~reply.ambiguous => \A e \in entries : e.id = cursor.id => e.key = cursor.key
              /\ \/ start = 0 /\ \A e \in entries : e.id # cursor.id
                 \/ /\ \E e \in entries : e.id = cursor.id /\ Place(e, entries) = start
                    /\ \A e \in entries : e.id = cursor.id => start <= Place(e, entries)
  BY <1>5, <1>7, <1>10, <1>12
<1>13. ASSUME cursor = None
       PROVE  /\ start = 0 /\ reply.wanted = {e.key : e \in entries}
              /\ ~reply.lost /\ ~reply.ambiguous
  BY <1>5, <1>7, <1>13
<1>14. ServedFrom(start, entries, cursor, reply)
  BY <1>6, <1>7, <1>9, <1>12, <1>13 DEF ServedFrom
<1> QED
  BY <1>11, <1>14 DEF entries, reply

-----------------------------------------------------------------------------
(***************************************************************************)
(* The points.                                                             *)
(***************************************************************************)
\* The point that a point builds on is there as long as it is itself, also
\* after a restart.
PriorsKept ==
    /\ \A p \in PointIds : points[p].prior # None => points[p].prior \in PointIds
    /\ \A p \in saved : points[p].prior # None => points[p].prior \in saved

PointsInv ==
    /\ now \in Int /\ made \in 0 .. MaxPoints
    /\ PointIds \subseteq 1 .. made /\ saved \subseteq PointIds
    /\ \A p \in PointIds : points[p] \in Point
    /\ PriorPointChain /\ PriorsKept

\* A new point is added to those that are there, and built on the newest of its
\* integration.
LEMMA NewPoint ==
    ASSUME PointsInv, NEW conn \in Conns, WritePoint(conn)
    PROVE  /\ made' = made + 1 /\ made' \in 1 .. MaxPoints
           /\ PointIds' = PointIds \cup {made'} /\ made' \notin PointIds
           /\ \A p \in PointIds : points'[p] = points[p]
           /\ points'[made'] \in Point /\ points'[made'].conn = conn
           /\ points'[made'].prior # None =>
                 /\ points'[made'].prior \in PointIds
                 /\ points[points'[made'].prior].conn = conn
           /\ \A q \in PointIds : points[q].conn = conn =>
                 /\ points'[made'].prior # None
                 /\ points[q].at <= points[points'[made'].prior].at
<1> DEFINE entries == PointEntries(conn)
           older == Sorted(entries)
           point == [conn |-> conn, at |-> now', manifest |-> Manifests[made'],
                     prior |-> IF Len(older) = 0 THEN None ELSE older[1].id]
<1>1. PointsTyped /\ MaxPoints \in Nat /\ made \in Nat
  <2>1. PointsTyped
    BY DEF PointsInv, PointsTyped
  <2> QED
    BY <2>1, PointIdsFinite
<1>2. made' = made + 1 /\ made' \in 1 .. MaxPoints /\ made' \notin PointIds
  BY <1>1 DEF WritePoint, PointsInv
<1>3. points' = With(points, made', point)
  BY DEF WritePoint
<1>4. SortedList(older, entries)
  <2>1. Proper(entries)
    BY <1>1, PointEntriesProper
  <2> HIDE DEF entries
  <2> QED
    BY <2>1, SortedIs DEF Proper
<1>5. point.prior # None =>
         point.prior \in PointIds /\ points[point.prior].conn = conn
  <2> HIDE DEF older, entries
  <2>1. SUFFICES ASSUME Len(older) # 0
                 PROVE  older[1].id \in PointIds /\ points[older[1].id].conn = conn
    OBVIOUS
  <2>2. older[1] \in entries
    <3>1. Len(older) \in Nat
      BY <1>4 DEF SortedList
    <3> QED
      BY <1>4, <2>1, <3>1 DEF SortedList
  <2>3. PICK p \in {q \in PointIds : conn \in {None, points[q].conn}} :
            older[1] = Entry(p, p, <<-points[p].at, p>>)
    BY <2>2 DEF entries, PointEntries
  <2> QED
    BY <2>3, PagingAssumption DEF Entry
<1>11. ASSUME NEW q \in PointIds, points[q].conn = conn
       PROVE  point.prior # None /\ points[q].at <= points[point.prior].at
  <2> DEFINE e == Entry(q, q, <<-points[q].at, q>>)
             l == Place(e, entries)
  <2>1. e \in entries
    BY <1>11 DEF PointEntries
  <2> HIDE DEF e, older, entries
  <2>2. /\ l \in 1 .. Len(older) /\ older[l] = e /\ Len(older) \in Nat
        /\ older[1] \in entries
        /\ \A k \in 1 .. Len(older) : Before(older[1], older[k]) <=> 1 < k
    <3>1. l \in 1 .. Len(older) /\ older[l] = e /\ Len(older) \in Nat
      BY <1>4, <2>1 DEF SortedList
    <3>2. 1 \in 1 .. Len(older)
      BY <3>1
    <3> QED
      BY <1>4, <3>1, <3>2 DEF SortedList
  <2>3. PICK p \in {n \in PointIds : conn \in {None, points[n].conn}} :
            older[1] = Entry(p, p, <<-points[p].at, p>>)
    BY <2>2 DEF entries, PointEntries
  <2>4. point.prior = p
    BY <2>2, <2>3 DEF Entry
  <2>5. p # None
    BY <1>1, NullAssumption DEF PointsTyped
  <2>6. points[q].at \in Int /\ points[p].at \in Int
    BY <1>1 DEF PointsTyped, Point
  <2>7. /\ older[1].rank = <<-points[p].at, p>>
        /\ older[l].rank = <<-points[q].at, q>>
    BY <2>2, <2>3 DEF Entry, e
  <2>8. CASE l = 1
    BY <2>6, <2>7, <2>8, <2>4, <2>5
  <2>9. CASE l # 1
    <3>1. Before(older[1], older[l])
      BY <2>2, <2>9
    <3>2. -points[p].at <= -points[q].at
      <4> DEFINE a == -points[p].at
                 b == -points[q].at
      <4>1. a \in Int /\ b \in Int
        BY <2>6
      <4>2. older[1].rank = <<a, p>> /\ older[l].rank = <<b, q>>
        BY <2>7
      <4> HIDE DEF a, b
      <4>3. a < b \/ a = b
        BY <3>1, <4>2 DEF Before
      <4> QED
        BY <4>1, <4>3 DEF a, b
    <3> QED
      BY <2>4, <2>5, <2>6, <3>2
  <2> QED
    BY <2>8, <2>9
<1>6. point \in Point
  <2>1. now' \in Int
    BY DEF WritePoint, ReadClock, PointsInv
  <2>2. Manifests[made'] \in ToSet(Manifests)
    <3>1. DOMAIN Manifests = 1 .. MaxPoints
      BY FindingsAssumption DEF MaxPoints
    <3> QED
      BY <1>2, <3>1 DEF ToSet
  <2>3. point.prior \in (1 .. MaxPoints) \cup {None}
    <3>1. \A p \in PointIds : p \in 1 .. MaxPoints
      BY <1>1 DEF PointsTyped
    <3> HIDE DEF point
    <3> QED
      BY <1>5, <3>1
  <2>4. /\ point.conn = conn /\ point.at = now' /\ point.manifest = Manifests[made']
        /\ point = [conn |-> point.conn, at |-> point.at, manifest |-> point.manifest,
                    prior |-> point.prior]
    OBVIOUS
  <2> HIDE DEF point
  <2> QED
    BY <2>1, <2>2, <2>3, <2>4 DEF Point
<1>7. point.conn = conn
  OBVIOUS
<1> HIDE DEF point
<1>8. PointIds' = PointIds \cup {made'}
  BY <1>3 DEF PointIds, With
<1>9. points'[made'] = point
  BY <1>2, <1>3 DEF PointIds, With
<1>10. \A p \in PointIds : points'[p] = points[p]
  BY <1>2, <1>3 DEF PointIds, With
<1> QED
  BY <1>2, <1>5, <1>6, <1>7, <1>8, <1>9, <1>10, <1>11

LEMMA PointsInit == Init => PointsInv
<1> SUFFICES ASSUME Init PROVE PointsInv
  OBVIOUS
<1>1. MaxPoints \in Nat
  BY FindingsAssumption DEF MaxPoints
<1>2. PointIds = {}
  BY DEF Init, PointIds
<1> QED
  BY <1>1, <1>2 DEF Init, PointsInv, PriorsKept, PriorPointChain

\* Every step keeps it.
LEMMA PointsNext == PointsInv /\ [Next]_vars => PointsInv'
<1> SUFFICES ASSUME PointsInv, [Next]_vars PROVE PointsInv'
  OBVIOUS
<1>1. CASE UNCHANGED <<now, points, made, saved>>
  BY <1>1 DEF PointsInv, PriorsKept, PriorPointChain, PointIds
<1>2. ASSUME NEW conn \in Conns, WritePoint(conn) PROVE PointsInv'
  <2>1. /\ made' = made + 1 /\ made' \in 1 .. MaxPoints
        /\ PointIds' = PointIds \cup {made'} /\ made' \notin PointIds
        /\ \A p \in PointIds : points'[p] = points[p]
        /\ points'[made'] \in Point /\ points'[made'].conn = conn
        /\ points'[made'].prior # None =>
              /\ points'[made'].prior \in PointIds
              /\ points[points'[made'].prior].conn = conn
        /\ \A q \in PointIds : points[q].conn = conn =>
              /\ points'[made'].prior # None
              /\ points[q].at <= points[points'[made'].prior].at
    BY <1>2, NewPoint
  <2>2. MaxPoints \in Nat /\ made \in Nat /\ \A p \in PointIds : p \in Nat /\ p <= made
    BY PointIdsFinite DEF PointsInv, PointsTyped
  <2>3. saved' \in {saved, PointIds'} /\ now' \in Int
    BY <1>2 DEF WritePoint, ReadClock, PointIds, PointsInv
  <2>4. PointIds' \subseteq 1 .. made' /\ saved' \subseteq PointIds'
    BY <2>1, <2>2, <2>3 DEF PointsInv
  <2>5. \A p \in PointIds' : points'[p] \in Point
    BY <2>1 DEF PointsInv
  <2>6. ASSUME NEW p \in PointIds'
        PROVE  LET k == points'[p].prior
               IN  /\ k # None => /\ k \in PointIds /\ k < p
                                  /\ points'[k].conn = points'[p].conn
                   /\ \A q \in PointIds' :
                         points'[q].conn = points'[p].conn /\ q < p /\ (k = None \/ k < q)
                            => k # None /\ points'[q].at <= points'[k].at
    <3> DEFINE k == points'[p].prior
    <3>1. CASE p \in PointIds
      <4>1. points'[p] = points[p]
        BY <2>1, <3>1
      <4>2. \A q \in PointIds' : q < p => q \in PointIds /\ points'[q] = points[q]
        BY <2>1, <2>2, <3>1
      <4>3. /\ k # None => /\ k \in PointIds /\ k < p
                           /\ points[k].conn = points[p].conn
            /\ \A q \in PointIds :
                  points[q].conn = points[p].conn /\ q < p /\ (k = None \/ k < q)
                     => k # None /\ points[q].at <= points[k].at
        BY <3>1, <4>1 DEF PointsInv, PriorPointChain
      <4> HIDE DEF k
      <4>4. k # None => points'[k] = points[k]
        BY <2>1, <4>3
      <4>5. ASSUME NEW q \in PointIds', points'[q].conn = points'[p].conn, q < p,
                   k = None \/ k < q
            PROVE  k # None /\ points'[q].at <= points'[k].at
        BY <4>1, <4>2, <4>3, <4>4, <4>5
      <4> QED
        BY <4>1, <4>3, <4>4, <4>5 DEF k
    <3>2. CASE p = made'
      <4>1. points'[p].conn = conn
        BY <2>1, <3>2
      <4>2. k # None => k \in PointIds /\ points[k].conn = conn
        BY <2>1, <3>2
      <4>3. \A q \in PointIds : points[q].conn = conn =>
                  k # None /\ points[q].at <= points[k].at
        BY <2>1, <3>2
      <4> HIDE DEF k
      <4>4. k # None => points'[k] = points[k] /\ k < p
        <5>1. k # None => points'[k] = points[k] /\ k \in Nat /\ k <= made
          BY <2>1, <2>2, <4>2
        <5>2. p = made + 1
          BY <2>1, <3>2
        <5> QED
          BY <2>2, <5>1, <5>2
      <4>5. \A q \in PointIds' : q < p => q \in PointIds /\ points'[q] = points[q]
        BY <2>1, <2>2, <3>2
      <4>6. ASSUME NEW q \in PointIds', points'[q].conn = points'[p].conn, q < p
            PROVE  k # None /\ points'[q].at <= points'[k].at
        BY <4>1, <4>3, <4>4, <4>5, <4>6
      <4> QED
        BY <4>1, <4>2, <4>4, <4>6 DEF k
    <3> QED
      BY <2>1, <3>1, <3>2
  <2>7. PriorPointChain'
    BY <2>1, <2>6 DEF PriorPointChain
  <2>8. \A p \in PointIds' : points'[p].prior # None => points'[p].prior \in PointIds'
    BY <2>1, <2>6
  <2>9. ASSUME NEW p \in saved', points'[p].prior # None
        PROVE  points'[p].prior \in saved'
    <3>1. CASE saved' = saved
      <4>1. p \in saved /\ points'[p] = points[p]
        BY <2>1, <2>9, <3>1 DEF PointsInv
      <4> QED
        BY <2>9, <3>1, <4>1 DEF PointsInv, PriorsKept
    <3>2. CASE saved' = PointIds'
      BY <2>8, <2>9, <3>2
    <3> QED
      BY <2>3, <3>1, <3>2
  <2> QED
    BY <2>1, <2>3, <2>4, <2>5, <2>7, <2>8, <2>9 DEF PointsInv, PriorsKept
<1>3. CASE Autosave
  BY <1>3 DEF Autosave, PointsInv, PriorsKept, PriorPointChain, PointIds
<1>4. CASE CrashAndRestart
  <2>1. /\ points' = [p \in saved |-> points[p]] /\ saved' = saved
        /\ now' = now /\ made' = made
    BY <1>4 DEF CrashAndRestart
  <2>2. PointIds' = saved /\ saved \subseteq PointIds
    BY <2>1 DEF PointIds, PointsInv
  <2>3. \A p \in saved : points'[p] = points[p]
    BY <2>1
  <2>4. \A p \in saved : points'[p] \in Point
    BY <2>2, <2>3 DEF PointsInv
  <2>5. \A p \in saved : points'[p].prior # None => points'[p].prior \in saved
    BY <2>3 DEF PointsInv, PriorsKept
  <2>6. now' \in Int /\ made' \in 0 .. MaxPoints /\ PointIds' \subseteq 1 .. made'
    BY <2>1, <2>2 DEF PointsInv
  <2>7. PriorPointChain'
    <3>1. \A p \in saved : p \in PointIds /\ points'[p] = points[p]
      BY <2>2, <2>3
    <3>2. \A p \in saved : points[p].prior # None => points[p].prior \in saved
      BY DEF PointsInv, PriorsKept
    <3>3. PriorPointChain
      BY DEF PointsInv
    <3> QED
      BY <2>2, <3>1, <3>2, <3>3 DEF PriorPointChain
  <2> QED
    BY <2>1, <2>2, <2>4, <2>5, <2>6, <2>7 DEF PointsInv, PriorsKept
<1> QED
  BY <1>1, <1>2, <1>3, <1>4
  DEF Next, vars, Load, LoadMore, Serve, Deliver, Fail

-----------------------------------------------------------------------------
(***************************************************************************)
(* The reader and its requests.                                            *)
(***************************************************************************)
\* A cursor names an entry that once was, by its id.
PastCursor(list, cursor) ==
    Past(list, cursor.key) /\ cursor.id = IdOf(list, cursor.key)

PastReply(list, reply) ==
    reply \in Rows(Keys) =>
        /\ \A k \in DOMAIN reply.rows : Past(list, reply.rows[k])
        /\ reply.next # None => PastCursor(list, reply.next)
        /\ \A key \in reply.wanted : Past(list, key)

PastReader ==
    /\ \A k \in DOMAIN reader.rows : Past(reader.list, reader.rows[k])
    /\ reader.next # None => PastCursor(reader.list, reader.next)
    /\ \A key \in reader.first : Past(reader.list, key)

IsRequest(r) ==
    /\ r \in Request(Keys)
    /\ Asked(reader.list, r.arg)
    /\ r.load >= budget.loads
    /\ r.load = budget.loads => r.arg = reader.arg
    /\ r.cursor # None => PastCursor(reader.list, r.cursor)
    /\ PastReply(reader.list, r.reply)

RequestsInv ==
    /\ DOMAIN open \subseteq 1 .. MaxOpen
    /\ \A s \in DOMAIN open : IsRequest(open[s])
    /\ reader \in Reader(Keys)
    /\ budget \in [loads : 0 .. MaxLoads, failures : 0 .. MaxFailures]
    /\ reader.list = None => DOMAIN open = {} /\ reader = NoReader
    /\ reader.list # None => reader.arg \in Argument /\ Asked(reader.list, reader.arg)
    /\ PastReader

\* A new request gets a slot of its own.
LEMMA AskIs ==
    ASSUME DOMAIN open \subseteq 1 .. MaxOpen, DOMAIN open # 1 .. MaxOpen,
           NEW arg, NEW cursor, Ask(arg, cursor)
    PROVE  \E slot \in (1 .. MaxOpen) \ DOMAIN open :
              /\ DOMAIN open' = DOMAIN open \cup {slot}
              /\ open'[slot] = [arg |-> arg, cursor |-> cursor,
                                load |-> budget'.loads, reply |-> None]
              /\ \A s \in DOMAIN open : open'[s] = open[s]
<1> DEFINE slot == CHOOSE s \in (1 .. MaxOpen) \ DOMAIN open : TRUE
           request == [arg |-> arg, cursor |-> cursor,
                       load |-> budget'.loads, reply |-> None]
<1>1. slot \in (1 .. MaxOpen) \ DOMAIN open
  OBVIOUS
<1>2. open' = With(open, slot, request)
  BY DEF Ask
<1> HIDE DEF slot, request
<1>3. /\ DOMAIN open' = DOMAIN open \cup {slot} /\ open'[slot] = request
      /\ \A s \in DOMAIN open : open'[s] = open[s]
  BY <1>1, <1>2 DEF With
<1> QED
  BY <1>1, <1>3 DEF request

\* Requests that end leave the others.
LEMMA WithoutIs ==
    ASSUME NEW s \in DOMAIN open, open' = Without(open, s)
    PROVE  /\ DOMAIN open' = DOMAIN open \ {s}
           /\ \A t \in DOMAIN open' : open'[t] = open[t]
  BY DEF Without

\* What once was is not forgotten.
LEMMA PastStays ==
    ASSUME made \in Int, made' \in Int, made <= made'
    PROVE  /\ \A list, key : Past(list, key) => Past(list, key)'
           /\ \A list, arg : Asked(list, arg) => Asked(list, arg)'
  BY DEF Past, Asked

\* What is asked for, is of a list that is there.
LEMMA ArgumentsAre ==
    ASSUME PointsInv, NEW list \in Lists, NEW arg \in Arguments(list)
    PROVE  arg \in Argument /\ Asked(list, arg)
<1>1. list \in {"points", "issues", "objects", "boards", "global"}
  BY PagingAssumption
<1>2. PointIds \subseteq 1 .. made /\ PointIds \subseteq 1 .. MaxPoints
  BY PointIdsFinite DEF PointsInv, PointsTyped
<1>3. CASE list \in {"points", "global"}
  BY <1>3 DEF Arguments, Argument, Asked
<1>4. CASE list = "issues"
  BY <1>2, <1>4 DEF Arguments, Argument, Asked
<1>5. CASE list = "objects"
  BY <1>2, <1>5 DEF Arguments, Argument, Asked
<1>6. CASE list = "boards"
  BY <1>6 DEF Arguments, Argument, Asked
<1> QED
  BY <1>1, <1>3, <1>4, <1>5, <1>6

\* An answer is an error, or a page of entries that are there.
LEMMA ReplyPast ==
    ASSUME PointsTyped, NEW list, NEW arg, Asked(list, arg),
           NEW cursor \in Cursor(Keys) \cup {None}
    PROVE  /\ Reply(list, arg, cursor) \in Rows(Keys) \cup {NoReply}
           /\ PastReply(list, Reply(list, arg, cursor))
<1> DEFINE reply == Reply(list, arg, cursor)
           entries == EntriesOf(list, arg)
<1>1. CASE NotFound(list, arg) \/ Incomparable(list, arg)
  <2>1. reply = NoReply
    BY <1>1 DEF Reply
  <2>2. reply \notin Rows(Keys)
    BY <2>1, NullAssumption DEF Rows, NoReply
  <2> QED
    BY <2>1, <2>2 DEF PastReply
<1>2. CASE ~NotFound(list, arg) /\ ~Incomparable(list, arg)
  <2>1. PICK start \in Nat : ServedFrom(start, entries, cursor, reply)
    BY <1>2, ReplyIs
  <2>2. \A e \in entries : Past(list, e.key) /\ e.id = IdOf(list, e.key)
    BY <1>2, EntryIs
  <2> HIDE DEF entries, reply
  <2>3. reply \in Rows(Keys)
    BY <2>1 DEF ServedFrom
  <2>4. \A k \in DOMAIN reply.rows : Past(list, reply.rows[k])
    BY <2>1, <2>2 DEF ServedFrom
  <2>5. ASSUME reply.next # None PROVE PastCursor(list, reply.next)
    <3>1. PICK c \in entries : reply.next = [id |-> c.id, key |-> c.key]
      BY <2>1, <2>5 DEF ServedFrom
    <3>2. reply.next.id = c.id /\ reply.next.key = c.key
      BY <3>1
    <3> QED
      BY <2>2, <3>2 DEF PastCursor
  <2>6. \A key \in reply.wanted : Past(list, key)
    <3>1. reply.wanted \in {{}, {e.key : e \in entries}}
      BY <2>1 DEF ServedFrom
    <3> QED
      BY <2>2, <3>1
  <2>7. reply \in Rows(Keys) /\ PastReply(list, reply)
    BY <2>3, <2>4, <2>5, <2>6 DEF PastReply
  <2> QED
    BY <2>7 DEF reply
<1> QED
  BY <1>1, <1>2

\* The page is opened, or another filter selected.
LEMMA LoadIs ==
    ASSUME RequestsInv, PointsInv, NEW list \in Lists, NEW arg \in Arguments(list),
           Load(list, arg)
    PROVE  /\ reader' \in Reader(Keys) /\ reader'.list = list /\ reader'.arg = arg
           /\ reader'.rows = <<>> /\ reader'.next = reader.next
           /\ reader'.first = reader.first /\ ~reader'.visible
           /\ reader'.overlapped = (DOMAIN open # {}) /\ reader'.mixed = reader.mixed
           /\ reader'.lost = reader.lost /\ reader'.ambiguous = reader.ambiguous
           /\ reader'.astray = reader.astray
<1> DEFINE overlapped == DOMAIN open # {}
<1>1. reader' = [reader EXCEPT !.list = list, !.arg = arg, !.rows = <<>>,
                               !.visible = FALSE, !.overlapped = overlapped]
  BY DEF Load
<1>2. arg \in Argument /\ overlapped \in BOOLEAN /\ <<>> \in Seq(Keys)
  BY ArgumentsAre
<1>3. reader \in Reader(Keys)
  BY DEF RequestsInv
<1> HIDE DEF overlapped
<1>4. /\ reader'.list = list /\ reader'.arg = arg
      /\ reader'.rows = <<>> /\ reader'.next = reader.next
      /\ reader'.first = reader.first /\ ~reader'.visible
      /\ reader'.overlapped = overlapped /\ reader'.mixed = reader.mixed
      /\ reader'.lost = reader.lost /\ reader'.ambiguous = reader.ambiguous
      /\ reader'.astray = reader.astray
  BY <1>1, <1>3 DEF Reader
<1>5. reader' \in Reader(Keys)
  BY <1>1, <1>2, <1>3 DEF Reader
<1> QED
  BY <1>4, <1>5 DEF overlapped

\* An answer that arrives.
LEMMA DeliverIs ==
    ASSUME RequestsInv, NEW s \in DOMAIN open, Deliver(s)
    PROVE  LET r == open[s]
           IN  /\ open' = Without(open, s) /\ reader' \in Reader(Keys)
               /\ UNCHANGED <<now, points, made, saved, budget>>
               /\ reader'.list = reader.list /\ reader'.arg = reader.arg
               /\ reader'.overlapped = reader.overlapped
               /\ \/ /\ r.reply \notin Rows(Keys) /\ ~reader'.visible
                     /\ reader' = [reader EXCEPT !.visible = FALSE]
                  \/ /\ r.reply \in Rows(Keys)
                     /\ reader'.rows = IF r.cursor = None THEN r.reply.rows
                                       ELSE reader.rows \o r.reply.rows
                     /\ reader'.next = r.reply.next
                     /\ reader'.first = IF r.cursor = None THEN r.reply.wanted
                                        ELSE reader.first
                     /\ reader'.visible = (reader.visible \/ reader'.rows # <<>>)
                     /\ reader'.mixed = (r.load # budget.loads
                                         \/ (r.cursor # None /\ reader.mixed))
                     /\ reader'.lost = (r.reply.lost \/ (r.cursor # None /\ reader.lost))
                     /\ reader'.ambiguous = (r.reply.ambiguous
                                             \/ (r.cursor # None /\ reader.ambiguous))
                     /\ reader'.astray = ((r.reply.lost /\ r.reply.ambiguous)
                                          \/ (r.cursor # None /\ reader.astray))
<1> DEFINE r == open[s]
           reply == r.reply
           more == r.cursor # None
           rows == IF more THEN reader.rows \o reply.rows ELSE reply.rows
           other == r.load # budget.loads
<1>1. r \in Request(Keys) /\ reader \in Reader(Keys) /\ reply \in Rows(Keys) \cup {NoReply, None}
  BY DEF RequestsInv, IsRequest, Request
<1>2. reply # None
  BY DEF Deliver
<1>3. CASE reply \notin Rows(Keys)
  <2>1. reply.rows = None
    BY <1>1, <1>2, <1>3 DEF NoReply
  <2>2. reader' = [reader EXCEPT !.visible = FALSE]
    BY <2>1 DEF Deliver
  <2>3. reader' \in Reader(Keys)
    BY <1>1, <2>2 DEF Reader
  <2> QED
    BY <1>1, <1>3, <2>2, <2>3 DEF Deliver, Reader
<1>4. CASE reply \in Rows(Keys)
  <2>1. reply.rows # None
    BY <1>4, NullAssumption DEF Rows
  <2> DEFINE first == IF more THEN reader.first ELSE reply.wanted
             visible == reader.visible \/ rows # <<>>
             mixed == other \/ (more /\ reader.mixed)
             lost == reply.lost \/ (more /\ reader.lost)
             ambiguous == reply.ambiguous \/ (more /\ reader.ambiguous)
             astray == (reply.lost /\ reply.ambiguous) \/ (more /\ reader.astray)
  <2>2. reader' = [reader EXCEPT
                     !.rows = rows, !.next = reply.next, !.visible = visible,
                     !.first = first, !.mixed = mixed, !.lost = lost,
                     !.ambiguous = ambiguous, !.astray = astray]
    BY <2>1 DEF Deliver
  <2>3. /\ rows \in Seq(Keys) /\ reply.next \in Cursor(Keys) \cup {None}
        /\ first \in SUBSET Keys
    BY <1>1, <1>4 DEF Rows, Reader
  <2>4. /\ visible \in BOOLEAN /\ mixed \in BOOLEAN /\ lost \in BOOLEAN
        /\ ambiguous \in BOOLEAN /\ astray \in BOOLEAN
    OBVIOUS
  <2> HIDE DEF rows, first, visible, mixed, lost, ambiguous, astray, reply
  <2>5. reader' \in Reader(Keys)
    <3> DEFINE page == reader
               next == reply.next
    <3>1. page \in Reader(Keys) /\ next \in Cursor(Keys) \cup {None}
      BY <1>1, <2>3
    <3>2. reader' = [page EXCEPT
                       !.rows = rows, !.next = next, !.visible = visible,
                       !.first = first, !.mixed = mixed, !.lost = lost,
                       !.ambiguous = ambiguous, !.astray = astray]
      BY <2>2
    <3> HIDE DEF page, next
    <3>3. [page EXCEPT !.rows = rows, !.next = next, !.visible = visible,
                       !.first = first, !.mixed = mixed, !.lost = lost,
                       !.ambiguous = ambiguous, !.astray = astray] \in Reader(Keys)
      BY <3>1, <2>3, <2>4 DEF Reader
    <3> QED
      BY <3>2, <3>3
  <2>6. /\ reader'.list = reader.list /\ reader'.arg = reader.arg
        /\ reader'.overlapped = reader.overlapped
        /\ reader'.rows = rows /\ reader'.next = reply.next
        /\ reader'.first = first
    BY <1>1, <2>2 DEF Reader
  <2>7. /\ reader'.visible = visible /\ reader'.mixed = mixed
        /\ reader'.lost = lost /\ reader'.ambiguous = ambiguous
        /\ reader'.astray = astray
    BY <1>1, <2>2 DEF Reader
  <2>8. open' = Without(open, s) /\ UNCHANGED <<now, points, made, saved, budget>>
    BY DEF Deliver
  <2> QED
    BY <1>4, <2>5, <2>6, <2>7, <2>8
    DEF rows, first, visible, mixed, lost, ambiguous, astray, reply
<1> QED
  BY <1>3, <1>4

LEMMA RequestsInit == Init => RequestsInv
<1> SUFFICES ASSUME Init PROVE RequestsInv
  OBVIOUS
<1>1. reader \in Reader(Keys)
  BY DEF Init, NoReader, Reader
<1>2. DOMAIN open = {}
  BY DEF Init
<1>3. budget \in [loads : 0 .. MaxLoads, failures : 0 .. MaxFailures]
  BY PagingAssumption DEF Init
<1>4. PastReader /\ reader = NoReader
  <2>1. reader.rows = <<>> /\ reader.next = None /\ reader.first = {}
    BY DEF Init, NoReader
  <2> QED
    BY <2>1 DEF PastReader, Init
<1>5. reader.list = None
  BY DEF Init, NoReader
<1> QED
  BY <1>1, <1>2, <1>3, <1>4, <1>5 DEF RequestsInv

\* A request that is new.
LEMMA NewRequest ==
    ASSUME RequestsInv, PointsInv, reader' \in Reader(Keys), reader'.list # None,
           NEW arg \in Argument, NEW cursor \in Cursor(Keys) \cup {None},
           DOMAIN open # 1 .. MaxOpen, Ask(arg, cursor),
           budget' \in [loads : 0 .. MaxLoads, failures : 0 .. MaxFailures],
           budget'.loads <= budget.loads, UNCHANGED <<made, points>>,
           DOMAIN open # {} => reader'.list = reader.list,
           budget'.loads = budget.loads => reader'.arg = reader.arg,
           arg = reader'.arg, Asked(reader'.list, arg),
           cursor # None => PastCursor(reader'.list, cursor), PastReader'
    PROVE  RequestsInv'
<1>1. PICK slot \in (1 .. MaxOpen) \ DOMAIN open :
         /\ DOMAIN open' = DOMAIN open \cup {slot}
         /\ open'[slot] = [arg |-> arg, cursor |-> cursor,
                           load |-> budget'.loads, reply |-> None]
         /\ \A s \in DOMAIN open : open'[s] = open[s]
  BY AskIs DEF RequestsInv
<1>2. \A list, a : Asked(list, a)' <=> Asked(list, a)
  BY DEF Asked
<1>3. \A list, key : Past(list, key)' <=> Past(list, key)
  BY DEF Past
<1>4. IsRequest(open[slot])'
  <2>1. /\ open'[slot].arg = arg /\ open'[slot].cursor = cursor
        /\ open'[slot].load = budget'.loads /\ open'[slot].reply = None
    BY <1>1
  <2>2. open'[slot] \in Request(Keys)
    BY <1>1 DEF Request
  <2>3. budget'.loads \in Int
    OBVIOUS
  <2>4. PastReply(reader.list, open[slot].reply)'
    BY <2>1, NullAssumption DEF PastReply
  <2>5. (cursor # None => PastCursor(reader.list, cursor))'
    BY <1>3 DEF PastCursor
  <2>6. Asked(reader.list, open[slot].arg)'
    BY <1>2, <2>1
  <2> QED
    BY <2>1, <2>2, <2>3, <2>4, <2>5, <2>6 DEF IsRequest
<1>5. ASSUME NEW s \in DOMAIN open PROVE IsRequest(open[s])'
  <2>1. IsRequest(open[s]) /\ open'[s] = open[s] /\ reader'.list = reader.list
    BY <1>1, <1>5 DEF RequestsInv
  <2>2. open[s].load \in Int /\ budget.loads \in Int /\ budget'.loads \in Int
    BY <2>1 DEF IsRequest, Request, RequestsInv
  <2>3. open'[s].load >= budget'.loads
    BY <2>1, <2>2 DEF IsRequest
  <2>4. open'[s].load = budget'.loads => open'[s].arg = reader'.arg
    BY <2>1, <2>2 DEF IsRequest
  <2>5. (open[s].cursor # None => PastCursor(reader.list, open[s].cursor))'
    BY <1>3, <2>1 DEF IsRequest, PastCursor
  <2>6. PastReply(reader.list, open[s].reply)'
    BY <1>3, <2>1 DEF IsRequest, PastReply, PastCursor
  <2>7. Asked(reader.list, open[s].arg)'
    BY <1>2, <2>1 DEF IsRequest
  <2> QED
    BY <2>1, <2>3, <2>4, <2>5, <2>6, <2>7 DEF IsRequest
<1>6. \A s \in DOMAIN open' : IsRequest(open[s])'
  BY <1>1, <1>4, <1>5
<1>7. DOMAIN open' \subseteq 1 .. MaxOpen
  BY <1>1 DEF RequestsInv
<1>8. Asked(reader.list, reader.arg)'
  BY <1>2
<1> QED
  BY <1>6, <1>7, <1>8 DEF RequestsInv

\* Some requests end, and what was remembered still is.
LEMMA FewerRequests ==
    ASSUME RequestsInv, made \in Int, made' \in Int, made <= made', UNCHANGED reader,
           DOMAIN open' \subseteq DOMAIN open, \A s \in DOMAIN open' : open'[s] = open[s],
           budget' \in [loads : 0 .. MaxLoads, failures : 0 .. MaxFailures],
           budget'.loads = budget.loads
    PROVE  RequestsInv'
<1>1. \A list, a : Asked(list, a) => Asked(list, a)'
  BY PastStays
<1>2. \A list, key : Past(list, key) => Past(list, key)'
  BY PastStays
<1>3. ASSUME NEW s \in DOMAIN open' PROVE IsRequest(open[s])'
  <2>1. IsRequest(open[s]) /\ open'[s] = open[s]
    BY <1>3 DEF RequestsInv
  <2>2. (open[s].cursor # None => PastCursor(reader.list, open[s].cursor))'
    BY <1>2, <2>1 DEF IsRequest, PastCursor
  <2>3. PastReply(reader.list, open[s].reply)'
    BY <1>2, <2>1 DEF IsRequest, PastReply, PastCursor
  <2> QED
    BY <1>1, <2>1, <2>2, <2>3 DEF IsRequest
<1>4. PastReader'
  BY <1>2 DEF RequestsInv, PastReader, PastCursor
<1> QED
  BY <1>1, <1>3, <1>4 DEF RequestsInv

\* Every step keeps it.
LEMMA RequestsNext == PointsInv /\ RequestsInv /\ [Next]_vars => RequestsInv'
<1> SUFFICES ASSUME PointsInv, RequestsInv, [Next]_vars PROVE RequestsInv'
  OBVIOUS
<1>1. PointsTyped /\ made \in Nat
  <2>1. PointsTyped
    BY DEF PointsInv, PointsTyped
  <2> QED
    BY <2>1, PointIdsFinite
<1>2. ASSUME NEW list \in Lists, NEW arg \in Arguments(list), Load(list, arg)
      PROVE  RequestsInv'
  <2>1. arg \in Argument /\ Asked(list, arg) /\ list # None
    BY ArgumentsAre, NullAssumption
  <2>2. budget' = [budget EXCEPT !.loads = @ - 1] /\ budget.loads > 0
    BY <1>2 DEF Load
  <2>3. /\ budget' \in [loads : 0 .. MaxLoads, failures : 0 .. MaxFailures]
        /\ budget'.loads < budget.loads /\ budget'.loads \in Int /\ budget.loads \in Int
    BY <2>2, PagingAssumption DEF RequestsInv
  <2>4. reader' = [reader EXCEPT !.list = list, !.arg = arg, !.rows = <<>>,
                                 !.visible = FALSE, !.overlapped = DOMAIN open # {}]
    BY <1>2 DEF Load
  <2>5. reader \in Reader(Keys)
    BY DEF RequestsInv
  <2>6. /\ reader' \in Reader(Keys) /\ reader'.list = list /\ reader'.arg = arg
        /\ reader'.rows = <<>> /\ reader'.next = reader.next /\ reader'.first = reader.first
    BY <1>2, LoadIs
  <2>7. reader.list = None \/ reader.list = list
    BY <1>2 DEF Load
  <2>8. PastReader'
    <3>1. UNCHANGED made
      BY <1>2 DEF Load
    <3>2. reader.next # None => PastCursor(list, reader.next)
      BY <2>7 DEF RequestsInv, PastReader, NoReader
    <3>3. \A key \in reader.first : Past(list, key)
      BY <2>7 DEF RequestsInv, PastReader, NoReader
    <3> QED
      BY <2>6, <3>1, <3>2, <3>3 DEF PastReader, PastCursor, Past
  <2>9. DOMAIN open # {} => list = reader.list
    BY <2>7 DEF RequestsInv
  <2>10. DOMAIN open # 1 .. MaxOpen /\ Ask(arg, None) /\ UNCHANGED <<made, points>>
    BY <1>2 DEF Load, MayAsk
  <2> QED
    BY <2>1, <2>3, <2>6, <2>8, <2>9, <2>10, NewRequest
<1>3. CASE LoadMore
  <2>1. /\ reader.visible /\ reader.next # None /\ DOMAIN open # 1 .. MaxOpen
        /\ Ask(reader.arg, reader.next)
        /\ reader' = [reader EXCEPT !.overlapped = @ \/ DOMAIN open # {}]
        /\ UNCHANGED <<now, points, made, saved, budget>>
    BY <1>3 DEF LoadMore, MayAsk
  <2>2. reader \in Reader(Keys) /\ reader.list # None
    BY <2>1 DEF RequestsInv, NoReader
  <2>3. /\ reader' \in Reader(Keys) /\ reader'.list = reader.list /\ reader'.arg = reader.arg
        /\ reader'.rows = reader.rows /\ reader'.next = reader.next
        /\ reader'.first = reader.first
    BY <2>1, <2>2 DEF Reader
  <2>4. PastReader'
    BY <2>1, <2>3 DEF RequestsInv, PastReader, PastCursor, Past
  <2>5. Asked(reader.list, reader.arg)
    BY <2>2 DEF RequestsInv
  <2>6. reader.arg \in Argument
    BY <2>2 DEF RequestsInv
  <2>7. PastCursor(reader.list, reader.next) /\ reader.next \in Cursor(Keys) \cup {None}
    BY <2>1, <2>2 DEF RequestsInv, PastReader, Reader
  <2>8. /\ budget' \in [loads : 0 .. MaxLoads, failures : 0 .. MaxFailures]
        /\ budget'.loads <= budget.loads
    BY <2>1, PagingAssumption DEF RequestsInv
  <2> QED
    BY <2>1, <2>2, <2>3, <2>4, <2>5, <2>6, <2>7, <2>8, NewRequest
<1>4. ASSUME NEW s \in DOMAIN open, Serve(s) PROVE RequestsInv'
  <2> DEFINE r == open[s]
             reply == Reply(reader.list, r.arg, r.cursor)
  <2>1. /\ open' = [open EXCEPT ![s].reply = reply]
        /\ UNCHANGED <<now, points, made, saved, reader, budget>>
    BY <1>4 DEF Serve
  <2>2. IsRequest(r)
    BY DEF RequestsInv
  <2>3. reply \in Rows(Keys) \cup {NoReply} /\ PastReply(reader.list, reply)
    BY <1>1, <2>2, ReplyPast DEF IsRequest, Request
  <2> HIDE DEF reply
  <2>4. r \in Request(Keys)
    BY <2>2 DEF IsRequest
  <2>5. /\ DOMAIN open' = DOMAIN open
        /\ \A t \in DOMAIN open : t # s => open'[t] = open[t]
        /\ open'[s] = [r EXCEPT !.reply = reply]
    BY <2>1
  <2> HIDE DEF r
  <2>6. /\ open'[s] \in Request(Keys) /\ open'[s].arg = r.arg /\ open'[s].load = r.load
        /\ open'[s].cursor = r.cursor /\ open'[s].reply = reply
    BY <2>3, <2>4, <2>5 DEF Request
  <2>7. \A list, a : Asked(list, a)' <=> Asked(list, a)
    BY <2>1 DEF Asked
  <2>8. \A list, key : Past(list, key)' <=> Past(list, key)
    BY <2>1 DEF Past
  <2>9. IsRequest(open[s])'
    <3>1. (open[s].cursor # None => PastCursor(reader.list, open[s].cursor))'
      BY <2>1, <2>2, <2>6, <2>8 DEF IsRequest, PastCursor
    <3>2. PastReply(reader.list, open[s].reply)'
      BY <2>1, <2>3, <2>6, <2>8 DEF PastReply, PastCursor
    <3>3. Asked(reader.list, open[s].arg)'
      BY <2>1, <2>2, <2>6, <2>7 DEF IsRequest
    <3> QED
      BY <2>1, <2>2, <2>6, <2>8, <3>1, <3>2, <3>3 DEF IsRequest, PastCursor
  <2>10. ASSUME NEW t \in DOMAIN open, t # s PROVE IsRequest(open[t])'
    <3>1. IsRequest(open[t]) /\ open'[t] = open[t]
      BY <2>5, <2>10 DEF RequestsInv
    <3>2. PastReply(reader.list, open[t].reply)'
      BY <2>1, <2>8, <3>1 DEF PastReply, PastCursor, IsRequest
    <3>3. Asked(reader.list, open[t].arg)'
      BY <2>1, <2>7, <3>1 DEF IsRequest
    <3>4. (open[t].cursor # None => PastCursor(reader.list, open[t].cursor))'
      BY <2>1, <2>8, <3>1 DEF IsRequest, PastCursor
    <3> QED
      BY <2>1, <3>1, <3>2, <3>3, <3>4 DEF IsRequest
  <2>11. PastReader'
    BY <2>1, <2>8 DEF RequestsInv, PastReader, PastCursor
  <2> QED
    BY <2>1, <2>5, <2>7, <2>9, <2>10, <2>11 DEF RequestsInv
<1>5. ASSUME NEW s \in DOMAIN open, Deliver(s) PROVE RequestsInv'
  <2> DEFINE r == open[s]
  <2>1. IsRequest(r)
    BY DEF RequestsInv
  <2>2. /\ open' = Without(open, s) /\ reader' \in Reader(Keys)
        /\ UNCHANGED <<now, points, made, saved, budget>>
        /\ reader'.list = reader.list /\ reader'.arg = reader.arg
    BY <1>5, DeliverIs
  <2>3. /\ DOMAIN open' = DOMAIN open \ {s}
        /\ \A t \in DOMAIN open' : open'[t] = open[t]
    BY <2>2, WithoutIs
  <2>4. \A list, a : Asked(list, a)' <=> Asked(list, a)
    BY <2>2 DEF Asked
  <2>5. \A list, key : Past(list, key)' <=> Past(list, key)
    BY <2>2 DEF Past
  <2>6. ASSUME NEW t \in DOMAIN open' PROVE IsRequest(open[t])'
    <3>1. IsRequest(open[t]) /\ open'[t] = open[t]
      BY <2>3, <2>6 DEF RequestsInv
    <3>2. PastReply(reader.list, open[t].reply)'
      BY <2>2, <2>5, <3>1 DEF PastReply, PastCursor, IsRequest
    <3>3. Asked(reader.list, open[t].arg)'
      BY <2>2, <2>4, <3>1 DEF IsRequest
    <3>4. (open[t].cursor # None => PastCursor(reader.list, open[t].cursor))'
      BY <2>2, <2>5, <3>1 DEF IsRequest, PastCursor
    <3> QED
      BY <2>2, <3>1, <3>2, <3>3, <3>4 DEF IsRequest
  <2>7. reader.list # None
    BY DEF RequestsInv
  <2>8. PastReader'
    <3>1. CASE r.reply \notin Rows(Keys)
      <4>1. reader' = [reader EXCEPT !.visible = FALSE] /\ reader \in Reader(Keys)
        BY <1>5, <3>1, DeliverIs DEF RequestsInv
      <4>2. /\ reader'.rows = reader.rows /\ reader'.next = reader.next
            /\ reader'.first = reader.first
        BY <4>1 DEF Reader
      <4> QED
        BY <2>2, <2>5, <4>2 DEF RequestsInv, PastReader, PastCursor
    <3>2. CASE r.reply \in Rows(Keys)
      <4>1. /\ reader'.rows = IF r.cursor = None THEN r.reply.rows
                              ELSE reader.rows \o r.reply.rows
            /\ reader'.next = r.reply.next
            /\ reader'.first = IF r.cursor = None THEN r.reply.wanted ELSE reader.first
        BY <1>5, <3>2, DeliverIs
      <4>2. PastReader /\ reader.rows \in Seq(Keys) /\ r.reply.rows \in Seq(Keys)
        BY <3>2 DEF RequestsInv, Reader, Rows
      <4>3. PastReply(reader.list, r.reply)
        BY <2>1 DEF IsRequest
      <4> HIDE DEF r
      <4>4. ASSUME NEW k \in DOMAIN reader'.rows PROVE Past(reader.list, reader'.rows[k])
        <5>1. CASE r.cursor = None
          BY <3>2, <4>1, <4>3, <4>4, <5>1 DEF PastReply
        <5>2. CASE r.cursor # None /\ k <= Len(reader.rows)
          <6>1. k \in DOMAIN reader.rows /\ reader'.rows[k] = reader.rows[k]
            BY <4>1, <4>2, <4>4, <5>2
          <6> QED
            BY <4>2, <6>1 DEF PastReader
        <5>3. CASE r.cursor # None /\ ~(k <= Len(reader.rows))
          <6> DEFINE a == reader.rows
                     b == r.reply.rows
          <6>2. a \in Seq(Keys) /\ b \in Seq(Keys) /\ reader'.rows = a \o b
            BY <4>1, <4>2, <5>3
          <6>3. k \in DOMAIN (a \o b) /\ ~(k <= Len(a))
            BY <4>4, <5>3, <6>2
          <6> HIDE DEF a, b
          <6>4. k - Len(a) \in DOMAIN b /\ (a \o b)[k] = b[k - Len(a)]
            BY <6>2, <6>3
          <6>1. /\ k - Len(reader.rows) \in DOMAIN r.reply.rows
                /\ reader'.rows[k] = r.reply.rows[k - Len(reader.rows)]
            BY <6>2, <6>4 DEF a, b
          <6> QED
            BY <3>2, <4>3, <6>1 DEF PastReply
        <5> QED
          BY <5>1, <5>2, <5>3
      <4>5. reader'.next # None => PastCursor(reader.list, reader'.next)
        BY <3>2, <4>1, <4>3 DEF PastReply
      <4>6. \A key \in reader'.first : Past(reader.list, key)
        BY <3>2, <4>1, <4>2, <4>3 DEF PastReply, PastReader
      <4> QED
        BY <2>2, <2>5, <4>4, <4>5, <4>6 DEF PastReader, PastCursor
    <3> QED
      BY <3>1, <3>2
  <2>9. Asked(reader.list, reader.arg)'
    BY <2>2, <2>4, <2>7 DEF RequestsInv
  <2> QED
    BY <2>2, <2>3, <2>6, <2>7, <2>8, <2>9 DEF RequestsInv
<1>6. ASSUME NEW s \in DOMAIN open, Fail(s) PROVE RequestsInv'
  <2>1. /\ open' = Without(open, s) /\ budget.failures > 0
        /\ budget' = [budget EXCEPT !.failures = @ - 1]
        /\ UNCHANGED <<now, points, made, saved, reader>>
    BY <1>6 DEF Fail
  <2>2. /\ budget' \in [loads : 0 .. MaxLoads, failures : 0 .. MaxFailures]
        /\ budget'.loads = budget.loads
    BY <2>1, PagingAssumption DEF RequestsInv
  <2>3. DOMAIN open' \subseteq DOMAIN open /\ \A t \in DOMAIN open' : open'[t] = open[t]
    BY <2>1, WithoutIs
  <2> QED
    BY <1>1, <2>1, <2>2, <2>3, FewerRequests
<1>7. ASSUME NEW conn \in Conns, WritePoint(conn) PROVE RequestsInv'
  <2>1. made' = made + 1 /\ UNCHANGED <<reader, open>>
    BY <1>7 DEF WritePoint
  <2>2. /\ budget' \in [loads : 0 .. MaxLoads, failures : 0 .. MaxFailures]
        /\ budget'.loads = budget.loads
    BY <1>7, PagingAssumption DEF WritePoint, ReadClock, RequestsInv
  <2> QED
    BY <1>1, <2>1, <2>2, FewerRequests
<1>8. CASE Autosave
  <2>1. UNCHANGED <<made, reader, open, budget>>
    BY <1>8 DEF Autosave
  <2>2. budget' \in [loads : 0 .. MaxLoads, failures : 0 .. MaxFailures]
    BY <2>1 DEF RequestsInv
  <2> QED
    BY <1>1, <2>1, <2>2, FewerRequests
<1>9. CASE CrashAndRestart
  <2>1. /\ budget.failures > 0 /\ budget' = [budget EXCEPT !.failures = @ - 1]
        /\ open' = [s \in {t \in DOMAIN open : open[t].reply # None} |-> open[s]]
        /\ UNCHANGED <<made, reader>>
    BY <1>9 DEF CrashAndRestart
  <2>2. /\ budget' \in [loads : 0 .. MaxLoads, failures : 0 .. MaxFailures]
        /\ budget'.loads = budget.loads
    BY <2>1, PagingAssumption DEF RequestsInv
  <2>3. DOMAIN open' \subseteq DOMAIN open /\ \A s \in DOMAIN open' : open'[s] = open[s]
    BY <2>1
  <2> QED
    BY <1>1, <2>1, <2>2, <2>3, FewerRequests
<1>10. CASE UNCHANGED vars
  <2>1. UNCHANGED <<made, reader, open, budget>>
    BY <1>10 DEF vars
  <2>2. budget' \in [loads : 0 .. MaxLoads, failures : 0 .. MaxFailures]
    BY <2>1 DEF RequestsInv
  <2> QED
    BY <1>1, <2>1, <2>2, FewerRequests
<1> QED
  BY <1>2, <1>3, <1>4, <1>5, <1>6, <1>7, <1>8, <1>9, <1>10 DEF Next

-----------------------------------------------------------------------------
(***************************************************************************)
(* Type correctness.                                                       *)
(***************************************************************************)
Inv == PointsInv /\ RequestsInv

\* Answers and cursors have keys of the list they are of.
LEMMA CursorTyped ==
    ASSUME NEW list, NEW cursor \in Cursor(Keys), PastCursor(list, cursor)
    PROVE  cursor \in Cursor(KeysOf(list))
  BY DEF Cursor, PastCursor, Past

LEMMA RowsTyped ==
    ASSUME NEW list, NEW rows \in Seq(Keys), \A k \in DOMAIN rows : Past(list, rows[k])
    PROVE  rows \in Seq(KeysOf(list))
<1>1. \A k \in 1 .. Len(rows) : rows[k] \in KeysOf(list)
  BY DEF Past
<1>2. rows \in [1 .. Len(rows) -> KeysOf(list)] /\ Len(rows) \in Nat
  BY <1>1
<1> QED
  BY <1>2

LEMMA RequestTyped ==
    ASSUME NEW r, IsRequest(r)
    PROVE  r \in Request(KeysOf(reader.list))
<1> DEFINE keys == KeysOf(reader.list)
<1>1. r \in Request(Keys) /\ PastReply(reader.list, r.reply)
  BY DEF IsRequest
<1>2. r.cursor \in Cursor(keys) \cup {None}
  BY <1>1, CursorTyped DEF IsRequest, Request
<1>3. r.reply \in Rows(keys) \cup {NoReply, None}
  <2> DEFINE reply == r.reply
  <2>1. SUFFICES ASSUME reply \in Rows(Keys) PROVE reply \in Rows(keys)
    BY <1>1 DEF Request
  <2>2. reply.rows \in Seq(keys)
    BY <1>1, <2>1, RowsTyped DEF PastReply, Rows
  <2>3. reply.next \in Cursor(keys) \cup {None}
    BY <1>1, <2>1, CursorTyped DEF PastReply, Rows
  <2>4. reply.wanted \in SUBSET keys
    BY <1>1, <2>1 DEF PastReply, Rows, Past
  <2> HIDE DEF reply, keys
  <2> QED
    BY <2>1, <2>2, <2>3, <2>4 DEF Rows
<1> HIDE DEF keys
<1>4. r \in Request(keys)
  BY <1>1, <1>2, <1>3 DEF Request
<1> QED
  BY <1>4 DEF keys

LEMMA InvTyped == Inv => TypeOK
<1> SUFFICES ASSUME Inv PROVE TypeOK
  OBVIOUS
<1>1. \A s \in DOMAIN open : open[s] \in Request(KeysOf(reader.list))
  BY RequestTyped DEF Inv, RequestsInv
<1>2. reader \in Reader(KeysOf(reader.list))
  <2> DEFINE keys == KeysOf(reader.list)
  <2>1. reader \in Reader(Keys) /\ PastReader
    BY DEF Inv, RequestsInv
  <2>2. reader.rows \in Seq(keys)
    BY <2>1, RowsTyped DEF PastReader, Reader
  <2>3. reader.next \in Cursor(keys) \cup {None}
    BY <2>1, CursorTyped DEF PastReader, Reader
  <2>4. reader.first \in SUBSET keys
    BY <2>1 DEF PastReader, Reader, Past
  <2> HIDE DEF keys
  <2>5. reader \in Reader(keys)
    BY <2>1, <2>2, <2>3, <2>4 DEF Reader
  <2> QED
    BY <2>5 DEF keys
<1> QED
  BY <1>1, <1>2 DEF Inv, PointsInv, RequestsInv, TypeOK

LEMMA InvAlways == Spec => []Inv
<1>1. Init => Inv
  BY PointsInit, RequestsInit DEF Inv
<1>2. Inv /\ [Next]_vars => Inv'
  BY PointsNext, RequestsNext DEF Inv
<1> QED
  BY <1>1, <1>2, PTL DEF Spec

\* What the server remembers, the requests and the page have the shape the
\* code gives them.
THEOREM TypeCorrect == Spec => []TypeOK
  BY InvAlways, InvTyped, PTL

\* backupEngine links a point to the newest of its integration by createdAt.  The
\* point it is linked to stays as long as it does, also over crashes, and another
\* is passed over only where the clock had not gone on; for any integrations,
\* clock readings and failed saves.
THEOREM PointsChained == Spec => []PriorPointChain
<1>1. Inv => PriorPointChain
  BY DEF Inv, PointsInv
<1> QED
  BY <1>1, InvAlways, PTL

-----------------------------------------------------------------------------
(***************************************************************************)
(* The lists over time.                                                    *)
(***************************************************************************)
\* What the code filters is what the documents say.
LEMMA MatchesIsWanted ==
    ASSUME NEW i, NEW q, i.resolved \in Int \cup {None},
           q.resolved \in (Int \X Int) \cup {None}
    PROVE  Matches(i, q) <=> WantedIssue(i, q)
<1>1. InRange(i.resolved, q.resolved) <=>
         (q.resolved # None =>
             i.resolved # None /\ i.resolved \in q.resolved[1] .. q.resolved[2])
  BY DEF InRange
<1>2. /\ q.words \subseteq i.words <=> \A w \in q.words : w \in i.words
      /\ q.labels \subseteq i.labels <=> \A l \in q.labels : l \in i.labels
  OBVIOUS
<1>3. /\ Among(i.status, q.status) <=> (q.status # {} => i.status \in q.status)
      /\ Among(i.assignee, q.assignee) <=> (q.assignee = {} \/ i.assignee \in q.assignee)
  BY DEF Among
<1> QED
  BY <1>1, <1>2, <1>3, Zenon DEF Matches, WantedIssue

LEMMA WantedIs ==
    ASSUME PointsTyped, NEW list, NEW arg, Asked(list, arg), ~NotFound(list, arg)
    PROVE  Wanted(list, arg) = {e.key : e \in EntriesOf(list, arg)}
<1>1. list \in {"points", "issues", "objects", "boards", "global"}
  BY PagingAssumption DEF Asked
<1>2. CASE list = "points"
  <2>1. \A p \in PointIds : arg.of \in {None, points[p].conn} <=>
                              (arg.of = None \/ points[p].conn = arg.of)
    OBVIOUS
  <2>2. \A p \in PointIds : Entry(p, p, <<-points[p].at, p>>).key = p
    BY DEF Entry
  <2>3. Wanted(list, arg) = {p \in PointIds : arg.of = None \/ points[p].conn = arg.of}
    BY <1>2 DEF Wanted
  <2>4. EntriesOf(list, arg) = {Entry(p, p, <<-points[p].at, p>>) :
                                   p \in {q \in PointIds : arg.of \in {None, points[q].conn}}}
    BY <1>2 DEF EntriesOf, PointEntries
  <2> DEFINE asked == {q \in PointIds : arg.of \in {None, points[q].conn}}
             entry(p) == Entry(p, p, <<-points[p].at, p>>)
  <2>5. {e.key : e \in {entry(p) : p \in asked}} = asked
    <3>1. \A p \in asked : entry(p).key = p
      BY <2>2
    <3> HIDE DEF asked, entry
    <3> QED
      BY <3>1
  <2>6. Wanted(list, arg) = asked
    BY <2>1, <2>3
  <2> QED
    BY <2>4, <2>5, <2>6
<1>3. CASE list = "issues"
  <2> DEFINE held == points[arg.of].manifest
             fields(i) == IssueOf[i][held[i]]
  <2>1. held \in ToSet(Manifests) /\ arg.query \in Queries
    BY <1>3 DEF PointsTyped, Point, NotFound, Asked
  <2>2. ASSUME NEW i \in DOMAIN held
        PROVE  Matches(fields(i), arg.query) <=> WantedIssue(fields(i), arg.query)
    <3>1. /\ fields(i).resolved \in Int \cup {None}
          /\ arg.query.resolved \in (Int \X Int) \cup {None}
      BY <2>1, <2>2, FindingsAssumption
    <3> HIDE DEF fields, held
    <3> QED
      BY <3>1, MatchesIsWanted
  <2>3. Wanted(list, arg) = {i \in DOMAIN held : WantedIssue(fields(i), arg.query)}
    BY <1>3 DEF Wanted
  <2>4. EntriesOf(list, arg) = {Entry(i, i, <<-fields(i).updated, i>>) :
                                   i \in {j \in DOMAIN held : Matches(fields(j), arg.query)}}
    BY <1>3 DEF EntriesOf, IssueEntries
  <2>5. \A i \in DOMAIN held : Entry(i, i, <<-fields(i).updated, i>>).key = i
    BY DEF Entry
  <2> DEFINE found == {j \in DOMAIN held : Matches(fields(j), arg.query)}
             entry(i) == Entry(i, i, <<-fields(i).updated, i>>)
  <2>6. {e.key : e \in {entry(i) : i \in found}} = found
    <3>1. \A i \in found : entry(i).key = i
      BY <2>5
    <3> HIDE DEF found, entry
    <3> QED
      BY <3>1
  <2>7. Wanted(list, arg) = found
    <3> HIDE DEF fields, held
    <3> QED
      BY <2>2, <2>3
  <2> QED
    BY <2>4, <2>6, <2>7
<1>4. CASE list \in {"objects", "boards", "global"}
  BY <1>4 DEF Wanted
<1> QED
  BY <1>1, <1>2, <1>3, <1>4

\* The points that are left are as they were; those that are new are none of
\* the earlier ones.
PointsKept ==
    /\ made \in Nat /\ made' \in Nat /\ made <= made'
    /\ \A p \in PointIds' : \/ p \in PointIds /\ points'[p] = points[p]
                            \/ p \notin 1 .. made

LEMMA PointsStay == PointsInv /\ [Next]_vars => PointsKept
<1> SUFFICES ASSUME PointsInv, [Next]_vars PROVE PointsKept
  OBVIOUS
<1>1. made \in Nat
  BY FindingsAssumption DEF PointsInv, MaxPoints
<1>2. CASE UNCHANGED <<points, made>>
  BY <1>1, <1>2 DEF PointsKept, PointIds
<1>3. ASSUME NEW conn \in Conns, WritePoint(conn) PROVE PointsKept
  <2>1. /\ made' = made + 1 /\ PointIds' = PointIds \cup {made'}
        /\ \A p \in PointIds : points'[p] = points[p]
    BY <1>3, NewPoint
  <2> QED
    BY <1>1, <2>1 DEF PointsKept
<1>4. CASE CrashAndRestart
  <2>1. points' = [p \in saved |-> points[p]] /\ made' = made
    BY <1>4 DEF CrashAndRestart
  <2> QED
    BY <1>1, <2>1 DEF PointsKept, PointIds, PointsInv
<1> QED
  BY <1>2, <1>3, <1>4 DEF Next, vars, Load, LoadMore, Serve, Deliver, Fail, Autosave

\* The backup point of an entry is there.
There(list, key) ==
    /\ list = "points" => key \in PointIds
    /\ list = "boards" => key[2] \in PointIds

LEMMA BoardOfIs ==
    ASSUME NEW p, NEW q, NEW e \in BoardsOf(p, q) \cup SprintsOf(p, q)
    PROVE  e.key[2] = p
  BY DEF BoardsOf, SprintsOf, Entry

\* An entry stays in its list, unchanged, for as long as its point is there;
\* others come with new points only.
LEMMA EntriesStay ==
    ASSUME PointsInv, PointsInv', PointsKept, NEW list, NEW arg, Asked(list, arg),
           list # "global", ~NotFound(list, arg)'
    PROVE  /\ ~NotFound(list, arg)
           /\ \A e \in EntriesOf(list, arg)' :
                 Past(list, e.key) => e \in EntriesOf(list, arg)
           /\ \A e \in EntriesOf(list, arg) :
                 There(list, e.key)' => e \in EntriesOf(list, arg)'
<1>1. list \in {"points", "issues", "objects", "boards"}
  BY PagingAssumption DEF Asked
<1>2. \A p \in PointIds' : \/ p \in PointIds /\ points'[p] = points[p]
                           \/ p \notin 1 .. made
  BY DEF PointsKept
<1>3. list \in {"issues", "objects"} =>
         arg.of \in PointIds' /\ arg.of \in PointIds /\ points'[arg.of] = points[arg.of]
  BY <1>2 DEF NotFound, Asked
<1>4. ~NotFound(list, arg)
  BY <1>3 DEF NotFound
<1>5. CASE list = "points"
  <2>1. EntriesOf(list, arg) = {Entry(p, p, <<-points[p].at, p>>) :
                                   p \in {q \in PointIds : arg.of \in {None, points[q].conn}}}
    BY <1>5 DEF EntriesOf, PointEntries
  <2>2. EntriesOf(list, arg)' =
           {Entry(p, p, <<-points'[p].at, p>>) :
               p \in {q \in PointIds' : arg.of \in {None, points'[q].conn}}}
    BY <1>5 DEF EntriesOf, PointEntries
  <2>3. ASSUME NEW e \in EntriesOf(list, arg)', Past(list, e.key)
        PROVE  e \in EntriesOf(list, arg)
    <3>1. PICK p \in {q \in PointIds' : arg.of \in {None, points'[q].conn}} :
              e = Entry(p, p, <<-points'[p].at, p>>)
      BY <2>2
    <3>2. e.key = p
      BY <3>1 DEF Entry
    <3>3. p \in PointIds /\ points'[p] = points[p]
      BY <1>2, <1>5, <2>3, <3>1, <3>2 DEF Past
    <3> QED
      BY <2>1, <3>1, <3>3
  <2>4. ASSUME NEW e \in EntriesOf(list, arg), There(list, e.key)'
        PROVE  e \in EntriesOf(list, arg)'
    <3>1. PICK p \in {q \in PointIds : arg.of \in {None, points[q].conn}} :
              e = Entry(p, p, <<-points[p].at, p>>)
      BY <2>1
    <3>2. e.key = p
      BY <3>1 DEF Entry
    <3>3. p \in PointIds' /\ points'[p] = points[p]
      BY <1>2, <1>5, <2>4, <3>1, <3>2 DEF There, PointsInv
    <3> QED
      BY <2>2, <3>1, <3>3
  <2> QED
    BY <1>4, <2>3, <2>4
<1>6. CASE list = "issues"
  <2>1. EntriesOf(list, arg)' = EntriesOf(list, arg)
    BY <1>3, <1>6 DEF EntriesOf, IssueEntries
  <2> QED
    BY <1>4, <2>1
<1>7. CASE list = "objects"
  <2> DEFINE prior == points[arg.of].prior
  <2>1. points'[arg.of].prior = prior /\ points'[arg.of].manifest = points[arg.of].manifest
    BY <1>3, <1>7
  <2>2. prior # None => prior \in PointIds /\ prior \in PointIds'
    BY <1>3, <1>7, <2>1 DEF PointsInv, PriorsKept
  <2>3. None \notin PointIds /\ None \notin PointIds'
    <3>1. \A p \in PointIds : p \in Int
      BY DEF PointsInv
    <3>2. \A p \in PointIds' : p \in Int
      BY DEF PointsInv
    <3> QED
      BY <3>1, <3>2, NullAssumption
  <2>4. prior \in PointIds <=> prior \in PointIds'
    BY <2>2, <2>3
  <2>5. prior \in PointIds => points'[prior] = points[prior]
    BY <1>2, <2>4 DEF PointsInv
  <2> DEFINE before == IF prior \in PointIds THEN points[prior].manifest ELSE <<>>
  <2>6. before = IF prior \in PointIds' THEN points'[prior].manifest ELSE <<>>
    BY <2>4, <2>5
  <2> DEFINE list0(diff) == {Entry(i, i, <<i>>) :
                                i \in {j \in DOMAIN diff : diff[j] \in arg.query.indicators}}
  <2>7. EntriesOf(list, arg) = list0(ChangeMap(points[arg.of].manifest, before))
    BY <1>7 DEF EntriesOf, ObjectEntries
  <2>8. EntriesOf(list, arg)' =
           list0(ChangeMap(points'[arg.of].manifest,
                           IF points'[arg.of].prior \in PointIds'
                           THEN points'[points'[arg.of].prior].manifest ELSE <<>>))
    BY <1>7 DEF EntriesOf, ObjectEntries
  <2> HIDE DEF prior, before, list0
  <2>9. EntriesOf(list, arg)' = EntriesOf(list, arg)
    BY <2>1, <2>6, <2>7, <2>8
  <2> QED
    BY <1>4, <2>9
<1>8. CASE list = "boards"
  <2>1. EntriesOf(list, arg) =
           UNION {BoardsOf(p, arg.query) \cup SprintsOf(p, arg.query) : p \in PointIds}
    BY <1>8, BoardEntriesAre DEF EntriesOf
  <2>2. EntriesOf(list, arg)' =
           UNION {BoardsOf(p, arg.query) \cup SprintsOf(p, arg.query) : p \in PointIds'}
    BY <1>8 DEF EntriesOf, BoardEntries, BoardsOf, SprintsOf
  <2>3. ASSUME NEW e \in EntriesOf(list, arg)', Past(list, e.key)
        PROVE  e \in EntriesOf(list, arg)
    <3>1. PICK p \in PointIds' : e \in BoardsOf(p, arg.query) \cup SprintsOf(p, arg.query)
      BY <2>2
    <3>2. e.key[2] = p
      BY <3>1, BoardOfIs
    <3>3. p \in PointIds
      BY <1>2, <1>8, <2>3, <3>2 DEF Past
    <3> QED
      BY <2>1, <3>1, <3>3
  <2>4. ASSUME NEW e \in EntriesOf(list, arg), There(list, e.key)'
        PROVE  e \in EntriesOf(list, arg)'
    <3>1. PICK p \in PointIds : e \in BoardsOf(p, arg.query) \cup SprintsOf(p, arg.query)
      BY <2>1
    <3>2. e.key[2] = p
      BY <3>1, BoardOfIs
    <3>3. p \in PointIds'
      BY <1>8, <2>4, <3>2 DEF There
    <3> QED
      BY <2>2, <3>1, <3>3
  <2> QED
    BY <1>4, <2>3, <2>4
<1> QED
  BY <1>1, <1>5, <1>6, <1>7, <1>8

-----------------------------------------------------------------------------
(***************************************************************************)
(* Nothing is shown that is not in the list.                               *)
(***************************************************************************)
Belongs(list, arg, key) ==
    \/ list = "global" \/ NotFound(list, arg) \/ ~There(list, key)
    \/ key \in {e.key : e \in EntriesOf(list, arg)}

RowsBelong(list, arg, rows) == \A k \in DOMAIN rows : Belongs(list, arg, rows[k])

\* What is shown belongs to what the page is about, and what a request gets to
\* what it was about: these are the same until another filter is selected.
ElseInv ==
    /\ ~reader.mixed => RowsBelong(reader.list, reader.arg, reader.rows)
    /\ \A s \in DOMAIN open : open[s].reply \in Rows(Keys) =>
          RowsBelong(reader.list, open[s].arg, open[s].reply.rows)

LEMMA BelongsStays ==
    ASSUME PointsInv, PointsInv', PointsKept, NEW list, NEW arg, NEW key,
           Asked(list, arg), Past(list, key), Belongs(list, arg, key)
    PROVE  Belongs(list, arg, key)'
<1> SUFFICES ASSUME list # "global", ~NotFound(list, arg)', There(list, key)'
             PROVE  key \in {e.key : e \in EntriesOf(list, arg)}'
  BY DEF Belongs
<1>1. /\ ~NotFound(list, arg)
      /\ \A e \in EntriesOf(list, arg) :
            There(list, e.key)' => e \in EntriesOf(list, arg)'
  BY EntriesStay
<1>2. There(list, key)
  BY DEF There, Past, PointsKept
<1>3. PICK e \in EntriesOf(list, arg) : e.key = key
  BY <1>1, <1>2 DEF Belongs
<1>4. e \in EntriesOf(list, arg)'
  BY <1>1, <1>3
<1> QED
  BY <1>3, <1>4

\* An answer holds entries of the list it is asked of.
LEMMA ReplyBelongs ==
    ASSUME PointsTyped, NEW list, NEW arg, Asked(list, arg),
           NEW cursor \in Cursor(Keys) \cup {None},
           Reply(list, arg, cursor) \in Rows(Keys)
    PROVE  RowsBelong(list, arg, Reply(list, arg, cursor).rows)
<1> DEFINE reply == Reply(list, arg, cursor)
           entries == EntriesOf(list, arg)
<1>1. ~NotFound(list, arg) /\ ~Incomparable(list, arg)
  <2>1. NoReply \notin Rows(Keys)
    BY NullAssumption DEF Rows, NoReply
  <2> QED
    BY <2>1 DEF Reply
<1>2. PICK start \in Nat : ServedFrom(start, entries, cursor, reply)
  BY <1>1, ReplyIs
<1> HIDE DEF reply, entries
<1>3. \A k \in DOMAIN reply.rows : \E e \in entries : e.key = reply.rows[k]
  BY <1>2 DEF ServedFrom
<1>4. \A k \in DOMAIN reply.rows : reply.rows[k] \in {e.key : e \in entries}
  BY <1>3
<1> QED
  BY <1>4 DEF RowsBelong, Belongs, reply, entries

LEMMA ElseInit == Init => ElseInv
<1> SUFFICES ASSUME Init PROVE ElseInv
  OBVIOUS
<1>1. DOMAIN open = {} /\ reader.rows = <<>>
  BY DEF Init, NoReader
<1> QED
  BY <1>1 DEF ElseInv, RowsBelong

LEMMA ElseNext == Inv /\ Inv' /\ ElseInv /\ [Next]_vars => ElseInv'
<1> SUFFICES ASSUME Inv, Inv', ElseInv, [Next]_vars PROVE ElseInv'
  OBVIOUS
<1>1. PointsInv /\ PointsInv' /\ PointsKept /\ RequestsInv
  BY PointsStay DEF Inv
<1>2. \A list, arg, key : Asked(list, arg) /\ Past(list, key) /\ Belongs(list, arg, key)
                          => Belongs(list, arg, key)'
  BY <1>1, BelongsStays
<1>3. \A list, arg, rows :
         /\ Asked(list, arg) /\ RowsBelong(list, arg, rows)
         /\ \A k \in DOMAIN rows : Past(list, rows[k])
         => RowsBelong(list, arg, rows)'
  BY <1>2 DEF RowsBelong
<1>4. ASSUME RowsBelong(reader.list, reader.arg, reader.rows), reader.list # None,
             UNCHANGED reader
      PROVE  RowsBelong(reader.list, reader.arg, reader.rows)'
  BY <1>4, <1>1, <1>3 DEF RequestsInv, PastReader
<1>5. ASSUME NEW s \in DOMAIN open, open[s].reply \in Rows(Keys)
      PROVE  \A r, list : r = open[s] /\ list = reader.list =>
                RowsBelong(list, r.arg, r.reply.rows)'
  <2>1. /\ Asked(reader.list, open[s].arg)
        /\ \A k \in DOMAIN open[s].reply.rows : Past(reader.list, open[s].reply.rows[k])
    BY <1>1, <1>5 DEF RequestsInv, IsRequest, PastReply
  <2>2. RowsBelong(reader.list, open[s].arg, open[s].reply.rows)
    BY <1>5 DEF ElseInv
  <2> QED
    BY <1>3, <2>1, <2>2
<1>6. ASSUME UNCHANGED reader, DOMAIN open' \subseteq DOMAIN open,
             \A s \in DOMAIN open' : open'[s] = open[s]
      PROVE  ElseInv'
  <2>1. reader.list = None => reader.rows = <<>>
    BY <1>1 DEF RequestsInv, NoReader
  <2>2. (~reader.mixed => RowsBelong(reader.list, reader.arg, reader.rows))'
    <3>1. CASE reader.list = None
      BY <1>6, <2>1, <3>1 DEF RowsBelong
    <3>2. CASE reader.list # None
      BY <1>4, <1>6, <3>2 DEF ElseInv
    <3> QED
      BY <3>1, <3>2
  <2>3. ASSUME NEW s \in DOMAIN open', open'[s].reply \in Rows(Keys)
        PROVE  RowsBelong(reader.list, open[s].arg, open[s].reply.rows)'
    BY <1>5, <1>6, <2>3
  <2> QED
    BY <2>2, <2>3 DEF ElseInv
<1>7. ASSUME NEW list \in Lists, NEW arg \in Arguments(list), Load(list, arg)
      PROVE  ElseInv'
  <2>1. reader'.rows = <<>> /\ reader'.list = list
    BY <1>1, <1>7, LoadIs
  <2>2. DOMAIN open # {} => reader.list = list
    BY <1>1, <1>7 DEF Load, RequestsInv
  <2> DEFINE request == [arg |-> arg, cursor |-> None, load |-> budget'.loads, reply |-> None]
  <2>3. PICK slot \in (1 .. MaxOpen) \ DOMAIN open :
           /\ DOMAIN open' = DOMAIN open \cup {slot} /\ open'[slot] = request
           /\ \A s \in DOMAIN open : open'[s] = open[s]
    <3>1. DOMAIN open \subseteq 1 .. MaxOpen /\ DOMAIN open # 1 .. MaxOpen /\ Ask(arg, None)
      BY <1>1, <1>7 DEF Load, MayAsk, RequestsInv
    <3> QED
      BY <3>1, AskIs
  <2>4. ASSUME NEW s \in DOMAIN open', open'[s].reply \in Rows(Keys)
        PROVE  RowsBelong(reader.list, open[s].arg, open[s].reply.rows)'
    <3>1. s \in DOMAIN open /\ open'[s] = open[s]
      BY <2>3, <2>4, NullAssumption
    <3> QED
      BY <1>5, <2>1, <2>2, <2>4, <3>1
  <2> QED
    BY <2>1, <2>4 DEF ElseInv, RowsBelong
<1>8. CASE LoadMore
  <2>1. /\ reader' = [reader EXCEPT !.overlapped = @ \/ DOMAIN open # {}]
        /\ reader.visible /\ Ask(reader.arg, reader.next) /\ DOMAIN open # 1 .. MaxOpen
    BY <1>8 DEF LoadMore, MayAsk
  <2>2. reader \in Reader(Keys) /\ reader.list # None
    BY <1>1, <2>1 DEF RequestsInv, NoReader
  <2>3. /\ reader'.rows = reader.rows /\ reader'.list = reader.list
        /\ reader'.arg = reader.arg /\ reader'.mixed = reader.mixed
    BY <2>1, <2>2 DEF Reader
  <2> DEFINE request == [arg |-> reader.arg, cursor |-> reader.next,
                         load |-> budget'.loads, reply |-> None]
  <2>4. PICK slot \in (1 .. MaxOpen) \ DOMAIN open :
           /\ DOMAIN open' = DOMAIN open \cup {slot} /\ open'[slot] = request
           /\ \A s \in DOMAIN open : open'[s] = open[s]
    <3>1. DOMAIN open \subseteq 1 .. MaxOpen
      BY <1>1 DEF RequestsInv
    <3> QED
      BY <2>1, <3>1, AskIs
  <2>5. ASSUME NEW s \in DOMAIN open', open'[s].reply \in Rows(Keys)
        PROVE  RowsBelong(reader.list, open[s].arg, open[s].reply.rows)'
    <3>1. s \in DOMAIN open /\ open'[s] = open[s]
      BY <2>4, <2>5, NullAssumption
    <3> QED
      BY <1>5, <2>3, <2>5, <3>1
  <2>6. (~reader.mixed => RowsBelong(reader.list, reader.arg, reader.rows))'
    <3>1. /\ Asked(reader.list, reader.arg)
          /\ \A k \in DOMAIN reader.rows : Past(reader.list, reader.rows[k])
      BY <1>1, <2>2 DEF RequestsInv, PastReader
    <3> QED
      BY <1>3, <2>3, <3>1 DEF ElseInv
  <2> QED
    BY <2>5, <2>6 DEF ElseInv
<1>9. ASSUME NEW s \in DOMAIN open, Serve(s) PROVE ElseInv'
  <2> DEFINE reply == Reply(reader.list, open[s].arg, open[s].cursor)
  <2>1. /\ open' = [open EXCEPT ![s].reply = reply]
        /\ UNCHANGED <<now, points, made, saved, reader, budget>>
    BY <1>9 DEF Serve
  <2>2. IsRequest(open[s]) /\ PointsTyped
    BY <1>1 DEF RequestsInv, PointsInv, PointsTyped
  <2>3. reply \in Rows(Keys) => RowsBelong(reader.list, open[s].arg, reply.rows)
    BY <2>2, ReplyBelongs DEF IsRequest, Request
  <2>4. reply \in Rows(Keys) => \A k \in DOMAIN reply.rows : Past(reader.list, reply.rows[k])
    BY <2>2, ReplyPast DEF IsRequest, Request, PastReply
  <2>5. open[s] \in Request(Keys) /\ Asked(reader.list, open[s].arg)
    BY <2>2 DEF IsRequest
  <2> HIDE DEF reply
  <2>6. /\ DOMAIN open' = DOMAIN open
        /\ \A t \in DOMAIN open : t # s => open'[t] = open[t]
        /\ open'[s].reply = reply /\ open'[s].arg = open[s].arg
    BY <2>1, <2>5 DEF Request
  <2>7. (~reader.mixed => RowsBelong(reader.list, reader.arg, reader.rows))'
    <3>1. reader.list # None
      BY <1>1 DEF RequestsInv
    <3> QED
      BY <1>4, <2>1, <3>1 DEF ElseInv
  <2>8. ASSUME NEW t \in DOMAIN open', open'[t].reply \in Rows(Keys)
        PROVE  RowsBelong(reader.list, open[t].arg, open[t].reply.rows)'
    <3>1. CASE t = s
      BY <1>3, <2>1, <2>3, <2>4, <2>5, <2>6, <2>8, <3>1
    <3>2. CASE t # s
      BY <1>5, <2>1, <2>6, <2>8, <3>2
    <3> QED
      BY <3>1, <3>2
  <2> QED
    BY <2>7, <2>8 DEF ElseInv
<1>10. ASSUME NEW s \in DOMAIN open, Deliver(s) PROVE ElseInv'
  <2> DEFINE r == open[s]
  <2>1. /\ open' = Without(open, s)
        /\ reader'.list = reader.list /\ reader'.arg = reader.arg
    BY <1>1, <1>10, DeliverIs
  <2>2. /\ DOMAIN open' \subseteq DOMAIN open
        /\ \A t \in DOMAIN open' : open'[t] = open[t]
    BY <2>1, WithoutIs
  <2>3. ASSUME NEW t \in DOMAIN open', open'[t].reply \in Rows(Keys)
        PROVE  RowsBelong(reader.list, open[t].arg, open[t].reply.rows)'
    BY <1>5, <2>1, <2>2, <2>3
  <2>4. IsRequest(r) /\ reader.list # None
    BY <1>1 DEF RequestsInv
  <2>5. Asked(reader.list, reader.arg) /\ PastReader /\ reader \in Reader(Keys)
    BY <1>1, <2>4 DEF RequestsInv
  <2>7. ~reader.mixed => \A list, arg, rows :
           list = reader.list /\ arg = reader.arg /\ rows = reader.rows =>
              RowsBelong(list, arg, rows)'
    BY <1>3, <2>5 DEF ElseInv, PastReader
  <2>8. (~reader.mixed => RowsBelong(reader.list, reader.arg, reader.rows))'
    <3>1. CASE r.reply \notin Rows(Keys)
      <4>1. reader' = [reader EXCEPT !.visible = FALSE]
        BY <1>1, <1>10, <3>1, DeliverIs
      <4>2. reader'.rows = reader.rows /\ reader'.mixed = reader.mixed
        BY <2>5, <4>1 DEF Reader
      <4> QED
        BY <2>1, <2>7, <4>2
    <3>2. CASE r.reply \in Rows(Keys)
      <4>1. /\ reader'.rows = IF r.cursor = None THEN r.reply.rows
                              ELSE reader.rows \o r.reply.rows
            /\ reader'.mixed = (r.load # budget.loads
                                \/ (r.cursor # None /\ reader.mixed))
        BY <1>1, <1>10, <3>2, DeliverIs
      <4>2. SUFFICES ASSUME ~reader'.mixed
                     PROVE  RowsBelong(reader.list, reader.arg, reader.rows)'
        OBVIOUS
      <4>3. r.arg = reader.arg
        BY <2>4, <4>1, <4>2 DEF IsRequest
      <4>4. \A list, arg, rows :
               list = reader.list /\ arg = reader.arg /\ rows = r.reply.rows =>
                  RowsBelong(list, arg, rows)'
        BY <1>5, <3>2, <4>3
      <4>5. reader.rows \in Seq(Keys) /\ r.reply.rows \in Seq(Keys)
        BY <2>5, <3>2 DEF Reader, Rows
      <4> HIDE DEF r
      <4>6. CASE r.cursor = None
        BY <2>1, <4>1, <4>4, <4>6
      <4>7. CASE r.cursor # None
        <5>1. \A list, arg, a, b :
                 /\ a \in Seq(Keys) /\ b \in Seq(Keys)
                 /\ RowsBelong(list, arg, a)' /\ RowsBelong(list, arg, b)'
                 => RowsBelong(list, arg, a \o b)'
          <6> SUFFICES ASSUME NEW list, NEW arg, NEW a \in Seq(Keys), NEW b \in Seq(Keys),
                              RowsBelong(list, arg, a)', RowsBelong(list, arg, b)',
                              NEW k \in DOMAIN (a \o b)
                       PROVE  Belongs(list, arg, (a \o b)[k])'
            BY DEF RowsBelong
          <6>1. CASE k \in DOMAIN a
            <7>1. (a \o b)[k] = a[k]
              BY <6>1
            <7> QED
              BY <6>1, <7>1 DEF RowsBelong
          <6>2. CASE k \notin DOMAIN a
            <7>1. k - Len(a) \in DOMAIN b /\ (a \o b)[k] = b[k - Len(a)]
              BY <6>2
            <7> QED
              BY <7>1 DEF RowsBelong
          <6> QED
            BY <6>1, <6>2
        <5>2. reader'.rows = reader.rows \o r.reply.rows /\ ~reader.mixed
          BY <4>1, <4>2, <4>7
        <5> QED
          BY <2>1, <2>7, <4>4, <4>5, <5>1, <5>2
      <4> QED
        BY <4>6, <4>7
    <3> QED
      BY <3>1, <3>2
  <2> QED
    BY <2>3, <2>8 DEF ElseInv
<1>11. ASSUME NEW s \in DOMAIN open, Fail(s) PROVE ElseInv'
  <2>1. open' = Without(open, s) /\ UNCHANGED reader
    BY <1>11 DEF Fail
  <2>2. DOMAIN open' \subseteq DOMAIN open /\ \A t \in DOMAIN open' : open'[t] = open[t]
    BY <2>1, WithoutIs
  <2> QED
    BY <1>6, <2>1, <2>2
<1>12. CASE CrashAndRestart
  BY <1>6, <1>12 DEF CrashAndRestart
<1>13. CASE UNCHANGED <<reader, open>>
  BY <1>6, <1>13
<1> QED
  BY <1>7, <1>8, <1>9, <1>10, <1>11, <1>12, <1>13
  DEF Next, vars, WritePoint, Autosave

LEMMA ElseHolds == Inv /\ ElseInv => NothingElse
<1> SUFFICES ASSUME Inv, ElseInv, reader.list # None, ~reader.mixed,
                    ~NotFound(reader.list, reader.arg),
                    NEW key \in Shown \ Wanted(reader.list, reader.arg)
             PROVE  CASE reader.list = "points" -> key \in (1 .. made) \ PointIds
                      [] reader.list = "boards" -> key[2] \in (1 .. made) \ PointIds
                      [] OTHER -> reader.list = "global"
  BY DEF NothingElse
<1>1. PointsTyped /\ Asked(reader.list, reader.arg) /\ PastReader
  BY DEF Inv, PointsInv, PointsTyped, RequestsInv
<1>2. PICK k \in DOMAIN reader.rows : key = reader.rows[k]
  BY DEF Shown, ToSet
<1>3. Belongs(reader.list, reader.arg, key) /\ Past(reader.list, key)
  BY <1>1, <1>2 DEF ElseInv, RowsBelong, PastReader
<1>4. Wanted(reader.list, reader.arg) = {e.key : e \in EntriesOf(reader.list, reader.arg)}
  BY <1>1, WantedIs
<1>5. reader.list = "global" \/ ~There(reader.list, key)
  BY <1>3, <1>4 DEF Belongs
<1> QED
  BY <1>3, <1>5 DEF There, Past

\* What is shown belongs to the list and to its filter, whatever is written,
\* lost and answered late, or to a backup point that a restart has lost.
THEOREM NothingElseShown == Spec => []NothingElse
<1>1. Init => ElseInv
  BY ElseInit
<1>2. Inv /\ Inv' /\ ElseInv /\ [Next]_vars => ElseInv'
  BY ElseNext
<1>3. Inv /\ ElseInv => NothingElse
  BY ElseHolds
<1> QED
  BY <1>1, <1>2, <1>3, InvAlways, PTL DEF Spec

-----------------------------------------------------------------------------
(***************************************************************************)
(* Page after page.                                                        *)
(***************************************************************************)
\* Where the entries that have been seen are, as far as they still are: fields
\* come and go, and come again, with the points of their integration.
Live(list, arg) ==
    IF list = "global" THEN EveryField
    ELSE IF NotFound(list, arg) THEN {} ELSE EntriesOf(list, arg)

\* No row twice, and those that are left in the order of the list.
InOrder(rows, live) ==
    \A i, j \in DOMAIN rows : i < j =>
        /\ rows[i] # rows[j]
        /\ \A e, f \in live : e.key = rows[i] /\ f.key = rows[j] => Before(e, f)

\* What is left of the first page's list is among the rows or behind the cursor.
Covers(rows, next, first, live) ==
    \A e \in live : e.key \in first =>
        \/ \E k \in DOMAIN rows : rows[k] = e.key
        \/ next # None /\ \A c \in live : c.key = next.key => Before(c, e)

EndsWith(rows, next) ==
    next # None => Len(rows) > 0 /\ rows[Len(rows)] = next.key

\* The only request is for the page the reader waits for.
OneRequest(r) ==
    /\ r.load = budget.loads
    /\ r.cursor = None => reader.rows = <<>> /\ ~reader.visible
    /\ r.cursor # None => reader.visible /\ r.cursor = reader.next

RowsAfter(r) == IF r.cursor = None THEN r.reply.rows ELSE reader.rows \o r.reply.rows
FirstAfter(r) == IF r.cursor = None THEN r.reply.wanted ELSE reader.first

\* An answer, once it is there.
IsAnswer(r) ==
    LET live == Live(reader.list, r.arg)
    IN  /\ EndsWith(r.reply.rows, r.reply.next)
        /\ \/ r.reply.lost \/ r.reply.ambiguous
           \/ r.cursor # None /\ (reader.lost \/ reader.ambiguous)
           \/ InOrder(RowsAfter(r), live)
        /\ \/ reader.list = "global" \/ (r.reply.lost /\ r.reply.ambiguous)
           \/ r.cursor # None /\ reader.astray
           \/ Covers(RowsAfter(r), r.reply.next, FirstAfter(r), live)

PagesInv ==
    ~reader.overlapped /\ reader.list # None =>
        /\ \A s, t \in DOMAIN open : s = t
        /\ \A s \in DOMAIN open :
              /\ OneRequest(open[s])
              /\ open[s].reply \in Rows(Keys) => IsAnswer(open[s])
        /\ reader.visible => EndsWith(reader.rows, reader.next)
        /\ \/ reader.lost \/ reader.ambiguous
           \/ InOrder(reader.rows, Live(reader.list, reader.arg))
        /\ \/ reader.list = "global" \/ ~reader.visible \/ reader.astray
           \/ Covers(reader.rows, reader.next, reader.first,
                     Live(reader.list, reader.arg))

\* Entries that are new are not among the rows.
LEMMA InOrderStays ==
    ASSUME NEW rows, NEW live, NEW left, InOrder(rows, live),
           \A e \in left : (\E k \in DOMAIN rows : rows[k] = e.key) => e \in live
    PROVE  InOrder(rows, left)
  BY DEF InOrder

LEMMA CoversStays ==
    ASSUME NEW rows, NEW next, NEW first, NEW live, NEW left,
           Covers(rows, next, first, live),
           \A e \in left :
              e.key \in first \/ (next # None /\ e.key = next.key) => e \in live
    PROVE  Covers(rows, next, first, left)
  BY DEF Covers

LEMMA LiveStays ==
    ASSUME PointsInv, PointsInv', PointsKept, NEW list, NEW arg, Asked(list, arg)
    PROVE  \A e \in Live(list, arg)' : Past(list, e.key) => e \in Live(list, arg)
<1>1. CASE list = "global"
  BY <1>1 DEF Live
<1>2. CASE list # "global" /\ NotFound(list, arg)'
  BY <1>2 DEF Live
<1>3. CASE list # "global" /\ ~NotFound(list, arg)'
  BY <1>3, EntriesStay DEF Live
<1> QED
  BY <1>1, <1>2, <1>3

\* The entry of a smaller place comes first.
LEMMA PlacesOrder ==
    ASSUME NEW entries, Proper(entries), NEW e \in entries, NEW f \in entries,
           Place(e, entries) < Place(f, entries)
    PROVE  Before(e, f)
<1>1. /\ Place(e, entries) \in Int /\ Place(f, entries) \in Int
      /\ Before(f, e) => Place(f, entries) < Place(e, entries)
  BY PlaceIs DEF Proper
<1>2. e # f
  BY <1>1
<1> QED
  BY <1>1, <1>2 DEF Proper, Total

\* The rows of a page are in the order of the list.
LEMMA PageInOrder ==
    ASSUME NEW entries, Proper(entries), NEW live, entries \subseteq live, Keyed(live),
           NEW start \in Nat, NEW cursor, NEW reply,
           ServedFrom(start, entries, cursor, reply)
    PROVE  InOrder(reply.rows, live)
<1> DEFINE rows == reply.rows
<1>1. rows \in Seq(Keys)
  BY DEF ServedFrom, Rows
<1>2. \A k \in DOMAIN rows :
         \E e \in entries : e.key = rows[k] /\ Place(e, entries) = start + k
  BY DEF ServedFrom
<1> HIDE DEF rows
<1>3. SUFFICES ASSUME NEW i \in DOMAIN rows, NEW j \in DOMAIN rows, i < j
               PROVE  /\ rows[i] # rows[j]
                      /\ \A e, f \in live :
                            e.key = rows[i] /\ f.key = rows[j] => Before(e, f)
  BY DEF InOrder, rows
<1>4. PICK e \in entries : e.key = rows[i] /\ Place(e, entries) = start + i
  BY <1>2
<1>5. PICK f \in entries : f.key = rows[j] /\ Place(f, entries) = start + j
  BY <1>2
<1>6. Place(e, entries) < Place(f, entries)
  BY <1>1, <1>3, <1>4, <1>5
<1>7. Before(e, f)
  BY <1>4, <1>5, <1>6, PlacesOrder
<1>8. e # f
  BY <1>1, <1>3, <1>4, <1>5
<1> QED
  BY <1>4, <1>5, <1>7, <1>8 DEF Keyed

\* The first page holds what there is, up to its last row.
LEMMA FirstPageCovers ==
    ASSUME NEW entries, Proper(entries), NEW start \in Nat, NEW reply,
           ServedFrom(start, entries, None, reply)
    PROVE  Covers(reply.rows, reply.next, reply.wanted, entries)
<1> SUFFICES ASSUME NEW e \in entries
             PROVE  \/ \E k \in DOMAIN reply.rows : reply.rows[k] = e.key
                    \/ /\ reply.next # None
                       /\ \A c \in entries : c.key = reply.next.key => Before(c, e)
  BY DEF Covers
<1>1. Place(e, entries) > start
  BY PlaceIs DEF ServedFrom, Proper
<1>2. \/ \E k \in DOMAIN reply.rows : reply.rows[k] = e.key
      \/ /\ reply.next # None
         /\ \E c \in entries : c.key = reply.next.key /\ Before(c, e)
  BY <1>1 DEF ServedFrom
<1> QED
  BY <1>2 DEF Proper, Keyed

\* A page behind the last row goes on in the order of the list.
LEMMA NextPageInOrder ==
    ASSUME NEW entries, Proper(entries), NEW live, entries \subseteq live,
           Keyed(live), Ordered(live), NEW start \in Nat, NEW cursor, cursor # None,
           NEW reply, ServedFrom(start, entries, cursor, reply),
           ~reply.lost, ~reply.ambiguous,
           \A e \in entries : e.key = cursor.key => e.id = cursor.id,
           NEW rows \in Seq(Keys), InOrder(rows, live), EndsWith(rows, cursor)
    PROVE  InOrder(rows \o reply.rows, live)
<1> DEFINE page == reply.rows
           all == rows \o page
           n == Len(rows)
<1>1. page \in Seq(Keys) /\ n \in Nat /\ n > 0 /\ rows[n] = cursor.key
  BY DEF ServedFrom, Rows, EndsWith
<1>2. PICK c \in entries : c.key = cursor.key
  BY DEF ServedFrom
<1>3. Place(c, entries) = start
  <2>1. c.id = cursor.id
    BY <1>2
  <2>2. PICK d \in entries : d.id = cursor.id /\ Place(d, entries) = start
    BY <1>2, <2>1 DEF ServedFrom
  <2>3. d.key = c.key
    BY <1>2, <2>2 DEF ServedFrom
  <2> QED
    BY <2>2, <2>3 DEF Proper, Keyed
<1>4. ASSUME NEW k \in DOMAIN page
      PROVE  \E f \in entries : f.key = page[k] /\ Before(c, f)
  <2>1. PICK f \in entries : f.key = page[k] /\ Place(f, entries) = start + k
    BY DEF ServedFrom
  <2>2. Place(c, entries) < Place(f, entries)
    BY <1>1, <1>3, <2>1
  <2> QED
    BY <2>1, <2>2, PlacesOrder
<1>5. InOrder(page, live)
  BY PageInOrder
<1> HIDE DEF page
<1>6. SUFFICES ASSUME NEW i \in DOMAIN all, NEW j \in DOMAIN all, i < j
               PROVE  /\ all[i] # all[j]
                      /\ \A e, f \in live :
                            e.key = all[i] /\ f.key = all[j] => Before(e, f)
  BY DEF InOrder, page
<1>7. CASE j <= n
  <2>1. i \in DOMAIN rows /\ j \in DOMAIN rows /\ all[i] = rows[i] /\ all[j] = rows[j]
    BY <1>1, <1>6, <1>7
  <2> HIDE DEF all
  <2> QED
    BY <1>6, <2>1 DEF InOrder
<1>8. CASE i > n
  <2>1. /\ i - n \in DOMAIN page /\ all[i] = page[i - n]
        /\ j - n \in DOMAIN page /\ all[j] = page[j - n] /\ i - n < j - n
    BY <1>1, <1>6, <1>8
  <2> HIDE DEF all, n
  <2> QED
    BY <1>5, <2>1 DEF InOrder
<1>9. CASE i <= n /\ j > n
  <2>1. /\ i \in DOMAIN rows /\ n \in DOMAIN rows /\ all[i] = rows[i]
        /\ j - n \in DOMAIN page /\ all[j] = page[j - n] /\ i \in Int
    BY <1>1, <1>6, <1>9
  <2> HIDE DEF all
  <2>2. PICK f \in entries : f.key = all[j] /\ Before(c, f)
    BY <1>4, <2>1
  <2>3. ASSUME NEW e \in live, e.key = all[i] PROVE Before(e, f)
    <3>1. CASE i = n
      <4>1. e = c
        BY <1>1, <1>2, <2>1, <2>3, <3>1 DEF Keyed
      <4> QED
        BY <2>2, <4>1
    <3>2. CASE i < n
      <4>1. Before(e, c)
        BY <1>1, <1>2, <2>1, <2>3, <3>2 DEF InOrder
      <4> QED
        BY <1>2, <2>2, <4>1 DEF Ordered
    <3> QED
      BY <1>1, <1>9, <2>1, <3>1, <3>2
  <2>4. all[i] # all[j]
    <3>1. f \in live /\ ~Before(f, f)
      BY DEF Ordered
    <3> QED
      BY <2>2, <2>3, <3>1
  <2> QED
    BY <2>2, <2>3, <2>4 DEF Keyed
<1> QED
  BY <1>1, <1>6, <1>7, <1>8, <1>9

\* A page that starts no later than behind the last row leaves out nothing that
\* was behind it.
LEMMA NextPageCovers ==
    ASSUME NEW entries, Proper(entries), NEW start \in Nat, NEW cursor, cursor # None,
           NEW reply, ServedFrom(start, entries, cursor, reply),
           ~(reply.lost /\ reply.ambiguous),
           \A e \in entries : e.key = cursor.key => e.id = cursor.id,
           NEW rows \in Seq(Keys), NEW first, Covers(rows, cursor, first, entries)
    PROVE  Covers(rows \o reply.rows, reply.next, first, entries)
<1> DEFINE page == reply.rows
<1>1. page \in Seq(Keys)
  BY DEF ServedFrom, Rows
<1>2. /\ \A k \in DOMAIN rows : k \in DOMAIN (rows \o page) /\ (rows \o page)[k] = rows[k]
      /\ \A k \in DOMAIN page : /\ Len(rows) + k \in DOMAIN (rows \o page)
                                /\ (rows \o page)[Len(rows) + k] = page[k]
  <2> HIDE DEF page
  <2> QED
    BY <1>1
<1>3. SUFFICES ASSUME NEW e \in entries, e.key \in first,
                      ~(\E k \in DOMAIN rows : rows[k] = e.key)
               PROVE  \/ \E k \in DOMAIN page : page[k] = e.key
                      \/ /\ reply.next # None
                         /\ \A c \in entries : c.key = reply.next.key => Before(c, e)
  <2> HIDE DEF page
  <2> QED
    BY <1>2 DEF Covers, page
<1>4. \A c \in entries : c.key = cursor.key => Before(c, e)
  BY <1>3 DEF Covers
<1>5. /\ \A c \in entries : Place(c, entries) \in Nat /\ Place(c, entries) > 0
      /\ \A c \in entries : Before(c, e) => Place(c, entries) < Place(e, entries)
  BY PlaceIs DEF Proper
<1>6. Place(e, entries) > start
  <2>1. CASE start = 0
    BY <1>5, <2>1
  <2>2. CASE start # 0
    <3>1. PICK d \in entries : d.id = cursor.id /\ Place(d, entries) = start
      BY <2>2 DEF ServedFrom
    <3>2. \A c \in entries : c.id = cursor.id => start <= Place(c, entries)
      BY <2>2 DEF ServedFrom
    <3>3. CASE ~reply.ambiguous
      <4>1. d.key = cursor.key
        BY <3>1, <3>3 DEF ServedFrom
      <4> QED
        BY <1>4, <1>5, <3>1, <4>1
    <3>4. CASE ~reply.lost
      <4>1. PICK c \in entries : c.key = cursor.key
        BY <3>4 DEF ServedFrom
      <4>2. start <= Place(c, entries) /\ Place(c, entries) < Place(e, entries)
        BY <1>4, <1>5, <3>2, <4>1
      <4> QED
        BY <1>5, <4>2
    <3> QED
      BY <3>3, <3>4
  <2> QED
    BY <2>1, <2>2
<1>7. \/ \E k \in DOMAIN page : page[k] = e.key
      \/ /\ reply.next # None
         /\ \E c \in entries : c.key = reply.next.key /\ Before(c, e)
  BY <1>6 DEF ServedFrom
<1> QED
  BY <1>7 DEF Proper, Keyed

\* What the server answers the only request goes on where the reader is.
LEMMA ServedIsAnswer ==
    ASSUME Inv, PagesInv, ~reader.overlapped, reader.list # None,
           NEW s \in DOMAIN open, NEW a, a.arg = open[s].arg, a.cursor = open[s].cursor,
           a.reply = Reply(reader.list, open[s].arg, open[s].cursor),
           a.reply \in Rows(Keys)
    PROVE  IsAnswer(a)
<1> DEFINE list == reader.list
           arg == a.arg
           cursor == a.cursor
           reply == a.reply
           entries == EntriesOf(list, arg)
           live == Live(list, arg)
<1>1. /\ PointsTyped /\ Asked(list, arg) /\ IsRequest(open[s])
      /\ cursor \in Cursor(Keys) \cup {None} /\ reader \in Reader(Keys)
  BY DEF Inv, PointsInv, PointsTyped, RequestsInv, IsRequest, Request
<1>2. ~NotFound(list, arg) /\ ~Incomparable(list, arg)
  <2>1. NoReply \notin Rows(Keys)
    BY NullAssumption DEF Rows, NoReply
  <2> QED
    BY <2>1 DEF Reply
<1>3. PICK start \in Nat : ServedFrom(start, entries, cursor, reply)
  BY <1>1, <1>2, ReplyIs
<1>4. Proper(entries) /\ \A e \in entries : e.id = IdOf(list, e.key)
  BY <1>1, <1>2, EntriesProper, EntryIs
<1>5. list # "global" => live = entries
  BY <1>2 DEF Live
<1>6. entries \subseteq live /\ Keyed(live) /\ Ordered(live)
  <2>1. CASE list = "global"
    <3>1. entries = FieldEntries(arg.of) /\ live = EveryField
      BY <2>1 DEF EntriesOf, Live
    <3> HIDE DEF entries, live
    <3> QED
      BY <3>1, EveryFieldProper, FieldEntriesProper
  <2>2. CASE list # "global"
    <3> HIDE DEF entries, live
    <3> QED
      BY <1>4, <1>5, <2>2 DEF Proper
  <2> QED
    BY <2>1, <2>2
<1> HIDE DEF entries, live
<1>7. EndsWith(reply.rows, reply.next)
  <2>1. SUFFICES ASSUME reply.next # None
                 PROVE  Len(reply.rows) > 0 /\ reply.rows[Len(reply.rows)] = reply.next.key
    BY DEF EndsWith
  <2>2. PICK c \in entries : /\ reply.next = [id |-> c.id, key |-> c.key]
                             /\ Len(reply.rows) > 0
                             /\ reply.rows[Len(reply.rows)] = c.key
    BY <1>3, <2>1 DEF ServedFrom
  <2>3. reply.next.key = c.key
    BY <2>2
  <2> QED
    BY <2>2, <2>3
<1>8. CASE cursor = None
  <2>1. InOrder(reply.rows, live)
    BY <1>3, <1>4, <1>6, PageInOrder
  <2>2. Covers(reply.rows, reply.next, reply.wanted, entries)
    BY <1>3, <1>4, <1>8, FirstPageCovers
  <2> QED
    BY <1>5, <1>7, <1>8, <2>1, <2>2 DEF IsAnswer, RowsAfter, FirstAfter, live
<1>9. CASE cursor # None
  <2>1. OneRequest(open[s])
    BY DEF PagesInv
  <2>2. reader.visible /\ cursor = reader.next /\ arg = reader.arg
    BY <1>1, <1>9, <2>1 DEF OneRequest, IsRequest
  <2>3. PastCursor(list, cursor)
    BY <1>1, <1>9 DEF IsRequest
  <2>4. \A e \in entries : e.key = cursor.key => e.id = cursor.id
    BY <1>4, <2>3 DEF PastCursor
  <2>5. reader.rows \in Seq(Keys) /\ EndsWith(reader.rows, cursor)
    BY <1>1, <2>2 DEF PagesInv, Reader
  <2>6. \/ reply.lost \/ reply.ambiguous \/ reader.lost \/ reader.ambiguous
        \/ InOrder(reader.rows \o reply.rows, live)
    <3>1. reader.lost \/ reader.ambiguous \/ InOrder(reader.rows, live)
      BY <2>2 DEF PagesInv, live
    <3> QED
      BY <1>3, <1>4, <1>6, <1>9, <2>4, <2>5, <3>1, NextPageInOrder
  <2>7. \/ list = "global" \/ (reply.lost /\ reply.ambiguous) \/ reader.astray
        \/ Covers(reader.rows \o reply.rows, reply.next, reader.first, live)
    <3>1. list = "global" \/ reader.astray
          \/ Covers(reader.rows, cursor, reader.first, live)
      BY <2>2 DEF PagesInv, live
    <3> QED
      BY <1>3, <1>4, <1>5, <1>9, <2>4, <2>5, <3>1, NextPageCovers
  <2> QED
    BY <1>7, <1>9, <2>6, <2>7 DEF IsAnswer, RowsAfter, FirstAfter, live
<1> QED
  BY <1>8, <1>9

\* Points that come and go leave it so.
LEMMA AnswerListsStay ==
    ASSUME PointsInv, PointsInv', PointsKept, RequestsInv, reader'.list = reader.list,
           NEW r, IsRequest(r), r.reply \in Rows(Keys)
    PROVE  /\ InOrder(RowsAfter(r), Live(reader.list, r.arg))
                 => InOrder(RowsAfter(r), Live(reader.list, r.arg)')
           /\ Covers(RowsAfter(r), r.reply.next, FirstAfter(r), Live(reader.list, r.arg))
                 => Covers(RowsAfter(r), r.reply.next, FirstAfter(r),
                           Live(reader.list, r.arg)')
<1> DEFINE rows == RowsAfter(r)
           first == FirstAfter(r)
           next == r.reply.next
<1>1. \A list, arg : Asked(list, arg) =>
         \A e \in Live(list, arg)' : Past(list, e.key) => e \in Live(list, arg)
  BY LiveStays
<1>2. PastReader /\ PastReply(reader.list, r.reply) /\ Asked(reader.list, r.arg)
      /\ reader.rows \in Seq(Keys) /\ r.reply.rows \in Seq(Keys)
  BY DEF RequestsInv, IsRequest, Reader, Rows
<1>3. ASSUME NEW k \in DOMAIN rows PROVE Past(reader.list, rows[k])
  <2>1. CASE r.cursor = None
    BY <1>2, <2>1 DEF PastReply, RowsAfter
  <2>2. CASE r.cursor # None
    <3> DEFINE a == reader.rows
               b == r.reply.rows
    <3>1. rows = a \o b
      BY <2>2 DEF RowsAfter
    <3>2. /\ \A i \in DOMAIN a : Past(reader.list, a[i])
          /\ \A i \in DOMAIN b : Past(reader.list, b[i])
      BY <1>2 DEF PastReader, PastReply
    <3>3. a \in Seq(Keys) /\ b \in Seq(Keys)
      BY <1>2
    <3> HIDE DEF rows, a, b
    <3>4. \/ k \in DOMAIN a /\ rows[k] = a[k]
          \/ k - Len(a) \in DOMAIN b /\ rows[k] = b[k - Len(a)]
      BY <1>3, <3>1, <3>3
    <3> QED
      BY <3>2, <3>4
  <2> QED
    BY <2>1, <2>2
<1>4. \A key \in first : Past(reader.list, key)
  BY <1>2 DEF PastReader, PastReply, FirstAfter
<1>5. next # None => Past(reader.list, next.key)
  BY <1>2 DEF PastReply, PastCursor
<1> HIDE DEF rows, first
<1>7. \A e \in Live(reader.list, r.arg)' :
         Past(reader.list, e.key) => e \in Live(reader.list, r.arg)
  BY <1>1, <1>2
<1>8. InOrder(rows, Live(reader.list, r.arg))
         => InOrder(rows, Live(reader.list, r.arg)')
  BY <1>3, <1>7, InOrderStays
<1>9. Covers(rows, next, first, Live(reader.list, r.arg))
         => Covers(rows, next, first, Live(reader.list, r.arg)')
  <2> HIDE DEF next
  <2> QED
    BY <1>4, <1>5, <1>7, CoversStays
<1> QED
  BY <1>8, <1>9 DEF rows, first

LEMMA AnswerStays ==
    ASSUME PointsInv, PointsInv', PointsKept, RequestsInv, UNCHANGED reader,
           NEW r, IsRequest(r), r.reply \in Rows(Keys), IsAnswer(r)
    PROVE  IsAnswer(r)'
<1>1. RowsAfter(r)' = RowsAfter(r) /\ FirstAfter(r)' = FirstAfter(r)
  BY DEF RowsAfter, FirstAfter
<1> QED
  BY <1>1, AnswerListsStay DEF IsAnswer

\* The same of what the reader has.
LEMMA ReaderStays ==
    ASSUME PointsInv, PointsInv', PointsKept, RequestsInv, reader.list # None
    PROVE  /\ InOrder(reader.rows, Live(reader.list, reader.arg)) =>
                 \A list, arg : list = reader.list /\ arg = reader.arg =>
                    InOrder(reader.rows, Live(list, arg)')
           /\ Covers(reader.rows, reader.next, reader.first,
                     Live(reader.list, reader.arg)) =>
                 \A list, arg : list = reader.list /\ arg = reader.arg =>
                    Covers(reader.rows, reader.next, reader.first, Live(list, arg)')
<1> SUFFICES ASSUME NEW list, NEW arg, list = reader.list, arg = reader.arg
             PROVE  /\ InOrder(reader.rows, Live(list, arg))
                          => InOrder(reader.rows, Live(list, arg)')
                    /\ Covers(reader.rows, reader.next, reader.first, Live(list, arg))
                          => Covers(reader.rows, reader.next, reader.first,
                                    Live(list, arg)')
  OBVIOUS
<1>1. Asked(list, arg) /\ PastReader
  BY DEF RequestsInv
<1>2. \A e \in Live(list, arg)' : Past(list, e.key) => e \in Live(list, arg)
  BY <1>1, LiveStays
<1>3. /\ \A k \in DOMAIN reader.rows : Past(list, reader.rows[k])
      /\ \A key \in reader.first : Past(list, key)
      /\ reader.next # None => Past(list, reader.next.key)
  BY <1>1 DEF PastReader, PastCursor
<1>4. InOrder(reader.rows, Live(list, arg)) => InOrder(reader.rows, Live(list, arg)')
  BY <1>2, <1>3, InOrderStays
<1>5. Covers(reader.rows, reader.next, reader.first, Live(list, arg))
         => Covers(reader.rows, reader.next, reader.first, Live(list, arg)')
  BY <1>2, <1>3, CoversStays
<1> QED
  BY <1>4, <1>5

LEMMA PagesNext == Inv /\ Inv' /\ PagesInv /\ [Next]_vars => PagesInv'
<1> SUFFICES ASSUME Inv, Inv', PagesInv, [Next]_vars PROVE PagesInv'
  OBVIOUS
<1>1. PointsInv /\ PointsInv' /\ PointsKept /\ RequestsInv /\ RequestsInv'
  BY PointsStay DEF Inv
<1>2. ASSUME reader'.list = reader.list, reader'.arg = reader.arg, reader.list # None
      PROVE  /\ InOrder(reader.rows, Live(reader.list, reader.arg))
                   => InOrder(reader.rows, Live(reader.list, reader.arg)')
             /\ Covers(reader.rows, reader.next, reader.first,
                       Live(reader.list, reader.arg))
                   => Covers(reader.rows, reader.next, reader.first,
                             Live(reader.list, reader.arg)')
  BY <1>1, <1>2, ReaderStays
<1>3. \A s \in DOMAIN open : IsRequest(open[s])
  BY <1>1 DEF RequestsInv
<1>4. ASSUME UNCHANGED reader, budget'.loads = budget.loads,
             DOMAIN open' \subseteq DOMAIN open, \A s \in DOMAIN open' : open'[s] = open[s]
      PROVE  PagesInv'
  <2> SUFFICES ASSUME ~reader.overlapped, reader.list # None PROVE PagesInv'
    BY <1>4 DEF PagesInv
  <2>1. ASSUME NEW s \in DOMAIN open'
        PROVE  /\ OneRequest(open[s])'
               /\ open'[s].reply \in Rows(Keys) => IsAnswer(open[s])'
    <3>1. s \in DOMAIN open /\ open'[s] = open[s]
      BY <1>4, <2>1
    <3>2. OneRequest(open[s]) /\ (open[s].reply \in Rows(Keys) => IsAnswer(open[s]))
      BY <3>1 DEF PagesInv
    <3>3. OneRequest(open[s])'
      BY <1>4, <3>1, <3>2 DEF OneRequest
    <3>4. open[s].reply \in Rows(Keys) => IsAnswer(open[s])'
      BY <1>1, <1>3, <1>4, <3>1, <3>2, AnswerStays
    <3> QED
      BY <3>1, <3>3, <3>4
  <2> QED
    BY <1>2, <1>4, <2>1 DEF PagesInv
<1>5. ASSUME NEW list \in Lists, NEW arg \in Arguments(list), Load(list, arg)
      PROVE  PagesInv'
  <2> SUFFICES ASSUME ~reader'.overlapped PROVE PagesInv'
    BY DEF PagesInv
  <2>1. /\ reader'.rows = <<>> /\ ~reader'.visible
        /\ reader'.overlapped = (DOMAIN open # {})
    BY <1>1, <1>5, LoadIs
  <2> DEFINE request == [arg |-> arg, cursor |-> None, load |-> budget'.loads, reply |-> None]
  <2>2. PICK slot \in (1 .. MaxOpen) \ DOMAIN open :
           /\ DOMAIN open' = DOMAIN open \cup {slot} /\ open'[slot] = request
           /\ \A s \in DOMAIN open : open'[s] = open[s]
    <3>1. DOMAIN open \subseteq 1 .. MaxOpen /\ DOMAIN open # 1 .. MaxOpen /\ Ask(arg, None)
      BY <1>1, <1>5 DEF Load, MayAsk, RequestsInv
    <3> QED
      BY <3>1, AskIs
  <2>3. DOMAIN open' = {slot}
    BY <2>1, <2>2
  <2>4. OneRequest(open[slot])' /\ open'[slot].reply \notin Rows(Keys)
    BY <2>1, <2>2, NullAssumption DEF OneRequest
  <2>5. InOrder(reader.rows, Live(reader.list, reader.arg))'
    BY <2>1 DEF InOrder
  <2> QED
    BY <2>1, <2>3, <2>4, <2>5 DEF PagesInv
<1>6. CASE LoadMore
  <2> SUFFICES ASSUME ~reader'.overlapped PROVE PagesInv'
    BY DEF PagesInv
  <2>1. /\ reader' = [reader EXCEPT !.overlapped = @ \/ DOMAIN open # {}]
        /\ reader.visible /\ reader.next # None
        /\ Ask(reader.arg, reader.next) /\ DOMAIN open # 1 .. MaxOpen
    BY <1>6 DEF LoadMore, MayAsk
  <2>2. reader \in Reader(Keys) /\ reader.list # None
    BY <1>1, <2>1 DEF RequestsInv, NoReader
  <2>3. /\ reader'.rows = reader.rows /\ reader'.list = reader.list
        /\ reader'.arg = reader.arg /\ reader'.next = reader.next
        /\ reader'.first = reader.first /\ reader'.visible = reader.visible
        /\ reader'.lost = reader.lost /\ reader'.ambiguous = reader.ambiguous
        /\ reader'.astray = reader.astray
    BY <2>1, <2>2 DEF Reader
  <2>4. reader'.overlapped = (reader.overlapped \/ DOMAIN open # {})
    BY <2>1, <2>2 DEF Reader
  <2> DEFINE request == [arg |-> reader.arg, cursor |-> reader.next,
                         load |-> budget'.loads, reply |-> None]
  <2>5. PICK slot \in (1 .. MaxOpen) \ DOMAIN open :
           /\ DOMAIN open' = DOMAIN open \cup {slot} /\ open'[slot] = request
           /\ \A s \in DOMAIN open : open'[s] = open[s]
    <3>1. DOMAIN open \subseteq 1 .. MaxOpen
      BY <1>1 DEF RequestsInv
    <3> QED
      BY <2>1, <3>1, AskIs
  <2>6. DOMAIN open' = {slot} /\ ~reader.overlapped
    BY <2>4, <2>5
  <2>7. OneRequest(open[slot])' /\ open'[slot].reply \notin Rows(Keys)
    BY <2>1, <2>3, <2>5, NullAssumption DEF OneRequest
  <2> QED
    BY <1>2, <2>1, <2>2, <2>3, <2>6, <2>7 DEF PagesInv
<1>7. ASSUME NEW s \in DOMAIN open, Serve(s) PROVE PagesInv'
  <2> DEFINE reply == Reply(reader.list, open[s].arg, open[s].cursor)
  <2>1. /\ open' = [open EXCEPT ![s].reply = reply]
        /\ UNCHANGED <<now, points, made, saved, reader, budget>>
    BY <1>7 DEF Serve
  <2> SUFFICES ASSUME ~reader.overlapped, reader.list # None PROVE PagesInv'
    BY <2>1 DEF PagesInv
  <2>2. open[s] \in Request(Keys) /\ OneRequest(open[s]) /\ \A t \in DOMAIN open : t = s
    BY <1>3 DEF IsRequest, PagesInv
  <2> HIDE DEF reply
  <2>3. /\ DOMAIN open' = DOMAIN open /\ open'[s].reply = reply
        /\ open'[s].arg = open[s].arg /\ open'[s].cursor = open[s].cursor
        /\ open'[s].load = open[s].load
    BY <2>1, <2>2 DEF Request
  <2>4. OneRequest(open[s])'
    BY <2>1, <2>2, <2>3 DEF OneRequest
  <2>5. ASSUME reply \in Rows(Keys) PROVE IsAnswer(open[s])'
    <3>1. PICK a : a = open'[s]
      OBVIOUS
    <3>2. IsAnswer(a)
      BY <2>3, <2>5, <3>1, ServedIsAnswer DEF reply
    <3>3. IsRequest(a)
      <4>1. IsRequest(open[s])'
        BY <1>1, <2>3 DEF RequestsInv
      <4>2. \A q : IsRequest(q)' <=> IsRequest(q)
        BY <2>1 DEF IsRequest, Asked, PastCursor, PastReply, Past
      <4> QED
        BY <3>1, <4>1, <4>2
    <3>4. IsAnswer(a)'
      BY <1>1, <2>1, <2>3, <2>5, <3>1, <3>2, <3>3, AnswerStays
    <3> QED
      BY <3>1, <3>4
  <2> QED
    BY <1>2, <2>1, <2>2, <2>3, <2>4, <2>5 DEF PagesInv
<1>8. ASSUME NEW s \in DOMAIN open, Deliver(s) PROVE PagesInv'
  <2>0. PICK r : r = open[s]
    OBVIOUS
  <2>1. /\ open' = Without(open, s) /\ reader' \in Reader(Keys)
        /\ reader'.list = reader.list /\ reader'.arg = reader.arg
        /\ reader'.overlapped = reader.overlapped
    BY <1>1, <1>8, DeliverIs
  <2> SUFFICES ASSUME ~reader.overlapped, reader.list # None PROVE PagesInv'
    BY <2>1 DEF PagesInv
  <2>2. OneRequest(r) /\ IsRequest(r) /\ \A t \in DOMAIN open : t = s
    BY <1>3, <2>0 DEF PagesInv
  <2>3. DOMAIN open' = {}
    BY <2>1, <2>2, WithoutIs
  <2>4. r.arg = reader.arg
    BY <2>2 DEF OneRequest, IsRequest
  <2>5. CASE r.reply \notin Rows(Keys)
    <3>1. reader' = [reader EXCEPT !.visible = FALSE] /\ reader \in Reader(Keys)
      BY <1>1, <1>8, <2>0, <2>5, DeliverIs DEF RequestsInv
    <3>2. /\ reader'.rows = reader.rows /\ reader'.lost = reader.lost
          /\ reader'.ambiguous = reader.ambiguous /\ ~reader'.visible
      BY <3>1 DEF Reader
    <3> QED
      BY <1>2, <2>1, <2>3, <3>2 DEF PagesInv
  <2>6. CASE r.reply \in Rows(Keys)
    <3>1. IsAnswer(r)
      BY <2>0, <2>6 DEF PagesInv
    <3>2. /\ reader'.rows = IF r.cursor = None THEN r.reply.rows
                            ELSE reader.rows \o r.reply.rows
          /\ reader'.next = r.reply.next
          /\ reader'.first = IF r.cursor = None THEN r.reply.wanted ELSE reader.first
          /\ reader'.lost = (r.reply.lost \/ (r.cursor # None /\ reader.lost))
          /\ reader'.ambiguous = (r.reply.ambiguous
                                  \/ (r.cursor # None /\ reader.ambiguous))
          /\ reader'.astray = ((r.reply.lost /\ r.reply.ambiguous)
                               \/ (r.cursor # None /\ reader.astray))
      BY <1>1, <1>8, <2>0, <2>6, DeliverIs
    <3>3. reader'.rows = RowsAfter(r) /\ reader'.first = FirstAfter(r)
      BY <3>2 DEF RowsAfter, FirstAfter
    <3>4. EndsWith(r.reply.rows, r.reply.next)
      BY <3>1 DEF IsAnswer
    <3>5. EndsWith(reader.rows, reader.next)'
      <4>1. reader.rows \in Seq(Keys) /\ r.reply.rows \in Seq(Keys)
        BY <1>1, <2>6 DEF RequestsInv, Reader, Rows
      <4>2. SUFFICES ASSUME r.reply.next # None
                     PROVE  /\ Len(reader'.rows) > 0
                            /\ reader'.rows[Len(reader'.rows)] = r.reply.next.key
        BY <3>2 DEF EndsWith
      <4> DEFINE a == reader.rows
                 b == r.reply.rows
      <4>3. a \in Seq(Keys) /\ b \in Seq(Keys) /\ Len(b) > 0 /\ b[Len(b)] = r.reply.next.key
        BY <3>4, <4>1, <4>2 DEF EndsWith
      <4>4. reader'.rows = b \/ reader'.rows = a \o b
        BY <3>2
      <4> HIDE DEF a, b
      <4>5. Len(a \o b) > 0 /\ (a \o b)[Len(a \o b)] = b[Len(b)]
        BY <4>3
      <4> QED
        BY <4>3, <4>4, <4>5
    <3>6. /\ InOrder(RowsAfter(r), Live(reader.list, r.arg))
                => InOrder(RowsAfter(r), Live(reader.list, r.arg)')
          /\ Covers(RowsAfter(r), r.reply.next, FirstAfter(r), Live(reader.list, r.arg))
                => Covers(RowsAfter(r), r.reply.next, FirstAfter(r),
                          Live(reader.list, r.arg)')
      BY <1>1, <2>1, <2>2, <2>6, AnswerListsStay
    <3>7. \/ reader'.lost \/ reader'.ambiguous
          \/ InOrder(reader.rows, Live(reader.list, reader.arg))'
      BY <2>1, <2>4, <3>1, <3>2, <3>3, <3>6 DEF IsAnswer
    <3>8. \/ reader.list = "global" \/ reader'.astray
          \/ Covers(reader.rows, reader.next, reader.first,
                    Live(reader.list, reader.arg))'
      BY <2>1, <2>4, <3>1, <3>2, <3>3, <3>6 DEF IsAnswer
    <3> QED
      BY <2>1, <2>3, <3>5, <3>7, <3>8 DEF PagesInv
  <2> QED
    BY <2>5, <2>6
<1>9. ASSUME NEW s \in DOMAIN open, Fail(s) PROVE PagesInv'
  <2>1. /\ open' = Without(open, s) /\ UNCHANGED reader
        /\ budget' = [budget EXCEPT !.failures = @ - 1]
    BY <1>9 DEF Fail
  <2>2. DOMAIN open' \subseteq DOMAIN open /\ \A t \in DOMAIN open' : open'[t] = open[t]
    BY <2>1, WithoutIs
  <2>3. budget'.loads = budget.loads
    BY <1>1, <2>1 DEF RequestsInv
  <2> QED
    BY <1>4, <2>1, <2>2, <2>3
<1>10. CASE CrashAndRestart
  <2>1. /\ open' = [s \in {t \in DOMAIN open : open[t].reply # None} |-> open[s]]
        /\ UNCHANGED reader /\ budget' = [budget EXCEPT !.failures = @ - 1]
    BY <1>10 DEF CrashAndRestart
  <2>2. DOMAIN open' \subseteq DOMAIN open /\ \A t \in DOMAIN open' : open'[t] = open[t]
    BY <2>1
  <2>3. budget'.loads = budget.loads
    BY <1>1, <2>1 DEF RequestsInv
  <2> QED
    BY <1>4, <2>1, <2>2, <2>3
<1>11. CASE UNCHANGED <<reader, open, budget>>
  BY <1>4, <1>11
<1>12. ASSUME NEW conn \in Conns, WritePoint(conn) PROVE PagesInv'
  <2>1. budget'.loads = budget.loads
    BY <1>1, <1>12 DEF WritePoint, ReadClock, RequestsInv
  <2> QED
    BY <1>4, <1>12, <2>1 DEF WritePoint
<1> QED
  BY <1>5, <1>6, <1>7, <1>8, <1>9, <1>10, <1>11, <1>12
  DEF Next, vars, Autosave

LEMMA PagesInit == Init => PagesInv
  BY DEF Init, NoReader, PagesInv

LEMMA PagesAlways == Spec => []PagesInv
<1>1. Inv /\ Inv' /\ PagesInv /\ [Next]_vars => PagesInv'
  BY PagesNext
<1> QED
  BY <1>1, PagesInit, InvAlways, PTL DEF Spec

LEMMA EndHoldsAll == Inv /\ PagesInv => NothingSkipped
<1> SUFFICES ASSUME Inv, PagesInv, AtEnd, ~NotFound(reader.list, reader.arg),
                    ~reader.overlapped, ~reader.astray, reader.list # "global",
                    NEW key \in reader.first \cap Wanted(reader.list, reader.arg)
             PROVE  key \in Shown
  BY DEF NothingSkipped
<1>1. reader.visible /\ reader.next = None
  BY DEF AtEnd
<1>2. reader.list # None
  BY <1>1 DEF Inv, RequestsInv, NoReader
<1>3. PointsTyped /\ Asked(reader.list, reader.arg)
  BY <1>2 DEF Inv, PointsInv, PointsTyped, RequestsInv
<1>4. PICK e \in EntriesOf(reader.list, reader.arg) : e.key = key
  BY <1>3, WantedIs
<1>5. e \in Live(reader.list, reader.arg)
  BY <1>4 DEF Live
<1>6. Covers(reader.rows, reader.next, reader.first, Live(reader.list, reader.arg))
  BY <1>1, <1>2 DEF PagesInv
<1>7. \E k \in DOMAIN reader.rows : reader.rows[k] = key
  BY <1>1, <1>4, <1>5, <1>6 DEF Covers
<1> QED
  BY <1>7 DEF Shown, ToSet

\* Whoever follows the cursors to the end has seen everything that was in the
\* list at the first page and still is: whatever runs write meanwhile and a
\* restart loses, also the entry of a cursor, unless another has its id.
THEOREM NothingSkippedAtEnd == Spec => []NothingSkipped
  BY InvAlways, PagesAlways, EndHoldsAll, PTL

\* As many entries as there are rows.
LEMMA DifferentRows ==
    ASSUME NEW rows \in Seq(Keys),
           \A i, j \in DOMAIN rows : i < j => rows[i] # rows[j]
    PROVE  Cardinality(ToSet(rows)) = Len(rows)
<1> DEFINE n == Len(rows)
<1>1. n \in Nat /\ DOMAIN rows = 1 .. n
  OBVIOUS
<1>2. ToSet(rows) = {rows[k] : k \in 1 .. n}
  BY <1>1 DEF ToSet
<1>3. \A i, j \in 1 .. n : rows[i] = rows[j] => i = j
  <2> SUFFICES ASSUME NEW i \in 1 .. n, NEW j \in 1 .. n, i # j PROVE rows[i] # rows[j]
    OBVIOUS
  <2>1. i < j \/ j < i
    OBVIOUS
  <2> QED
    BY <1>1, <2>1
<1>4. rows \in Bijection(1 .. n, ToSet(rows))
  <2>1. rows \in [1 .. n -> ToSet(rows)]
    BY <1>1, <1>2
  <2>2. rows \in Injection(1 .. n, ToSet(rows))
    <3> HIDE DEF n
    <3> QED
      BY <1>3, <2>1 DEF Injection, IsInjective
  <2>3. rows \in Surjection(1 .. n, ToSet(rows))
    <3> HIDE DEF n
    <3> QED
      BY <1>2, <2>1 DEF Surjection
  <2> QED
    BY <2>2, <2>3 DEF Bijection
<1>5. IsFiniteSet(1 .. n) /\ Cardinality(1 .. n) = n
  <2>1. 1 \in Int /\ n \in Int
    BY <1>1
  <2> HIDE DEF n
  <2>2. /\ IsFiniteSet(1 .. n)
        /\ Cardinality(1 .. n) = IF 1 > n THEN 0 ELSE n - 1 + 1
    BY <2>1, FS_Interval, Zenon
  <2> QED
    BY <1>1, <2>2
<1>6. ExistsBijection(1 .. n, ToSet(rows))
  BY <1>4 DEF ExistsBijection
<1> HIDE DEF n
<1>7. Cardinality(1 .. n) = Cardinality(ToSet(rows))
  BY <1>5, <1>6, FS_Bijection
<1> QED
  BY <1>5, <1>7 DEF n

LEMMA RowsDiffer == Inv /\ PagesInv => NothingTwice
<1> SUFFICES ASSUME Inv, PagesInv,
                    ~(reader.overlapped \/ reader.lost \/ reader.ambiguous)
             PROVE  Cardinality(Shown) = Len(reader.rows)
  BY DEF NothingTwice
<1>1. reader.rows \in Seq(Keys)
  BY DEF Inv, RequestsInv, Reader
<1>2. \A i, j \in DOMAIN reader.rows : i < j => reader.rows[i] # reader.rows[j]
  <2>1. CASE reader.list = None
    <3>1. reader.rows = <<>>
      BY <2>1 DEF Inv, RequestsInv, NoReader
    <3> QED
      BY <3>1
  <2>2. CASE reader.list # None
    BY <2>2 DEF PagesInv, InOrder
  <2> QED
    BY <2>1, <2>2
<1> QED
  BY <1>1, <1>2, DifferentRows DEF Shown

\* No entry is shown twice, whatever is written between two pages, unless
\* requests overlapped, the entry of a cursor is gone, or its id is not its own.
THEOREM NothingShownTwice == Spec => []NothingTwice
  BY InvAlways, PagesAlways, RowsDiffer, PTL
=============================================================================
