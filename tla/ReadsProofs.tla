---------------------------- MODULE ReadsProofs ----------------------------
(***************************************************************************)
(* Proofs about reading claims, for any number of tenants, members,        *)
(* claims, connections, clients and concurrent writes and any page size.   *)
(* The first part says what ORDER BY, LIMIT and a cursor return; the       *)
(* second that ReadsInv is inductive.                                      *)
(***************************************************************************)
EXTENDS Reads, FiniteSetTheorems, TLAPS

-----------------------------------------------------------------------------
(* Sorting.                                                                *)

\* The row comparison is a strict total order.
LEMMA KeyOrder ==
    ASSUME NEW a \in Keys, NEW b \in Keys
    PROVE  /\ ~Less(a, a)
           /\ Less(a, b) => ~Less(b, a)
           /\ a # b => Less(a, b) \/ Less(b, a)
           /\ \A c \in Keys : Less(a, b) /\ Less(b, c) => Less(a, c)
<1>1. a[1] \in Nat /\ a[2] \in Nat /\ b[1] \in Nat /\ b[2] \in Nat
  BY Zenon, ReadsAssumption DEF Keys
<1>2. a # b => a[1] # b[1] \/ a[2] # b[2]
  BY DEF Keys
<1>3. ASSUME NEW c \in Keys, Less(a, b), Less(b, c) PROVE Less(a, c)
  <2>1. c[1] \in Nat /\ c[2] \in Nat
    BY Zenon, ReadsAssumption DEF Keys
  <2> QED
    BY <1>1, <1>3, <2>1 DEF Less
<1> QED
  BY <1>1, <1>2, <1>3 DEF Less

\* How many elements of S the relation R puts before k.
Before(S, R, k) == {j \in S : <<j, k>> \in R}

\* In a finite set under a strict total order every rank is taken, and a rank
\* tells where an element stands.
LEMMA Ranks ==
    ASSUME NEW S, IsFiniteSet(S), NEW R,
           \A a \in S : <<a, a>> \notin R,
           \A a, b \in S : a # b => <<a, b>> \in R \/ <<b, a>> \in R,
           \A a, b, c \in S : <<a, b>> \in R /\ <<b, c>> \in R => <<a, c>> \in R
    PROVE  /\ \A i \in 1 .. Cardinality(S) :
                 \E k \in S : Cardinality(Before(S, R, k)) = i - 1
           /\ \A a, b \in S :
                 Cardinality(Before(S, R, a)) < Cardinality(Before(S, R, b)) <=> <<a, b>> \in R
           /\ \A a \in S : Cardinality(Before(S, R, a)) + 1 \in 1 .. Cardinality(S)
<1> DEFINE rank(k) == Cardinality(Before(S, R, k))
           n == Cardinality(S)
           f == [k \in S |-> rank(k) + 1]
<1>1. n \in Nat
  BY FS_CardinalityType
<1>2. ASSUME NEW k \in S PROVE rank(k) \in Nat /\ rank(k) < n /\ IsFiniteSet(Before(S, R, k))
  <2>1. Before(S, R, k) \in SUBSET S /\ k \notin Before(S, R, k)
    BY DEF Before
  <2>2. IsFiniteSet(Before(S, R, k)) /\ rank(k) <= n /\ n # rank(k)
    BY <2>1, FS_Subset
  <2>3. rank(k) \in Nat
    BY <2>2, FS_CardinalityType
  <2> QED
    BY <1>1, <2>2, <2>3
<1>3. ASSUME NEW a \in S, NEW b \in S, <<a, b>> \in R PROVE rank(a) < rank(b)
  <2>1. Before(S, R, a) \in SUBSET Before(S, R, b)
    BY <1>3 DEF Before
  <2>2. a \in Before(S, R, b) /\ a \notin Before(S, R, a)
    BY <1>3 DEF Before
  <2>3. rank(a) <= rank(b) /\ rank(a) # rank(b)
    BY <1>2, <2>1, <2>2, FS_Subset
  <2> QED
    BY <1>2, <2>3
<1>4. ASSUME NEW a \in S, NEW b \in S, rank(a) < rank(b) PROVE <<a, b>> \in R
  <2>1. a # b /\ ~(rank(b) < rank(a))
    BY <1>2, <1>4
  <2>2. <<b, a>> \notin R
    BY <1>3, <2>1
  <2> QED
    BY <2>1, <2>2
<1>5. f \in Injection(S, 1 .. n)
  <2>1. f \in [S -> 1 .. n]
    BY <1>1, <1>2
  <2>2. ASSUME NEW a \in S, NEW b \in S, f[a] = f[b] PROVE a = b
    <3>1. rank(a) = rank(b)
      BY <1>2, <2>2
    <3>2. ~(rank(a) < rank(b)) /\ ~(rank(b) < rank(a))
      BY <1>2, <3>1
    <3>3. <<a, b>> \notin R /\ <<b, a>> \notin R
      BY <1>3, <3>2
    <3> QED
      BY <3>3
  <2> QED
    BY <2>1, <2>2 DEF Injection, IsInjective
<1>6. IsFiniteSet(1 .. n) /\ Cardinality(1 .. n) = n
  BY <1>1, FS_Interval
<1>7. f \in Surjection(S, 1 .. n)
  BY <1>5, <1>6, FS_Injection
<1>8. ASSUME NEW i \in 1 .. n PROVE \E k \in S : rank(k) = i - 1
  <2>1. PICK k \in S : f[k] = i
    BY Zenon, <1>7 DEF Surjection
  <2>2. rank(k) = i - 1
    BY <1>2, <2>1
  <2> QED
    BY <2>2
<1> HIDE DEF f
<1> QED
  BY <1>1, <1>2, <1>3, <1>4, <1>8

\* q lists the elements of S in the order R, each once.
Lists(q, S, R) ==
    /\ q \in Seq(S)
    /\ Range(q) = S
    /\ \A i, j \in DOMAIN q : i < j => <<q[i], q[j]>> \in R

\* A sequence of the elements by rank.
LEMMA RankedSequence ==
    ASSUME NEW S, IsFiniteSet(S), NEW R,
           \A a \in S : <<a, a>> \notin R,
           \A a, b \in S : a # b => <<a, b>> \in R \/ <<b, a>> \in R,
           \A a, b, c \in S : <<a, b>> \in R /\ <<b, c>> \in R => <<a, c>> \in R,
           NEW q \in [1 .. Cardinality(S) -> S],
           \A i \in 1 .. Cardinality(S) : Cardinality(Before(S, R, q[i])) = i - 1
    PROVE  Lists(q, S, R)
<1> DEFINE rank(k) == Cardinality(Before(S, R, k))
           n == Cardinality(S)
<1>1. n \in Nat
  BY FS_CardinalityType
<1>2. \A a, b \in S : rank(a) < rank(b) <=> <<a, b>> \in R
  BY Zenon, Ranks
<1>3. \A a \in S : rank(a) + 1 \in 1 .. n
  BY Zenon, Ranks
<1>4. \A a \in S : rank(a) \in Nat
  <2> TAKE a \in S
  <2>1. Before(S, R, a) \in SUBSET S
    BY DEF Before
  <2> QED
    BY <2>1, FS_Subset, FS_CardinalityType
<1>5. \A i \in 1 .. n : q[i] \in S /\ rank(q[i]) = i - 1
  OBVIOUS
<1>6. q \in [1 .. n -> S]
  OBVIOUS
<1>7. \A a, b \in S : a # b => <<a, b>> \in R \/ <<b, a>> \in R
  BY Zenon
<1> HIDE DEF rank, n
<1>8. q \in Seq(S)
  BY <1>1, <1>6
<1>9. ASSUME NEW i \in 1 .. n, NEW j \in 1 .. n, i < j PROVE <<q[i], q[j]>> \in R
  <2>1. rank(q[i]) < rank(q[j])
    BY <1>1, <1>5, <1>9
  <2> QED
    BY <1>2, <1>5, <2>1
<1>10. ASSUME NEW a \in S PROVE \E i \in 1 .. n : q[i] = a
  <2> DEFINE i == rank(a) + 1
  <2>1. i \in 1 .. n /\ rank(a) = i - 1
    BY <1>1, <1>3, <1>4
  <2> HIDE DEF i
  <2>2. q[i] \in S /\ rank(q[i]) = rank(a)
    BY <1>5, <2>1
  <2>3. ~(rank(q[i]) < rank(a)) /\ ~(rank(a) < rank(q[i]))
    BY <1>4, <2>2
  <2>4. q[i] = a
    BY Zenon, <1>2, <1>7, <2>2, <2>3
  <2> QED
    BY <2>1, <2>4
<1>11. Range(q) = S
  <2>1. DOMAIN q = 1 .. n
    BY <1>6
  <2>2. Range(q) = {q[i] : i \in 1 .. n}
    BY <2>1 DEF Range
  <2> QED
    BY <1>5, <1>10, <2>2
<1> QED
  BY Zenon, <1>6, <1>8, <1>9, <1>11 DEF Lists

\* The rows of a table in ascending and in descending order of their keys.
Ascending(S) == {p \in S \X S : Less(p[1], p[2])}

Descending(S) == {p \in S \X S : Greater(p[1], p[2])}

LEMMA SortedAscending ==
    ASSUME NEW S \in SUBSET Keys, IsFiniteSet(S)
    PROVE  Lists(Sorted(S, Less), S, Ascending(S))
<1> DEFINE R == Ascending(S)
           q == Sorted(S, Less)
<1>1. /\ \A a \in S : <<a, a>> \notin R
      /\ \A a, b \in S : a # b => <<a, b>> \in R \/ <<b, a>> \in R
      /\ \A a, b, c \in S : <<a, b>> \in R /\ <<b, c>> \in R => <<a, c>> \in R
  <2>1. \A a, b \in S : <<a, b>> \in R <=> Less(a, b)
    BY DEF Ascending
  <2> HIDE DEF R
  <2> QED
    BY <2>1, KeyOrder
<1>2. \A k \in S : Before(S, R, k) = {j \in S : Less(j, k)}
  BY DEF Before, Ascending
<1>3. q = [i \in 1 .. Cardinality(S) |->
            CHOOSE k \in S : Cardinality({j \in S : Less(j, k)}) = i - 1]
  BY DEF Sorted
<1> HIDE DEF R, q
<1>4. ASSUME NEW i \in 1 .. Cardinality(S)
      PROVE  q[i] \in S /\ Cardinality(Before(S, R, q[i])) = i - 1
  <2>1. PICK k \in S : Cardinality(Before(S, R, k)) = i - 1
    BY <1>1, Ranks
  <2>2. q[i] = CHOOSE l \in S : Cardinality({j \in S : Less(j, l)}) = i - 1
    BY Zenon, <1>3
  <2>3. q[i] \in S /\ Cardinality({j \in S : Less(j, q[i])}) = i - 1
    BY Zenon, <1>2, <2>1, <2>2
  <2> QED
    BY <1>2, <2>3
<1>5. q \in [1 .. Cardinality(S) -> S]
  BY Zenon, <1>3, <1>4
<1> QED
  BY Zenon, <1>1, <1>4, <1>5, RankedSequence DEF R, q

LEMMA SortedDescending ==
    ASSUME NEW S \in SUBSET Keys, IsFiniteSet(S)
    PROVE  Lists(Sorted(S, Greater), S, Descending(S))
<1> DEFINE R == Descending(S)
           q == Sorted(S, Greater)
<1>1. /\ \A a \in S : <<a, a>> \notin R
      /\ \A a, b \in S : a # b => <<a, b>> \in R \/ <<b, a>> \in R
      /\ \A a, b, c \in S : <<a, b>> \in R /\ <<b, c>> \in R => <<a, c>> \in R
  <2>1. \A a, b \in S : <<a, b>> \in R <=> Greater(a, b)
    BY DEF Descending
  <2> HIDE DEF R
  <2> QED
    BY <2>1, KeyOrder DEF Greater
<1>2. \A k \in S : Before(S, R, k) = {j \in S : Greater(j, k)}
  BY DEF Before, Descending
<1>3. q = [i \in 1 .. Cardinality(S) |->
            CHOOSE k \in S : Cardinality({j \in S : Greater(j, k)}) = i - 1]
  BY DEF Sorted
<1> HIDE DEF R, q
<1>4. ASSUME NEW i \in 1 .. Cardinality(S)
      PROVE  q[i] \in S /\ Cardinality(Before(S, R, q[i])) = i - 1
  <2>1. PICK k \in S : Cardinality(Before(S, R, k)) = i - 1
    BY <1>1, Ranks
  <2>2. q[i] = CHOOSE l \in S : Cardinality({j \in S : Greater(j, l)}) = i - 1
    BY Zenon, <1>3
  <2>3. q[i] \in S /\ Cardinality({j \in S : Greater(j, q[i])}) = i - 1
    BY <1>2, <2>1, <2>2
  <2> QED
    BY <1>2, <2>3
<1>5. q \in [1 .. Cardinality(S) -> S]
  BY Zenon, <1>3, <1>4
<1> QED
  BY Zenon, <1>1, <1>4, <1>5, RankedSequence DEF R, q

-----------------------------------------------------------------------------
(* Pages.                                                                  *)

\* A cursor is the key it was made of, without its fraction of a second.
LEMMA Encoded ==
    ASSUME NEW k \in Keys
    PROVE  /\ Encode(k) \in Keys
           /\ Encode(k)[1] <= k[1] /\ Encode(k)[2] = k[2]
           /\ k[1] % TicksPerSecond = 0 => Encode(k) = k
<1>1. k[1] \in Nat /\ k[2] \in Claim /\ k = <<k[1], k[2]>> /\ TicksPerSecond \in Nat \ {0}
  BY ReadsAssumption DEF Keys
<1> DEFINE n == k[1]
           m == (n \div TicksPerSecond) * TicksPerSecond
<1>2. m \in Nat /\ m <= n
  BY <1>1
<1>3. n % TicksPerSecond = 0 => m = n
  BY <1>1
<1>4. Encode(k) = <<m, k[2]>>
  BY DEF Encode
<1> HIDE DEF m
<1> QED
  BY <1>1, <1>2, <1>3, <1>4 DEF Keys

\* All of S, or those of S up to the one the cursor is made from.
FirstOf(p, S, R) ==
    /\ p.items \in Seq(S)
    /\ p.next = NULL => Range(p.items) = S
    /\ p.next # NULL =>
          \E x \in Range(p.items) :
             /\ p.next = Encode(x)
             /\ \A k \in Range(p.items) : k = x \/ <<k, x>> \in R
             /\ \A k \in S : k \in Range(p.items) \/ <<x, k>> \in R

\* A page of a listing is the listing's beginning: all of it if there is no
\* cursor for more, and otherwise up to the row x the cursor was made of.
LEMMA PageOfList ==
    ASSUME NEW S \in SUBSET Keys, NEW R, NEW q, Lists(q, S, R),
           NEW p, p = NewPage(Upto(q, PageSize + 1))
    PROVE  FirstOf(p, S, R)
<1> DEFINE n == Len(q)
           rows == Upto(q, PageSize + 1)
<1>1. q \in Seq(S) /\ n \in Nat /\ DOMAIN q = 1 .. n /\ Range(q) = S
  BY DEF Lists
<1>2. \A i, j \in 1 .. n : i < j => <<q[i], q[j]>> \in R
  BY Zenon, <1>1 DEF Lists
<1>3. PageSize \in Nat /\ PageSize >= 1
  BY ReadsAssumption
<1>4. \A i \in 1 .. n : q[i] \in S
  BY <1>1
<1>5. CASE n <= PageSize
  <2>1. rows = SubSeq(q, 1, n)
    <3>1. Len(q) < PageSize + 1
      BY <1>1, <1>3, <1>5
    <3> QED
      BY <3>1 DEF Upto
  <2>2. SubSeq(q, 1, n) = q
    BY <1>1
  <2>3. p = [items |-> q, next |-> NULL]
    BY <1>5, <2>1, <2>2 DEF NewPage
  <2> QED
    BY <1>1, <2>3 DEF FirstOf
<1>6. CASE n > PageSize
  <2> DEFINE x == q[PageSize]
             items == SubSeq(q, 1, PageSize)
  <2>1. rows = SubSeq(q, 1, PageSize + 1)
    BY <1>1, <1>3, <1>6 DEF Upto
  <2>2. Len(rows) = PageSize + 1 /\ \A i \in 1 .. PageSize + 1 : rows[i] = q[i]
    BY <1>1, <1>3, <1>6, <2>1
  <2>3. rows \in Seq(S)
    BY <1>1, <1>3, <1>6, <2>1
  <2>4. p = [items |-> SubSeq(rows, 1, PageSize), next |-> Encode(rows[PageSize])]
    BY <1>3, <2>2 DEF NewPage
  <2> HIDE DEF rows
  <2>5. SubSeq(rows, 1, PageSize) = items
    BY <1>1, <1>3, <1>6, <2>2, <2>3
  <2>6. items \in Seq(S) /\ Len(items) = PageSize /\ \A i \in 1 .. PageSize : items[i] = q[i]
    BY <1>1, <1>3, <1>6
  <2>7. Range(items) = {q[i] : i \in 1 .. PageSize}
    BY <2>6 DEF Range
  <2>8. p.items = items /\ p.next = Encode(x)
    BY <1>3, <2>2, <2>4, <2>5
  <2>9. x \in Range(items) /\ x \in S
    BY <1>3, <1>4, <1>6, <2>7
  <2>10. Encode(x) # NULL
    BY <2>9, Encoded, ReadsAssumption DEF Keys
  <2>11. ASSUME NEW k \in Range(items) PROVE k = x \/ <<k, x>> \in R
    <3>1. PICK i \in 1 .. PageSize : k = q[i]
      BY <2>7
    <3>2. i = PageSize \/ i < PageSize
      BY <1>3
    <3> QED
      BY <1>1, <1>2, <1>3, <1>6, <3>1, <3>2
  <2>12. ASSUME NEW k \in S PROVE k \in Range(items) \/ <<x, k>> \in R
    <3>1. PICK i \in 1 .. n : k = q[i]
      BY <1>1 DEF Range
    <3>2. i \in 1 .. PageSize \/ PageSize < i
      BY <1>1, <1>3
    <3>3. PageSize \in 1 .. n
      BY <1>1, <1>3, <1>6
    <3> QED
      BY <1>2, <2>7, <3>1, <3>2, <3>3
  <2> HIDE DEF items, x
  <2> QED
    BY <2>6, <2>8, <2>9, <2>10, <2>11, <2>12 DEF FirstOf
<1> QED
  BY <1>1, <1>3, <1>5, <1>6

\* The keys of a query's result.
LEMMA FoundKeys ==
    ASSUME NEW d \in Tables, NEW t, NEW s, NEW f, NEW dept
    PROVE  /\ Found(t, s, d, f) \subseteq Claim
           /\ ByDate(Found(t, s, d, f)) \in SUBSET Keys
           /\ IsFiniteSet(ByDate(Found(t, s, d, f)))
           /\ Queued(t, s, d, dept) \in SUBSET Keys
           /\ IsFiniteSet(Queued(t, s, d, dept))
<1> DEFINE C == Found(t, s, d, f)
           Q == {c \in Found(t, s, d, [dept |-> dept, submitter |-> NULL]) :
                    d.status[c] = "pending_approval"}
<1>1. C \subseteq Claim /\ Q \subseteq Claim
  BY DEF Found, Rows
<1>2. IsFiniteSet(C) /\ IsFiniteSet(Q)
  BY <1>1, FS_Subset, ReadsAssumption
<1>3. /\ ByDate(C) = {<<Filed[c].spent, c>> : c \in C}
      /\ Queued(t, s, d, dept) = {<<d.submitted[c], c>> : c \in Q}
  BY DEF ByDate, Queued
<1> HIDE DEF C, Q
<1>4. ByDate(C) \in SUBSET Keys
  BY <1>1, <1>3, ReadsAssumption DEF Keys
<1>5. Queued(t, s, d, dept) \in SUBSET Keys
  <2>1. \A c \in Claim : d.submitted[c] \in Nat
    BY ReadsAssumption DEF Tables
  <2> QED
    BY <1>1, <1>3, <2>1 DEF Keys
<1>6. IsFiniteSet(ByDate(C))
  <2>1. [c \in C |-> <<Filed[c].spent, c>>] \in Surjection(C, ByDate(C))
    BY <1>3 DEF Surjection
  <2> QED
    BY <1>2, <2>1, FS_Surjection
<1>7. IsFiniteSet(Queued(t, s, d, dept))
  <2>1. [c \in Q |-> <<d.submitted[c], c>>] \in Surjection(Q, Queued(t, s, d, dept))
    BY Zenon, <1>3 DEF Surjection
  <2> QED
    BY <1>2, <2>1, FS_Surjection
<1> QED
  BY <1>1, <1>4, <1>5, <1>6, <1>7 DEF C

\* A page: rows found after the cursor, and the rest of them after the new one.
\* On the claim list that one is the last row's key, because dates are whole
\* seconds.  On the queue it may be earlier, so that rows of the page may be
\* ahead of it as well.
PageOf(kind, p, found, cursor) ==
    /\ p.items \in Seq(Keys) /\ p.next \in Keys \cup {NULL}
    /\ Range(p.items) \subseteq found
    /\ \A k \in found : Ahead(kind, cursor, k) =>
          k \in Range(p.items) \/ (p.next # NULL /\ Ahead(kind, p.next, k))
    /\ kind = "list" =>
          /\ \A k \in Range(p.items) : Ahead("list", cursor, k)
          /\ p.next # NULL =>
                /\ Ahead("list", cursor, p.next)
                /\ \A k \in Range(p.items) : ~Less(k, p.next)

LEMMA ListPage ==
    ASSUME NEW d \in Tables, NEW t, NEW s, NEW f, NEW cursor \in Keys \cup {NULL},
           NEW p, p = NewPage(ListExpenses(t, s, d, f, cursor, PageSize + 1))
    PROVE  PageOf("list", p, ByDate(Found(t, s, d, f)), cursor)
<1> DEFINE found == ByDate(Found(t, s, d, f))
           S == {k \in found : cursor = NULL \/ Less(k, cursor)}
           q == Sorted(S, Greater)
<1> SUFFICES PageOf("list", p, found, cursor)
  OBVIOUS
<1>1. found \in SUBSET Keys /\ IsFiniteSet(found)
  BY Zenon, FoundKeys
<1>2. S \in SUBSET Keys /\ S \in SUBSET found /\ IsFiniteSet(S)
  BY <1>1, FS_Subset
<1>3. Lists(q, S, Descending(S))
  BY <1>2, SortedDescending
<1>4. p = NewPage(Upto(q, PageSize + 1))
  BY DEF ListExpenses
<1>5. \A k \in found : Ahead("list", cursor, k) <=> k \in S
  BY DEF Ahead
<1>6. \A k \in found : Encode(k) = k
  <2> TAKE k \in found
  <2>1. PICK c \in Claim : k = <<Filed[c].spent, c>>
    BY Zenon, FoundKeys DEF ByDate
  <2>2. k[1] % TicksPerSecond = 0
    BY <2>1, ReadsAssumption
  <2> QED
    BY <1>1, <2>2, Encoded
<1> HIDE DEF found, S, q
<1>7. FirstOf(p, S, Descending(S))
  BY Zenon, <1>2, <1>3, <1>4, PageOfList
<1>8. Range(p.items) \subseteq S /\ p.items \in Seq(Keys)
  BY <1>2, <1>7 DEF FirstOf, Range
<1>9. CASE p.next = NULL
  BY Zenon, <1>2, <1>5, <1>7, <1>8, <1>9 DEF PageOf, FirstOf
<1>10. CASE p.next # NULL
  <2>1. PICK x \in Range(p.items) :
               /\ p.next = Encode(x)
               /\ \A k \in Range(p.items) : k = x \/ <<k, x>> \in Descending(S)
               /\ \A k \in S : k \in Range(p.items) \/ <<x, k>> \in Descending(S)
    BY <1>7, <1>10 DEF FirstOf
  <2>2. x \in S /\ x \in Keys /\ p.next = x
    BY <1>2, <1>6, <1>8, <2>1
  <2>3. \A k \in Range(p.items) : ~Less(k, x)
    <3> TAKE k \in Range(p.items)
    <3>1. k \in Keys
      BY <1>2, <1>8
    <3>2. k = x \/ Less(x, k)
      BY Zenon, <2>1 DEF Descending, Greater
    <3> QED
      BY <2>2, <3>1, <3>2, KeyOrder
  <2>4. \A k \in S : k \in Range(p.items) \/ Less(k, x)
    BY Zenon, <2>1 DEF Descending, Greater
  <2>5. \A k \in S : k \in Range(p.items) \/ Ahead("list", x, k)
    BY <2>4 DEF Ahead
  <2> QED
    BY <1>2, <1>5, <1>8, <1>10, <2>2, <2>3, <2>5 DEF PageOf
<1> QED
  BY <1>9, <1>10

LEMMA QueuePage ==
    ASSUME NEW d \in Tables, NEW t, NEW s, NEW dept, NEW cursor \in Keys \cup {NULL},
           NEW p, p = NewPage(ListPendingForApproval(t, s, d, dept, cursor, PageSize + 1))
    PROVE  PageOf("queue", p, Queued(t, s, d, dept), cursor)
<1> DEFINE found == Queued(t, s, d, dept)
           S == {k \in found : cursor = NULL \/ Less(cursor, k)}
           q == Sorted(S, Less)
<1> SUFFICES PageOf("queue", p, found, cursor)
  OBVIOUS
<1>1. found \in SUBSET Keys /\ IsFiniteSet(found)
  BY Zenon, FoundKeys
<1>2. S \in SUBSET Keys /\ S \in SUBSET found /\ IsFiniteSet(S)
  BY <1>1, FS_Subset
<1>3. Lists(q, S, Ascending(S))
  BY Zenon, <1>2, SortedAscending
<1>4. p = NewPage(Upto(q, PageSize + 1))
  BY DEF ListPendingForApproval
<1>5. \A k \in found : Ahead("queue", cursor, k) <=> k \in S
  BY Zenon DEF Ahead
<1> HIDE DEF found, S, q
<1>6. FirstOf(p, S, Ascending(S))
  BY <1>2, <1>3, <1>4, PageOfList
<1>7. Range(p.items) \subseteq S /\ p.items \in Seq(Keys)
  BY <1>2, <1>6 DEF FirstOf, Range
<1>8. CASE p.next = NULL
  BY Zenon, <1>2, <1>5, <1>6, <1>7, <1>8 DEF PageOf, FirstOf
<1>9. CASE p.next # NULL
  <2>1. PICK x \in Range(p.items) :
               /\ p.next = Encode(x)
               /\ \A k \in S : k \in Range(p.items) \/ <<x, k>> \in Ascending(S)
    BY <1>6, <1>9 DEF FirstOf
  <2>2. x \in Keys
    BY <1>2, <1>7
  <2>3. p.next \in Keys /\ p.next[1] <= x[1] /\ p.next[2] = x[2]
    BY <2>1, <2>2, Encoded
  <2>4. ASSUME NEW k \in S, k \notin Range(p.items) PROVE Ahead("queue", p.next, k)
    <3>1. Less(x, k) /\ k \in Keys
      BY Zenon, <1>2, <2>1, <2>4 DEF Ascending
    <3>2. /\ x[1] \in Nat /\ x[2] \in Nat /\ k[1] \in Nat /\ k[2] \in Nat
          /\ p.next[1] \in Nat /\ p.next[2] \in Nat
      BY Zenon, <2>2, <2>3, <3>1, ReadsAssumption DEF Keys
    <3>3. Less(p.next, k)
      BY <2>3, <3>1, <3>2 DEF Less
    <3> QED
      BY <3>3 DEF Ahead
  <2> QED
    BY <1>2, <1>5, <1>7, <1>9, <2>3, <2>4 DEF PageOf
<1> QED
  BY <1>8, <1>9

-----------------------------------------------------------------------------
(* Who may see what.                                                       *)

\* narrowToScope shows an active member nothing canRead would not.
LEMMA NarrowedIsReadable ==
    ASSUME NEW actor \in Actors, Active(actor), NEW dept, NEW c \in Claim,
           Matches(narrowToScope(actor, [dept |-> dept, submitter |-> NULL]), c)
    PROVE  canRead(actor, c)
<1> DEFINE f == [dept |-> dept, submitter |-> NULL]
<1>1. Allows(actor.role, "ExpenseReadOwn")
  BY DEF Actors, Roles, Allows, matrix, Permissions
<1>2. actor.id # NULL
  BY Zenon, ReadsAssumption DEF Actors
<1>3. CASE Can(actor, "ExpenseReadAll")
  BY <1>1, <1>3 DEF canRead, Can
<1>4. CASE ~Can(actor, "ExpenseReadAll") /\ Can(actor, "ExpenseReadTeam")
  <2>1. CASE actor.dept = NULL
    BY <1>1, <1>4, <2>1 DEF canRead, Can, GovernsDepartment
  <2>2. CASE actor.dept # NULL
    <3>1. narrowToScope(actor, f).dept = actor.dept
      BY <1>4, <2>2 DEF narrowToScope
    <3>2. actor.dept = Filed[c].dept
      BY <2>2, <3>1 DEF Matches
    <3> QED
      BY <1>1, <1>4, <2>2, <3>2 DEF canRead, Can, GovernsDepartment
  <2> QED
    BY <2>1, <2>2
<1>5. CASE ~Can(actor, "ExpenseReadAll") /\ ~Can(actor, "ExpenseReadTeam")
  <2>1. narrowToScope(actor, f).submitter = actor.id
    BY <1>5 DEF narrowToScope
  <2>2. Filed[c].submitter = actor.id
    BY <1>2, <2>1 DEF Matches
  <2> QED
    BY <1>1, <2>2 DEF canRead, Can
<1> QED
  BY <1>3, <1>4, <1>5

\* Whoever may decide on the claims of a department may read them.
LEMMA QueuedIsReadable ==
    ASSUME NEW actor \in Actors, Can(actor, "ExpenseApprove"), NEW c \in Claim,
           actor.dept \in {NULL, Filed[c].dept}
    PROVE  canRead(actor, c)
<1>1. Allows(actor.role, "ExpenseReadOwn") /\ Allows(actor.role, "ExpenseReadTeam")
  BY DEF Actors, Roles, Can, Allows, matrix, Permissions
<1> QED
  BY <1>1 DEF canRead, Can, GovernsDepartment

\* What the export writes out.
FileOf(q, S) ==
    /\ q \in Seq(Keys) /\ Range(q) = S
    /\ \A i, j \in DOMAIN q : i < j => Less(q[i], q[j])

LEMMA ReportRows ==
    ASSUME NEW d \in Tables, NEW t, NEW s, NEW f,
           NEW q, q = exportQuery(t, s, d, f)
    PROVE  FileOf(q, ByDate(Found(t, s, d, f)))
<1> DEFINE S == ByDate(Found(t, s, d, f))
<1>1. S \in SUBSET Keys /\ IsFiniteSet(S)
  BY FoundKeys
<1>2. Lists(q, S, Ascending(S))
  BY <1>1, SortedAscending DEF exportQuery
<1> HIDE DEF S
<1>3. q \in Seq(S) /\ Range(q) = S
  BY <1>2 DEF Lists
<1>4. q \in Seq(Keys)
  BY <1>1, <1>3
<1>5. \A i, j \in DOMAIN q : i < j => Less(q[i], q[j])
  BY Zenon, <1>2 DEF Lists, Ascending
<1> QED
  BY <1>3, <1>4, <1>5 DEF S, FileOf

-----------------------------------------------------------------------------
(* ReadsInv is inductive.                                                  *)

Typed ==
    /\ db \in Tables
    /\ clock \in 0 .. MaxClock
    /\ writes \in 0 .. MaxWrites
    /\ conns \in [Conn -> [tx : Request \cup {NULL}, local : Settings, session : Settings]]
    /\ req \in [Request -> Reqs]
    /\ walk \in [Request -> Walks]

Readable(q) ==
    q.kind \in {"list", "queue"} /\ q.pc = "commit" =>
        \A k \in Range(q.out) :
            canRead(q.actor, k[2]) /\ ClaimTenant(k[2]) = TenantOf[q.member]

\* One request with its walk.
Fine(q, w, d) == RequestOK(q) /\ ReportOK(q) /\ Readable(q) /\ WalkOK(w, d) /\ PageOK(q, w)

\* ReadsInv, with the connections counted by ConnsOK.
Parts == Typed /\ ConnsOK /\ \A r \in Request : Fine(req[r], walk[r], db)

LEMMA PartsGiveInv == Parts => ReadsInv
<1> SUFFICES ASSUME Parts PROVE ReadsInv
  OBVIOUS
<1>1. ASSUME NEW r \in Request
      PROVE  Cardinality({k \in Conn : HeldBy(k, r)}) =
                IF req[r].pc \in {"done", "acquire"} THEN 0 ELSE 1
  <2> DEFINE H == {k \in Conn : HeldBy(k, r)}
  <2>1. CASE req[r].pc \in {"done", "acquire"}
    <3>1. H = {}
      BY <2>1 DEF Parts, ConnsOK, Running
    <3> QED
      BY <2>1, <3>1, FS_EmptySet
  <2>2. CASE req[r].pc \notin {"done", "acquire"}
    <3>1. PICK k \in Conn : HeldBy(k, r)
      BY <2>2 DEF Parts, ConnsOK, Running
    <3>2. H = {k}
      BY <3>1 DEF Parts, ConnsOK
    <3> QED
      BY <2>2, <3>2, FS_Singleton
  <2> QED
    BY <2>1, <2>2
<1>2. ReadsTypeOK
  BY <1>1 DEF Parts, Typed, ReadsTypeOK
<1>3. ListedIsReadable
  BY DEF Parts, Fine, Readable, ListedIsReadable
<1> QED
  BY <1>2, <1>3 DEF Parts, ReadsInv, Fine

\* A request that has just been made, and none.
LEMMA AskedFine ==
    ASSUME NEW d \in Tables, NEW w \in Walks, WalkOK(w, d),
           NEW kind \in Kinds, NEW m \in Member, NEW dept \in Department \cup {NULL},
           kind \in {"list", "queue"} =>
                w.kind = kind /\ w.member = m /\ w.dept = dept /\ ~w.done
    PROVE  Asked(kind, m, dept) \in Reqs /\ Fine(Asked(kind, m, dept), w, d)
<1> DEFINE q == Asked(kind, m, dept)
<1>1. /\ q.pc = "acquire" /\ q.kind = kind /\ q.member = m /\ q.dept = dept
      /\ q.out = <<>> /\ q.left = <<>>
  BY Zenon DEF Asked
<1>2. q \in Reqs
  BY ReadsAssumption DEF Asked, Reqs, Pcs
<1> HIDE DEF q
<1>3. RequestOK(q) /\ ReportOK(q) /\ Readable(q) /\ PageOK(q, w)
  BY Zenon, <1>1 DEF RequestOK, ReportOK, Readable, PageOK, Running, Resolved
<1> QED
  BY <1>2, <1>3 DEF Fine, q

LEMMA IdleFine ==
    ASSUME NEW d, NEW w, WalkOK(w, d), NEW r \in Request,
           NEW result \in {"none", "ok", "error", "truncated"}
    PROVE  Idle(r, result) \in Reqs /\ Idle(r, result).pc = "done" /\ Fine(Idle(r, result), w, d)
<1> DEFINE q == Idle(r, result)
<1>1. q.pc = "done" /\ q.kind = "sweep" /\ q.out = <<>> /\ q.left = <<>>
  BY DEF Idle, Asked
<1>2. q \in Reqs
  <2> DEFINE a == Asked("sweep", Subject[r], NULL)
  <2>1. Subject[r] \in Member /\ "sweep" \in Kinds
    BY ReadsAssumption DEF Kinds
  <2>2. a \in Reqs
    BY <2>1, ReadsAssumption DEF Asked, Reqs, Pcs
  <2> HIDE DEF a
  <2>3. q = [a EXCEPT !.pc = "done", !.result = result]
    BY ZenonT(40) DEF Idle, a
  <2> QED
    BY Zenon, <2>2, <2>3 DEF Reqs, Pcs
<1> HIDE DEF q
<1>3. RequestOK(q) /\ ReportOK(q) /\ Readable(q) /\ PageOK(q, w)
  BY <1>1 DEF RequestOK, ReportOK, Readable, PageOK, Running, Resolved
<1> QED
  BY <1>1, <1>2, <1>3 DEF Fine, q

LEMMA ScopeKeys ==
    ASSUME NEW d \in Tables, NEW kind, NEW m, NEW dept
    PROVE  Scope(kind, m, dept, d) \in SUBSET Keys
BY Zenon, FoundKeys DEF Scope

LEMMA ReadsInit == Init => Parts
<1> SUFFICES ASSUME Init PROVE Parts
  OBVIOUS
<1> DEFINE w(r) == [kind |-> "list", member |-> Subject[r], dept |-> NULL, cursor |-> NULL,
                    seen |-> {}, again |-> {}, steady |-> {}, done |-> TRUE]
<1>1. Unset \in Settings
  BY DEF Unset, Settings
<1>2. ASSUME NEW r \in Request PROVE w(r) \in Walks /\ WalkOK(w(r), db)
  BY Zenon, ReadsAssumption DEF Walks, WalkOK
<1>3. \A r \in Request : req[r] = Idle(r, "none") /\ walk[r] = w(r)
  BY DEF Init
<1>4. \A r \in Request : req[r] \in Reqs /\ req[r].pc = "done" /\ Fine(req[r], walk[r], db)
  BY Zenon, <1>2, <1>3, IdleFine
<1>5. Typed
  <2>1. db \in Tables /\ clock \in 0 .. MaxClock /\ writes \in 0 .. MaxWrites
    BY ReadsAssumption DEF Init
  <2>2. conns \in [Conn -> [tx : Request \cup {NULL}, local : Settings, session : Settings]]
    BY <1>1 DEF Init
  <2>3. req \in [Request -> Reqs] /\ walk \in [Request -> Walks]
    BY Zenon, <1>2, <1>3, <1>4 DEF Init
  <2> QED
    BY <2>1, <2>2, <2>3 DEF Typed
<1>6. ConnsOK
  BY Zenon, <1>4, ReadsAssumption DEF Init, ConnsOK, Running, HeldBy
<1> QED
  BY <1>4, <1>5, <1>6 DEF Parts

\* A step of one request and its walk leaves the others as they are.
LEMMA OneRequest ==
    ASSUME Parts, NEW r \in Request, NEW q \in Reqs, NEW w \in Walks,
           req' = [req EXCEPT ![r] = q], walk' = [walk EXCEPT ![r] = w],
           UNCHANGED <<db, clock, writes>>,
           conns' \in [Conn -> [tx : Request \cup {NULL}, local : Settings, session : Settings]],
           ConnsOK', Fine(q, w, db)
    PROVE  Parts'
<1>1. Typed'
  BY DEF Parts, Typed
<1>2. ASSUME NEW s \in Request PROVE Fine(req'[s], walk'[s], db')
  <2>1. CASE s = r
    BY <2>1 DEF Parts, Typed
  <2>2. CASE s # r
    BY <2>2 DEF Parts, Typed
  <2> QED
    BY <2>1, <2>2
<1> QED
  BY <1>1, <1>2 DEF Parts

\* A request that keeps the connection it has, or goes on without one.
LEMMA ConnsKept ==
    ASSUME Parts, NEW r \in Request, NEW q \in Reqs, req' = [req EXCEPT ![r] = q],
           conns' = conns,
           \/ ~Running(q) /\ ~Running(req[r])
           \/ /\ Running(q) /\ Running(req[r]) /\ q.pc # "begun" /\ req[r].pc # "begun"
              /\ q.kind = req[r].kind /\ q.member = req[r].member
    PROVE  ConnsOK'
<1>1. ConnsOK /\ req \in [Request -> Reqs]
  BY DEF Parts, Typed
<1>2. \A s \in Request : Running(req'[s]) <=> Running(req[s])
  BY <1>1
<1>3. \A k \in Conn, s \in Request : HeldBy(k, s)' <=> HeldBy(k, s)
  BY DEF HeldBy
<1>4. ASSUME NEW s \in Request, Running(req[s])
      PROVE  Binding(s)' = Binding(s) /\ (req'[s].pc = "begun" <=> req[s].pc = "begun")
  BY <1>1, <1>4 DEF Binding
<1>5. \A s \in Request : Running(req'[s]) => \E k \in Conn : HeldBy(k, s)'
  BY Zenon, <1>1, <1>2, <1>3 DEF ConnsOK
<1>6. ASSUME NEW s \in Request, NEW k \in Conn, HeldBy(k, s)'
      PROVE  /\ Running(req'[s])
             /\ conns'[k].local = IF req'[s].pc = "begun" THEN Unset ELSE Binding(s)'
             /\ \A l \in Conn : HeldBy(l, s)' => l = k
  BY Zenon, <1>1, <1>2, <1>3, <1>4, <1>6 DEF ConnsOK
<1>7. \A k \in Conn :
          /\ conns'[k].session = Unset
          /\ conns'[k].tx = NULL => conns'[k].local = Unset
  BY <1>1 DEF ConnsOK
<1> QED
  BY <1>5, <1>6, <1>7 DEF ConnsOK

\* COMMIT and ROLLBACK: the connection goes back to the pool without a tenant.
LEMMA ConnsReleased ==
    ASSUME Parts, NEW r \in Request, NEW q \in Reqs, req' = [req EXCEPT ![r] = q],
           Release(r), ~Running(q)
    PROVE  /\ ConnsOK'
           /\ conns' \in [Conn -> [tx : Request \cup {NULL}, local : Settings, session : Settings]]
<1>1. /\ ConnsOK /\ req \in [Request -> Reqs]
      /\ conns \in [Conn -> [tx : Request \cup {NULL}, local : Settings, session : Settings]]
  BY DEF Parts, Typed
<1>2. Unset \in Settings /\ NULL \notin Request
  BY ReadsAssumption DEF Unset, Settings
<1>3. conns' \in [Conn -> [tx : Request \cup {NULL}, local : Settings, session : Settings]]
  BY Zenon, <1>1, <1>2 DEF Release
<1>4. ASSUME NEW k \in Conn
      PROVE  /\ HeldBy(k, r) => conns'[k].tx = NULL /\ conns'[k].local = Unset
                                /\ conns'[k].session = conns[k].session
             /\ ~HeldBy(k, r) => conns'[k] = conns[k]
  BY Zenon, <1>1 DEF Release
<1>5. ASSUME NEW k \in Conn, NEW s \in Request
      PROVE  HeldBy(k, s)' <=> s # r /\ HeldBy(k, s)
  BY <1>2, <1>4 DEF HeldBy
<1>6. req'[r] = q /\ \A s \in Request \ {r} : req'[s] = req[s]
  BY <1>1
<1>7. ASSUME NEW s \in Request, s # r PROVE Binding(s)' = Binding(s)
  BY <1>6, <1>7 DEF Binding
<1>8. \A s \in Request : Running(req'[s]) => \E k \in Conn : HeldBy(k, s)'
  BY Zenon, <1>1, <1>5, <1>6 DEF ConnsOK
<1>9. ASSUME NEW s \in Request, NEW k \in Conn, HeldBy(k, s)'
      PROVE  /\ Running(req'[s])
             /\ conns'[k].local = IF req'[s].pc = "begun" THEN Unset ELSE Binding(s)'
             /\ \A l \in Conn : HeldBy(l, s)' => l = k
  <2>1. s # r /\ HeldBy(k, s) /\ req'[s] = req[s] /\ Binding(s)' = Binding(s)
    BY <1>5, <1>6, <1>7, <1>9
  <2>2. conns'[k] = conns[k]
    BY Zenon, <1>4, <2>1 DEF HeldBy
  <2> QED
    BY <1>1, <1>5, <2>1, <2>2 DEF ConnsOK
<1>10. ASSUME NEW k \in Conn
       PROVE  /\ conns'[k].session = Unset
              /\ conns'[k].tx = NULL => conns'[k].local = Unset
  BY Zenon, <1>1, <1>4 DEF ConnsOK
<1>11. ConnsOK'
  BY <1>8, <1>9, <1>10 DEF ConnsOK
<1> QED
  BY <1>3, <1>11

\* A step of one request that keeps its connection.
LEMMA RequestMoves ==
    ASSUME Parts, NEW r \in Request, NEW q \in Reqs, req' = [req EXCEPT ![r] = q],
           UNCHANGED <<db, clock, writes, conns, walk>>,
           \/ ~Running(q) /\ ~Running(req[r])
           \/ /\ Running(q) /\ Running(req[r]) /\ q.pc # "begun" /\ req[r].pc # "begun"
              /\ q.kind = req[r].kind /\ q.member = req[r].member,
           Fine(q, walk[r], db)
    PROVE  Parts'
<1>1. ConnsOK'
  BY Zenon, ConnsKept
<1>2. walk[r] \in Walks /\ walk' = [walk EXCEPT ![r] = walk[r]]
  BY DEF Parts, Typed
<1>3. conns' \in [Conn -> [tx : Request \cup {NULL}, local : Settings, session : Settings]]
  BY DEF Parts, Typed
<1> QED
  BY Zenon, <1>1, <1>2, <1>3, OneRequest

\* The end of a request that did not succeed.
LEMMA EndInv ==
    ASSUME Parts, NEW r \in Request, NEW result \in {"none", "ok", "error", "truncated"},
           End(r, result)
    PROVE  Parts'
<1> DEFINE q == Idle(r, result)
<1>1. walk[r] \in Walks /\ walk' = [walk EXCEPT ![r] = walk[r]] /\ WalkOK(walk[r], db)
  BY DEF Parts, Typed, End, Fine
<1>2. q \in Reqs /\ q.pc = "done" /\ Fine(q, walk[r], db)
  BY <1>1, IdleFine
<1>3. req' = [req EXCEPT ![r] = q] /\ Release(r) /\ UNCHANGED <<db, clock, writes>>
  BY DEF End
<1> HIDE DEF q
<1>4. ~Running(q)
  BY <1>2 DEF Running
<1> QED
  BY Zenon, <1>1, <1>2, <1>3, <1>4, ConnsReleased, OneRequest

-----------------------------------------------------------------------------
(* The clients.                                                            *)

LEMMA AskInv ==
    ASSUME Parts, NEW r \in Request, Ask(r)
    PROVE  Parts'
<1>1. /\ req[r].pc = "done" /\ ~Running(req[r]) /\ Subject[r] \in Member
      /\ walk[r] \in Walks /\ db \in Tables /\ WalkOK(walk[r], db)
  BY Zenon, ReadsAssumption
     DEF Ask, AskFirstPage, AskNextPage, AskExport, Sweep, Running, Parts, Typed, Fine
<1>2. \A kind, m, dept : ~Running(Asked(kind, m, dept))
  BY DEF Asked, Running
<1>3. CASE AskFirstPage(r)
  <2>1. PICK kind \in {"list", "queue"}, dept \in Department \cup {NULL} :
            /\ req' = [req EXCEPT ![r] = Asked(kind, Subject[r], dept)]
            /\ walk' = [walk EXCEPT ![r] = FirstPage(kind, Subject[r], dept)]
    BY Zenon, <1>3 DEF AskFirstPage
  <2> DEFINE q == Asked(kind, Subject[r], dept)
             w == FirstPage(kind, Subject[r], dept)
  <2>2. /\ w.kind = kind /\ w.member = Subject[r] /\ w.dept = dept /\ ~w.done /\ w.cursor = NULL
        /\ w.seen = {} /\ w.again = {} /\ w.steady = Scope(kind, Subject[r], dept, db)
    BY ZenonT(40) DEF FirstPage
  <2>3. w \in Walks
    BY <1>1, ScopeKeys DEF FirstPage, Walks
  <2>4. kind \in Kinds
    BY DEF Kinds
  <2> HIDE DEF w
  <2>5. WalkOK(w, db)
    BY Zenon, <2>2 DEF WalkOK, Ahead
  <2>6. q \in Reqs /\ Fine(q, w, db)
    BY Zenon, <1>1, <2>2, <2>3, <2>4, <2>5, AskedFine
  <2>7. UNCHANGED <<db, clock, writes, conns>>
    BY <1>3 DEF AskFirstPage
  <2>8. conns' \in [Conn -> [tx : Request \cup {NULL}, local : Settings, session : Settings]]
    BY <2>7 DEF Parts, Typed
  <2>9. ConnsOK'
    BY Zenon, <1>1, <1>2, <2>1, <2>6, <2>7, ConnsKept
  <2> QED
    BY Zenon, <2>1, <2>3, <2>6, <2>7, <2>8, <2>9, OneRequest DEF w
<1>4. CASE AskNextPage(r)
  <2> DEFINE q == Asked(walk[r].kind, walk[r].member, walk[r].dept)
  <2>1. /\ walk[r].kind \in Kinds /\ walk[r].member \in Member
        /\ walk[r].dept \in Department \cup {NULL} /\ ~walk[r].done
    BY Zenon, <1>1, <1>4 DEF AskNextPage, Walks, Kinds
  <2>2. q \in Reqs /\ Fine(q, walk[r], db)
    BY <1>1, <2>1, AskedFine
  <2>3. req' = [req EXCEPT ![r] = q] /\ UNCHANGED <<db, clock, writes, conns, walk>>
    BY <1>4 DEF AskNextPage
  <2> QED
    BY Zenon, <1>1, <1>2, <2>2, <2>3, RequestMoves
<1>5. CASE AskExport(r) \/ Sweep(r)
  <2>1. PICK kind \in {"export", "sweep"}, dept \in Department \cup {NULL} :
            req' = [req EXCEPT ![r] = Asked(kind, Subject[r], dept)]
    BY <1>5 DEF AskExport, Sweep
  <2>2. kind \in Kinds /\ kind \notin {"list", "queue"}
    BY Zenon DEF Kinds
  <2> DEFINE q == Asked(kind, Subject[r], dept)
  <2>3. q \in Reqs /\ Fine(q, walk[r], db)
    BY Zenon, <1>1, <2>2, AskedFine
  <2>4. UNCHANGED <<db, clock, writes, conns, walk>>
    BY <1>5 DEF AskExport, Sweep
  <2> QED
    BY Zenon, <1>1, <1>2, <2>1, <2>3, <2>4, RequestMoves
<1> QED
  BY <1>3, <1>4, <1>5 DEF Ask

-----------------------------------------------------------------------------
(* The transaction around every request.                                   *)

LEMMA AcquireInv ==
    ASSUME Parts, NEW r \in Request, Acquire(r)
    PROVE  Parts'
<1> DEFINE q == [req[r] EXCEPT !.pc = "begun"]
<1>1. PICK k \in Conn : conns[k].tx = NULL /\ conns' = [conns EXCEPT ![k].tx = r]
  BY Zenon DEF Acquire
<1>2. /\ req[r].pc = "acquire" /\ req' = [req EXCEPT ![r] = q]
      /\ UNCHANGED <<db, clock, writes, walk>>
  BY DEF Acquire, Parts, Typed
<1>3. /\ ConnsOK /\ req[r] \in Reqs /\ req \in [Request -> Reqs] /\ Fine(req[r], walk[r], db)
      /\ conns \in [Conn -> [tx : Request \cup {NULL}, local : Settings, session : Settings]]
      /\ walk[r] \in Walks /\ walk' = [walk EXCEPT ![r] = walk[r]]
  BY <1>2 DEF Parts, Typed
<1>4. q \in Reqs
  BY ZenonT(40), <1>3 DEF Reqs, Pcs
<1>5. /\ q.pc = "begun" /\ q.kind = req[r].kind /\ q.member = req[r].member
      /\ q.dept = req[r].dept
      /\ q.out = req[r].out /\ q.resent = req[r].resent /\ q.left = req[r].left
  BY <1>3 DEF Reqs
<1> HIDE DEF q
<1>6. Fine(q, walk[r], db)
  BY <1>2, <1>3, <1>5
     DEF Fine, RequestOK, ReportOK, Readable, PageOK, Running, Resolved
<1>7. conns' \in [Conn -> [tx : Request \cup {NULL}, local : Settings, session : Settings]]
  BY Zenon, <1>1, <1>3
<1>8. ConnsOK'
  <2>1. /\ conns'[k].tx = r /\ conns'[k].local = Unset /\ conns'[k].session = Unset
        /\ \A l \in Conn \ {k} : conns'[l] = conns[l]
    BY <1>1, <1>3 DEF ConnsOK
  <2>2. \A l \in Conn, s \in Request : HeldBy(l, s)' <=> IF l = k THEN s = r ELSE HeldBy(l, s)
    BY <2>1 DEF HeldBy
  <2>3. /\ \A l \in Conn : ~HeldBy(l, r)
        /\ \A s \in Request : ~HeldBy(k, s)
    BY <1>1, <1>2, <1>3, ReadsAssumption DEF ConnsOK, Running, HeldBy
  <2>4. req'[r] = q /\ \A s \in Request \ {r} : req'[s] = req[s]
    BY Zenon, <1>2, <1>3
  <2>5. \A s \in Request \ {r} : Binding(s)' = Binding(s)
    BY <2>4 DEF Binding
  <2>6. Running(q)
    BY <1>5 DEF Running
  <2>7. \A s \in Request : Running(req'[s]) => \E l \in Conn : HeldBy(l, s)'
    BY <1>3, <2>2, <2>3, <2>4 DEF ConnsOK
  <2>8. ASSUME NEW s \in Request, NEW l \in Conn, HeldBy(l, s)'
        PROVE  /\ Running(req'[s])
               /\ conns'[l].local = IF req'[s].pc = "begun" THEN Unset ELSE Binding(s)'
               /\ \A j \in Conn : HeldBy(j, s)' => j = l
    <3>1. CASE s = r
      BY Zenon, <1>5, <2>1, <2>2, <2>3, <2>4, <2>6, <2>8, <3>1
    <3>2. CASE s # r
      <4>1. l # k /\ HeldBy(l, s) /\ conns'[l] = conns[l]
        BY Zenon, <2>1, <2>2, <2>8, <3>2
      <4>2. req'[s] = req[s] /\ Binding(s)' = Binding(s)
        BY Zenon, <2>4, <2>5, <3>2
      <4> QED
        BY Zenon, <1>3, <2>2, <3>2, <4>1, <4>2 DEF ConnsOK
    <3> QED
      BY Zenon, <3>1, <3>2
  <2>9. ASSUME NEW l \in Conn
        PROVE  /\ conns'[l].session = Unset
               /\ conns'[l].tx = NULL => conns'[l].local = Unset
    BY <1>3, <2>1 DEF ConnsOK
  <2> QED
    BY <2>7, <2>8, <2>9 DEF ConnsOK
<1> QED
  BY Zenon, <1>2, <1>3, <1>4, <1>6, <1>7, <1>8, OneRequest

LEMMA BindInv ==
    ASSUME Parts, NEW r \in Request, bindSession(r)
    PROVE  Parts'
<1> DEFINE snap == IF req[r].kind = "export" THEN db ELSE NULL
           q == [req[r] EXCEPT !.pc = "bound", !.snap = snap]
<1>1. /\ ConnsOK /\ req[r] \in Reqs /\ req \in [Request -> Reqs] /\ Fine(req[r], walk[r], db)
      /\ conns \in [Conn -> [tx : Request \cup {NULL}, local : Settings, session : Settings]]
      /\ walk[r] \in Walks /\ db \in Tables
  BY DEF Parts, Typed
<1>2. /\ req[r].pc = "begun" /\ req' = [req EXCEPT ![r] = q]
      /\ UNCHANGED <<db, clock, writes>> /\ walk' = [walk EXCEPT ![r] = walk[r]]
  BY Zenon, <1>1 DEF bindSession, Parts, Typed
<1>3. q \in Reqs
  BY Zenon, <1>1 DEF Reqs, Pcs
<1>4. /\ q.pc = "bound" /\ q.kind = req[r].kind /\ q.member = req[r].member
      /\ q.dept = req[r].dept
      /\ q.out = req[r].out /\ q.resent = req[r].resent /\ q.left = req[r].left
      /\ q.kind = "export" => q.snap \in Tables
  BY <1>1 DEF Reqs
<1> HIDE DEF q
<1>5. Fine(q, walk[r], db)
  BY Zenon, <1>1, <1>2, <1>4
     DEF Fine, RequestOK, ReportOK, Readable, PageOK, Running, Resolved
<1>6. Binding(r) \in Settings
  BY Zenon, <1>1, ReadsAssumption DEF Binding, TenantBinding, Settings, Reqs
<1>7. conns' \in [Conn -> [tx : Request \cup {NULL}, local : Settings, session : Settings]]
  BY Zenon, <1>1, <1>6 DEF bindSession
<1>8. ConnsOK'
  <2>1. ASSUME NEW k \in Conn
        PROVE  /\ conns'[k].tx = conns[k].tx /\ conns'[k].session = conns[k].session
               /\ conns'[k].local = IF HeldBy(k, r) THEN Binding(r) ELSE conns[k].local
    BY <1>1 DEF bindSession
  <2>2. \A k \in Conn, s \in Request : HeldBy(k, s)' <=> HeldBy(k, s)
    BY <2>1 DEF HeldBy
  <2>3. req'[r] = q /\ \A s \in Request \ {r} : req'[s] = req[s]
    BY Zenon, <1>1, <1>2
  <2>4. \A s \in Request : Binding(s)' = Binding(s)
    BY <1>4, <2>3 DEF Binding
  <2>5. Running(q) /\ Running(req[r]) /\ \A s \in Request : Running(req'[s]) <=> Running(req[s])
    BY Zenon, <1>2, <1>4, <2>3 DEF Running
  <2>6. \A s \in Request : Running(req'[s]) => \E k \in Conn : HeldBy(k, s)'
    BY Zenon, <1>1, <2>2, <2>5 DEF ConnsOK
  <2>7. ASSUME NEW s \in Request, NEW k \in Conn, HeldBy(k, s)'
        PROVE  /\ Running(req'[s])
               /\ conns'[k].local = IF req'[s].pc = "begun" THEN Unset ELSE Binding(s)'
               /\ \A l \in Conn : HeldBy(l, s)' => l = k
    <3>1. HeldBy(k, s) /\ (s # r => ~HeldBy(k, r))
      BY <2>2, <2>7 DEF HeldBy
    <3>2. Running(req'[s]) /\ \A l \in Conn : HeldBy(l, s)' => l = k
      BY Zenon, <1>1, <2>2, <2>5, <3>1 DEF ConnsOK
    <3>3. CASE s = r
      BY <1>4, <2>1, <2>3, <2>4, <3>1, <3>2, <3>3
    <3>4. CASE s # r
      <4>1. conns'[k].local = conns[k].local /\ req'[s] = req[s]
        BY Zenon, <2>1, <2>3, <3>1, <3>4
      <4> QED
        BY Zenon, <1>1, <2>4, <3>1, <3>2, <4>1 DEF ConnsOK
    <3> QED
      BY Zenon, <3>3, <3>4
  <2>8. ASSUME NEW k \in Conn
        PROVE  /\ conns'[k].session = Unset
               /\ conns'[k].tx = NULL => conns'[k].local = Unset
    <3>1. NULL \notin Request
      BY ReadsAssumption
    <3>2. conns[k].session = Unset /\ (conns[k].tx = NULL => conns[k].local = Unset)
      BY <1>1 DEF ConnsOK
    <3>3. conns[k].tx = NULL => ~HeldBy(k, r)
      BY <3>1 DEF HeldBy
    <3> QED
      BY <2>1, <3>2, <3>3
  <2> QED
    BY <2>6, <2>7, <2>8 DEF ConnsOK
<1> QED
  BY Zenon, <1>1, <1>2, <1>3, <1>5, <1>7, <1>8, OneRequest

LEMMA FailedType == \A r \in Request : Failed(r) \in {"none", "ok", "error", "truncated"}
BY DEF Failed

LEMMA RetryInv ==
    ASSUME Parts, NEW r \in Request, RetryableFailure(r)
    PROVE  Parts'
<1>1. CASE End(r, Failed(r))
  BY <1>1, FailedType, EndInv
<1>2. CASE ~End(r, Failed(r))
  <2> DEFINE q == Again(req[r])
  <2>1. /\ req[r] \in Reqs /\ req \in [Request -> Reqs] /\ Fine(req[r], walk[r], db)
        /\ walk[r] \in Walks
    BY DEF Parts, Typed
  <2>2. /\ req[r].pc \notin {"done", "acquire"} /\ req' = [req EXCEPT ![r] = q]
        /\ req[r].attempt < MaxSerializationRetries /\ Release(r)
        /\ UNCHANGED <<db, clock, writes>> /\ walk' = [walk EXCEPT ![r] = walk[r]]
    BY Zenon, <1>2, <2>1 DEF RetryableFailure, Parts, Typed
  <2>3. q \in Reqs
    <3>1. req[r].attempt + 1 \in 1 .. MaxSerializationRetries
      BY <2>1, <2>2, ReadsAssumption DEF Reqs
    <3>2. /\ (IF req[r].kind = "export" THEN req[r].out ELSE <<>>) \in Seq(Keys)
          /\ <<>> \in Seq(Keys)
          /\ (req[r].resent \/ (req[r].kind = "export" /\ req[r].out # <<>>)) \in BOOLEAN
      BY <2>1 DEF Reqs
    <3> QED
      BY ZenonT(40), <2>1, <3>1, <3>2 DEF Reqs, Pcs, Again
  <2>4. /\ q.pc = "acquire" /\ q.kind = req[r].kind /\ q.member = req[r].member
        /\ q.dept = req[r].dept /\ q.left = <<>>
        /\ q.out = (IF req[r].kind = "export" THEN req[r].out ELSE <<>>)
        /\ q.resent = (req[r].resent \/ (req[r].kind = "export" /\ req[r].out # <<>>))
    BY <2>1 DEF Reqs, Again
  <2> HIDE DEF q
  <2>5. Fine(q, walk[r], db) /\ ~Running(q)
    BY Zenon, <2>1, <2>2, <2>4
       DEF Fine, RequestOK, ReportOK, Readable, PageOK, Running, Resolved
  <2> QED
    BY Zenon, <2>1, <2>2, <2>3, <2>5, ConnsReleased, OneRequest
<1> QED
  BY <1>1, <1>2

\* The statements of a request run under its own binding.
LEMMA BoundSetting ==
    ASSUME Parts, NEW r \in Request, Running(req[r]), req[r].pc # "begun",
           req[r].kind # "sweep"
    PROVE  SettingOf(r) = TenantBinding(req[r].member)
<1> DEFINE k == CHOOSE l \in Conn : HeldBy(l, r)
<1>1. k \in Conn /\ HeldBy(k, r)
  BY Zenon DEF Parts, ConnsOK
<1> HIDE DEF k
<1>2. conns[k].local = Binding(r) /\ conns[k].session = Unset
  BY Zenon, <1>1 DEF Parts, ConnsOK
<1>3. Setting(conns[k]) = Binding(r)
  BY <1>2 DEF Setting
<1> QED
  BY Zenon, <1>3 DEF SettingOf, k, Binding

\* What is in a walk's scope is in the view of the caller as they are now.
LEMMA ScopeInView ==
    ASSUME NEW d \in Tables, NEW w \in Walks, NEW q, NEW k,
           w.kind = q.kind, w.member = q.member, w.dept = q.dept,
           q.kind \in {"list", "queue"}, q.actor = d.member[q.member],
           k \in Scope(w.kind, w.member, w.dept, d)
    PROVE  InView(q, k[2])
<1>1. CASE q.kind = "list"
  <2>1. PICK c \in Found(TenantOf[q.member], TenantBinding(q.member), d,
                         narrowToScope(q.actor, [dept |-> q.dept, submitter |-> NULL])) :
            k = <<Filed[c].spent, c>>
    BY Zenon, <1>1 DEF Scope, ByDate
  <2> QED
    BY Zenon, <1>1, <2>1 DEF InView, Found, Asking
<1>2. CASE q.kind = "queue"
  <2>1. PICK c \in Found(TenantOf[q.member], TenantBinding(q.member), d,
                         [dept |-> q.actor.dept, submitter |-> NULL]) :
            k = <<d.submitted[c], c>>
    BY <1>2 DEF Scope, Queued
  <2> QED
    BY ZenonT(40), <1>2, <2>1 DEF InView, Found, Matches
<1> QED
  BY Zenon, <1>1, <1>2

LEMMA ResolveInv ==
    ASSUME Parts, NEW r \in Request, ResolveActor(r)
    PROVE  Parts'
<1> DEFINE actor == View(r).member[req[r].member]
           q == [req[r] EXCEPT !.pc = "resolved", !.actor = actor]
<1>1. CASE ~Active(actor)
  BY <1>1, FailedType, EndInv DEF ResolveActor
<1>2. CASE Active(actor)
  <2>1. /\ req[r] \in Reqs /\ req \in [Request -> Reqs] /\ Fine(req[r], walk[r], db)
        /\ walk[r] \in Walks /\ db \in Tables
    BY DEF Parts, Typed
  <2>2. /\ req[r].pc = "bound" /\ req[r].kind # "sweep" /\ req' = [req EXCEPT ![r] = q]
        /\ UNCHANGED <<db, clock, writes, conns, walk>>
    BY Zenon, <1>2, <2>1 DEF ResolveActor
  <2>3. View(r) \in Tables /\ (req[r].kind = "export" => View(r) = req[r].snap)
                          /\ (req[r].kind # "export" => View(r) = db)
    BY Zenon, <2>1, <2>2 DEF View, Fine, ReportOK, Running
  <2>4. actor \in Actors
    BY Zenon, <2>1, <2>3 DEF Tables, Reqs
  <2>5. q \in Reqs
    BY Zenon, <2>1, <2>4 DEF Reqs, Pcs
  <2>6. /\ q.pc = "resolved" /\ q.kind = req[r].kind /\ q.member = req[r].member
        /\ q.dept = req[r].dept
        /\ q.out = req[r].out /\ q.resent = req[r].resent /\ q.left = req[r].left
        /\ q.snap = req[r].snap /\ q.actor = actor
    BY <2>1 DEF Reqs
  <2> HIDE DEF q, actor
  <2>7. RequestOK(q) /\ Readable(q)
    BY Zenon, <1>2, <2>1, <2>2, <2>4, <2>6 DEF Fine, RequestOK, Readable
  <2>8. ReportOK(q)
    BY Zenon, <2>1, <2>2, <2>3, <2>6 DEF Fine, ReportOK, Running, actor
  <2>9. PageOK(q, walk[r])
    <3>1. SUFFICES ASSUME q.kind \in {"list", "queue"} PROVE PageOK(q, walk[r])
      BY Zenon DEF PageOK
    <3>2. /\ walk[r].kind = q.kind /\ walk[r].member = q.member
          /\ walk[r].dept = q.dept /\ ~walk[r].done
      BY Zenon, <2>1, <2>2, <2>6, <3>1 DEF Fine, PageOK
    <3>3. q.actor = db.member[q.member]
      BY Zenon, <2>3, <2>6, <3>1 DEF actor
    <3>4. \A k \in walk[r].steady : k \in Scope(walk[r].kind, walk[r].member, walk[r].dept, db)
      BY ZenonT(40), <2>1 DEF Fine, WalkOK
    <3>5. \A k \in walk[r].steady : InView(q, k[2])
      BY <2>1, <3>1, <3>2, <3>3, <3>4, ScopeInView
    <3> QED
      BY Zenon, <2>6, <3>2, <3>5 DEF PageOK
  <2>10. Fine(q, walk[r], db)
    BY <2>1, <2>7, <2>8, <2>9 DEF Fine
  <2>11. Running(q) /\ Running(req[r]) /\ q.pc # "begun" /\ req[r].pc # "begun"
    BY <2>2, <2>6 DEF Running
  <2> QED
    BY Zenon, <2>2, <2>5, <2>6, <2>10, <2>11, RequestMoves
<1> QED
  BY <1>1, <1>2

LEMMA SweepWorkInv ==
    ASSUME Parts, NEW r \in Request, SweepWork(r)
    PROVE  Parts'
<1> DEFINE q == [req[r] EXCEPT !.pc = "commit"]
<1>1. /\ req[r] \in Reqs /\ req \in [Request -> Reqs] /\ Fine(req[r], walk[r], db)
  BY DEF Parts, Typed
<1>2. /\ req[r].pc = "bound" /\ req[r].kind = "sweep" /\ req' = [req EXCEPT ![r] = q]
      /\ UNCHANGED <<db, clock, writes, conns, walk>>
  BY <1>1 DEF SweepWork
<1>3. q \in Reqs
  BY Zenon, <1>1 DEF Reqs, Pcs
<1>4. q.pc = "commit" /\ q.kind = req[r].kind /\ q.member = req[r].member
  BY <1>1 DEF Reqs
<1> HIDE DEF q
<1>5. Fine(q, walk[r], db)
  BY Zenon, <1>1, <1>2, <1>4 DEF Fine, RequestOK, ReportOK, Readable, PageOK, Resolved
<1>6. Running(q) /\ Running(req[r]) /\ q.pc # "begun" /\ req[r].pc # "begun"
  BY <1>2, <1>4 DEF Running
<1> QED
  BY Zenon, <1>2, <1>3, <1>4, <1>5, <1>6, RequestMoves

LEMMA FailInv ==
    ASSUME Parts, NEW r \in Request, Fail(r)
    PROVE  Parts'
BY Zenon, FailedType, EndInv DEF Fail

\* A page of a listing whose query finds what has been in scope all the time.
LEMMA PageInv ==
    ASSUME Parts, NEW r \in Request, NEW p, Page(r, p),
           req[r].pc = "resolved", req[r].kind \in {"list", "queue"},
           NEW found, PageOf(req[r].kind, p, found, walk[r].cursor),
           walk[r].steady \subseteq found,
           \A k \in found :
                canRead(req[r].actor, k[2]) /\ ClaimTenant(k[2]) = TenantOf[req[r].member]
    PROVE  Parts'
<1> DEFINE q == [req[r] EXCEPT !.pc = "commit", !.out = p.items, !.next = p.next]
<1>1. /\ req[r] \in Reqs /\ req \in [Request -> Reqs] /\ Fine(req[r], walk[r], db)
  BY DEF Parts, Typed
<1>2. /\ req' = [req EXCEPT ![r] = q]
      /\ UNCHANGED <<db, clock, writes, conns, walk>>
  BY Zenon, <1>1 DEF Page
<1>3. q \in Reqs
  BY Zenon, <1>1 DEF PageOf, Reqs, Pcs
<1>4. /\ q.pc = "commit" /\ q.kind = req[r].kind /\ q.member = req[r].member
      /\ q.dept = req[r].dept /\ q.actor = req[r].actor
      /\ q.out = p.items /\ q.next = p.next
  BY <1>1 DEF Reqs
<1> HIDE DEF q
<1>5. RequestOK(q) /\ ReportOK(q)
  BY ZenonT(40), <1>1, <1>4 DEF Fine, RequestOK, ReportOK, Resolved
<1>6. Readable(q)
  BY Zenon, <1>4 DEF PageOf, Readable
<1>7. walk[r].kind = q.kind /\ walk[r].member = q.member /\ walk[r].dept = q.dept /\ ~walk[r].done
  BY Zenon, <1>1, <1>4 DEF Fine, PageOK
<1>8. \A k \in walk[r].steady : k \in walk[r].seen \/ Ahead(q.kind, walk[r].cursor, k)
  BY ZenonT(40), <1>1, <1>7 DEF Fine, WalkOK
<1>9. \A k \in walk[r].steady :
        k \in walk[r].seen \cup Range(q.out) \/ (q.next # NULL /\ Ahead(q.kind, q.next, k))
  BY <1>4, <1>8 DEF PageOf
<1>10. PageOK(q, walk[r])
  BY Zenon, <1>4, <1>7, <1>9 DEF PageOf, PageOK
<1>11. Running(q) /\ Running(req[r]) /\ q.pc # "begun" /\ req[r].pc # "begun"
  BY Zenon, <1>4 DEF Running
<1> QED
  BY ZenonT(40), <1>1, <1>2, <1>3, <1>4, <1>5, <1>6, <1>10, <1>11, RequestMoves DEF Fine

\* The actor may have been reassigned since they were resolved: what has been
\* in scope all the time is in the view of both.
LEMMA ListInv ==
    ASSUME Parts, NEW r \in Request, List(r)
    PROVE  Parts'
<1> DEFINE m == req[r].member
           f == narrowToScope(req[r].actor, Asking(req[r]))
           found == ByDate(Found(TenantOf[m], TenantBinding(m), db, f))
           p == NewPage(ListExpenses(TenantOf[m], TenantBinding(m), db, f,
                                     walk[r].cursor, PageSize + 1))
<1>1. /\ req[r] \in Reqs /\ Fine(req[r], walk[r], db) /\ walk[r] \in Walks /\ db \in Tables
  BY Zenon DEF Parts, Typed
<1>2. req[r].pc = "resolved" /\ req[r].kind = "list"
  BY Zenon DEF List
<1>3. SettingOf(r) = TenantBinding(m)
  BY <1>2, BoundSetting DEF Running
<1>4. Page(r, p)
  BY Zenon, <1>2, <1>3 DEF List, View, Asking
<1>5. walk[r].cursor \in Keys \cup {NULL}
  BY <1>1 DEF Walks
<1> HIDE DEF f, found, p
<1>6. PageOf("list", p, found, walk[r].cursor)
  BY Zenon, <1>1, <1>5, ListPage DEF p, found
<1>7. req[r].actor \in Actors /\ Active(req[r].actor)
  BY Zenon, <1>1, <1>2 DEF Fine, RequestOK, Resolved
<1>8. ASSUME NEW k \in found
      PROVE  canRead(req[r].actor, k[2]) /\ ClaimTenant(k[2]) = TenantOf[m]
  <2>1. PICK c \in Found(TenantOf[m], TenantBinding(m), db, f) : k = <<Filed[c].spent, c>>
    BY Zenon, <1>8 DEF found, ByDate
  <2>2. c \in Claim /\ Matches(f, c) /\ ClaimTenant(c) = TenantOf[m] /\ k[2] = c
    BY Zenon, <2>1 DEF Found, Rows
  <2> QED
    BY Zenon, <1>7, <2>2, NarrowedIsReadable DEF f, Asking
<1>9. ASSUME NEW k \in walk[r].steady PROVE k \in found
  <2>1. /\ k \in Scope("list", m, req[r].dept, db) /\ InView(req[r], k[2])
    BY Zenon, <1>1, <1>2, <1>9 DEF Fine, WalkOK, PageOK
  <2>2. PICK c \in Found(TenantOf[m], TenantBinding(m), db,
                         narrowToScope(db.member[m], Asking(req[r]))) :
            k = <<Filed[c].spent, c>>
    BY Zenon, <2>1 DEF Scope, ByDate, Asking
  <2>3. Matches(f, c)
    BY Zenon, <1>2, <2>1, <2>2 DEF InView, f
  <2> QED
    BY <2>2, <2>3 DEF Found, found, ByDate
<1> QED
  BY Zenon, <1>2, <1>4, <1>6, <1>8, <1>9, PageInv

LEMMA QueueInv ==
    ASSUME Parts, NEW r \in Request, PendingQueue(r)
    PROVE  Parts'
<1> DEFINE m == req[r].member
           actor == req[r].actor
           found == Queued(TenantOf[m], TenantBinding(m), db, actor.dept)
           p == NewPage(ListPendingForApproval(TenantOf[m], TenantBinding(m), db, actor.dept,
                                               walk[r].cursor, PageSize + 1))
<1>1. /\ req[r] \in Reqs /\ Fine(req[r], walk[r], db) /\ walk[r] \in Walks /\ db \in Tables
  BY DEF Parts, Typed
<1>2. req[r].pc = "resolved" /\ req[r].kind = "queue"
  BY Zenon DEF PendingQueue
<1>3. CASE ~Can(actor, "ExpenseApprove")
  BY Zenon, <1>3, FailedType, EndInv DEF PendingQueue
<1>4. CASE Can(actor, "ExpenseApprove")
  <2>1. SettingOf(r) = TenantBinding(m)
    BY ZenonT(40), <1>2, BoundSetting DEF Running
  <2>2. Page(r, p)
    BY Zenon, <1>2, <1>4, <2>1 DEF PendingQueue, View
  <2>3. walk[r].cursor \in Keys \cup {NULL}
    BY <1>1 DEF Walks
  <2> HIDE DEF p, found
  <2>4. PageOf("queue", p, found, walk[r].cursor)
    BY Zenon, <1>1, <2>3, QueuePage DEF p, found
  <2>5. actor \in Actors
    BY Zenon, <1>1, <1>2 DEF Fine, RequestOK, Resolved
  <2>6. ASSUME NEW k \in found
        PROVE  canRead(actor, k[2]) /\ ClaimTenant(k[2]) = TenantOf[m]
    <3>1. PICK c \in Found(TenantOf[m], TenantBinding(m), db,
                           [dept |-> actor.dept, submitter |-> NULL]) :
              k = <<db.submitted[c], c>>
      BY Zenon, <2>6 DEF found, Queued
    <3>2. /\ c \in Claim /\ ClaimTenant(c) = TenantOf[m] /\ k[2] = c
          /\ actor.dept \in {NULL, Filed[c].dept}
      BY ZenonT(40), <3>1 DEF Found, Rows, Matches
    <3> QED
      BY Zenon, <1>4, <2>5, <3>2, QueuedIsReadable
  <2>7. ASSUME NEW k \in walk[r].steady PROVE k \in found
    <3>1. k \in Scope("queue", m, req[r].dept, db) /\ InView(req[r], k[2])
      BY Zenon, <1>1, <1>2, <2>7 DEF Fine, WalkOK, PageOK
    <3>2. PICK c \in Found(TenantOf[m], TenantBinding(m), db,
                           [dept |-> db.member[m].dept, submitter |-> NULL]) :
              k = <<db.submitted[c], c>> /\ db.status[c] = "pending_approval"
      BY Zenon, <3>1 DEF Scope, Queued
    <3>3. c \in Found(TenantOf[m], TenantBinding(m), db, [dept |-> actor.dept, submitter |-> NULL])
      BY Zenon, <1>2, <3>1, <3>2 DEF InView, Found, Matches
    <3> QED
      BY Zenon, <3>2, <3>3 DEF found, Queued
  <2> QED
    BY Zenon, <1>2, <2>2, <2>4, <2>6, <2>7, PageInv
<1> QED
  BY <1>3, <1>4

-----------------------------------------------------------------------------
(* The export.                                                             *)

LEMMA OpenInv ==
    ASSUME Parts, NEW r \in Request, OpenReport(r)
    PROVE  Parts'
<1> DEFINE q == [req[r] EXCEPT !.pc = "opened", !.began = TRUE]
<1>1. /\ req[r] \in Reqs /\ req \in [Request -> Reqs] /\ Fine(req[r], walk[r], db)
  BY DEF Parts, Typed
<1>2. req[r].pc = "resolved" /\ req[r].kind = "export"
  BY DEF OpenReport
<1>3. CASE ~MayExport(req[r].actor)
  BY <1>3, FailedType, EndInv DEF OpenReport
<1>4. CASE MayExport(req[r].actor)
  <2>1. req' = [req EXCEPT ![r] = q] /\ UNCHANGED <<db, clock, writes, conns, walk>>
    BY Zenon, <1>1, <1>4 DEF OpenReport
  <2>2. q \in Reqs
    BY Zenon, <1>1 DEF Reqs, Pcs
  <2>3. /\ q.pc = "opened" /\ q.kind = req[r].kind /\ q.member = req[r].member
        /\ q.actor = req[r].actor /\ q.snap = req[r].snap
        /\ q.out = req[r].out /\ q.resent = req[r].resent /\ q.left = req[r].left
    BY <1>1 DEF Reqs
  <2> HIDE DEF q
  <2>4. RequestOK(q) /\ Readable(q) /\ PageOK(q, walk[r])
    BY Zenon, <1>1, <1>2, <2>3 DEF Fine, RequestOK, Readable, PageOK, Resolved
  <2>5. ReportOK(q)
    BY Zenon, <1>1, <1>2, <1>4, <2>3 DEF Fine, ReportOK, Resolved, Running
  <2>6. Running(q) /\ Running(req[r]) /\ q.pc # "begun" /\ req[r].pc # "begun"
    BY <1>2, <2>3 DEF Running
  <2> QED
    BY Zenon, <1>1, <2>1, <2>2, <2>3, <2>4, <2>5, <2>6, RequestMoves DEF Fine
<1> QED
  BY <1>3, <1>4

\* The limit of a plan is a number of rows or NoLimit.
LEMMA LimitType ==
    ASSUME NEW d \in Tables, NEW m \in Member
    PROVE  d.exportRows[TenantOf[m]] \in Nat \cup {NoLimit}
<1>1. TenantOf[m] \in Tenant
  BY ReadsAssumption
<1> QED
  BY Zenon, <1>1, ReadsAssumption DEF Tables

LEMMA StreamInv ==
    ASSUME Parts, NEW r \in Request, StreamForExport(r)
    PROVE  Parts'
<1> DEFINE m == req[r].member
           rows == exportQuery(TenantOf[m], TenantBinding(m), req[r].snap,
                               narrow(req[r].actor, Asking(req[r])))
           q == [req[r] EXCEPT !.pc = "streaming", !.left = rows]
<1>1. /\ req[r] \in Reqs /\ req \in [Request -> Reqs] /\ Fine(req[r], walk[r], db)
  BY DEF Parts, Typed
<1>2. req[r].pc = "opened" /\ req[r].kind = "export"
  BY Zenon, <1>1 DEF StreamForExport, Fine, RequestOK
<1>3. SettingOf(r) = TenantBinding(m)
  BY <1>2, BoundSetting DEF Running
<1>4. req' = [req EXCEPT ![r] = q] /\ UNCHANGED <<db, clock, writes, conns, walk>>
  BY Zenon, <1>1, <1>2, <1>3 DEF StreamForExport, View, Asking
<1>5. req[r].snap \in Tables /\ m \in Member
  BY <1>1, <1>2 DEF Fine, ReportOK, Running, Reqs
<1>6. rows \in Seq(Keys)
  BY Zenon, <1>5, ReportRows DEF FileOf
<1>7. rows = exportQuery(TenantOf[m], TenantBinding(m), req[r].snap,
                         narrow(req[r].actor, Asking(req[r])))
  BY Zenon
<1> HIDE DEF rows
<1>8. q \in Reqs
  BY Zenon, <1>1, <1>6 DEF Reqs, Pcs
<1>9. /\ q.pc = "streaming" /\ q.kind = req[r].kind /\ q.member = m /\ q.dept = req[r].dept
      /\ q.actor = req[r].actor /\ q.snap = req[r].snap
      /\ q.out = req[r].out /\ q.resent = req[r].resent /\ q.left = rows
  BY <1>1 DEF Reqs
<1> HIDE DEF q
<1>10. ~q.resent => q.out = <<>> /\ q.out \o q.left = rows
  <2>1. ~q.resent => q.out = <<>>
    BY Zenon, <1>1, <1>2, <1>9 DEF Fine, RequestOK
  <2> QED
    BY SMTT(30), <1>6, <1>9, <2>1
<1>11. RequestOK(q) /\ Readable(q) /\ PageOK(q, walk[r])
  BY Zenon, <1>1, <1>2, <1>9 DEF Fine, RequestOK, Readable, PageOK, Resolved
<1>12. ReportOK(q)
  <2>1. /\ q.snap \in Tables /\ q.actor = q.snap.member[m] /\ MayExport(q.actor)
    BY Zenon, <1>1, <1>2, <1>5, <1>9 DEF Fine, ReportOK, Resolved, Running
  <2>2. Asking(q) = Asking(req[r])
    BY Zenon, <1>9 DEF Asking
  <2>3. ASSUME ~q.resent
        PROVE  q.snap.exportRows[TenantOf[m]] # NoLimit =>
                   Len(q.out) <= q.snap.exportRows[TenantOf[m]]
    <3> DEFINE limit == q.snap.exportRows[TenantOf[m]]
    <3>1. limit \in Nat \cup {NoLimit}
      BY <1>5, <2>1, LimitType
    <3>2. Len(q.out) = 0
      <4>1. q.out = <<>>
        BY Zenon, <1>10, <2>3
      <4> QED
        BY <4>1
    <3> HIDE DEF limit
    <3>3. limit # NoLimit => Len(q.out) <= limit
      BY <3>1, <3>2
    <3> QED
      BY <3>3 DEF limit
  <2> QED
    BY Zenon, <1>7, <1>9, <1>10, <2>1, <2>2, <2>3 DEF ReportOK
<1>13. Running(q) /\ Running(req[r]) /\ q.pc # "begun" /\ req[r].pc # "begun"
  BY <1>2, <1>9 DEF Running
<1> QED
  BY Zenon, <1>1, <1>4, <1>8, <1>9, <1>11, <1>12, <1>13, RequestMoves DEF Fine

\* A row moves from what is left to what is sent.
LEMMA OneRowOn ==
    ASSUME NEW S, NEW out \in Seq(S), NEW left \in Seq(S), left # <<>>
    PROVE  /\ Append(out, Head(left)) \in Seq(S) /\ Tail(left) \in Seq(S)
           /\ Append(out, Head(left)) \o Tail(left) = out \o left
           /\ Len(Append(out, Head(left))) = Len(out) + 1
<1>1. Head(left) \in S /\ Tail(left) \in Seq(S) /\ Len(left) > 0
  OBVIOUS
<1>2. Append(out, Head(left)) \in Seq(S) /\ Len(Append(out, Head(left))) = Len(out) + 1
  BY <1>1
<1>3. Append(out, Head(left)) \o Tail(left) = out \o left
  BY <1>1, <1>2
<1> QED
  BY <1>1, <1>2, <1>3

LEMMA RowInv ==
    ASSUME Parts, NEW r \in Request, StreamRow(r)
    PROVE  Parts'
<1> DEFINE m == req[r].member
           limit == req[r].snap.exportRows[TenantOf[m]]
           q == [req[r] EXCEPT !.out = Append(@, Head(req[r].left)), !.left = Tail(@)]
<1>1. /\ req[r] \in Reqs /\ req \in [Request -> Reqs] /\ Fine(req[r], walk[r], db)
  BY DEF Parts, Typed
<1>2. req[r].pc = "streaming" /\ req[r].kind = "export" /\ req[r].left # <<>>
  BY <1>1 DEF StreamRow, Fine, RequestOK
<1>3. ExportRows(r) = limit
  BY Zenon, <1>2 DEF ExportRows, View
<1>4. CASE limit # NoLimit /\ Len(req[r].out) >= limit
  BY <1>3, <1>4, EndInv DEF StreamRow
<1>5. CASE ~(limit # NoLimit /\ Len(req[r].out) >= limit)
  <2>1. req' = [req EXCEPT ![r] = q] /\ UNCHANGED <<db, clock, writes, conns, walk>>
    BY Zenon, <1>1, <1>3, <1>5 DEF StreamRow
  <2>2. req[r].out \in Seq(Keys) /\ req[r].left \in Seq(Keys) /\ m \in Member
    BY <1>1 DEF Reqs
  <2>3. /\ Append(req[r].out, Head(req[r].left)) \in Seq(Keys) /\ Tail(req[r].left) \in Seq(Keys)
        /\ Append(req[r].out, Head(req[r].left)) \o Tail(req[r].left) = req[r].out \o req[r].left
        /\ Len(Append(req[r].out, Head(req[r].left))) = Len(req[r].out) + 1
    BY Zenon, <1>2, <2>2, OneRowOn
  <2>4. q \in Reqs
    BY Zenon, <1>1, <2>3 DEF Reqs
  <2>5. /\ q.pc = "streaming" /\ q.kind = "export" /\ q.member = m /\ q.dept = req[r].dept
        /\ q.actor = req[r].actor /\ q.snap = req[r].snap
        /\ q.out = Append(req[r].out, Head(req[r].left)) /\ q.left = Tail(req[r].left)
        /\ q.resent = req[r].resent
    BY <1>1, <1>2 DEF Reqs
  <2> HIDE DEF q
  <2>6. q.out \o q.left = req[r].out \o req[r].left /\ Len(q.out) = Len(req[r].out) + 1
    BY Zenon, <2>3, <2>5
  <2>7. RequestOK(q) /\ Readable(q) /\ PageOK(q, walk[r])
    BY Zenon, <1>1, <1>2, <2>5 DEF Fine, RequestOK, Readable, PageOK, Resolved
  <2>8. ReportOK(q)
    <3>1. /\ req[r].snap \in Tables /\ req[r].actor = req[r].snap.member[m]
          /\ MayExport(req[r].actor)
          /\ ~req[r].resent => req[r].out \o req[r].left =
                exportQuery(TenantOf[m], TenantBinding(m), req[r].snap,
                            narrow(req[r].actor, Asking(req[r])))
      BY Zenon, <1>1, <1>2 DEF Fine, ReportOK, Resolved, Running
    <3>2. Asking(q) = Asking(req[r])
      BY Zenon, <2>5 DEF Asking
    <3>3. limit # NoLimit => Len(q.out) <= limit
      <4>1. limit \in Nat \cup {NoLimit}
        BY Zenon, <2>2, <3>1, LimitType
      <4>2. Len(req[r].out) \in Nat
        BY <2>2
      <4> HIDE DEF limit
      <4> QED
        BY <1>5, <2>6, <4>1, <4>2
    <3> QED
      BY Zenon, <2>5, <2>6, <3>1, <3>2, <3>3 DEF ReportOK
  <2>9. Running(q) /\ Running(req[r]) /\ q.pc # "begun" /\ req[r].pc # "begun"
    BY Zenon, <1>2, <2>5 DEF Running
  <2> QED
    BY Zenon, <1>1, <1>2, <2>1, <2>4, <2>5, <2>7, <2>8, <2>9, RequestMoves DEF Fine
<1> QED
  BY <1>4, <1>5

LEMMA CloseInv ==
    ASSUME Parts, NEW r \in Request, CloseReport(r)
    PROVE  Parts'
<1> DEFINE q == [req[r] EXCEPT !.pc = "commit"]
<1>1. /\ req[r] \in Reqs /\ req \in [Request -> Reqs] /\ Fine(req[r], walk[r], db)
  BY DEF Parts, Typed
<1>2. /\ req[r].pc = "streaming" /\ req[r].kind = "export" /\ req[r].left = <<>>
      /\ req' = [req EXCEPT ![r] = q] /\ UNCHANGED <<db, clock, writes, conns, walk>>
  BY <1>1 DEF CloseReport, Fine, RequestOK
<1>3. q \in Reqs
  BY Zenon, <1>1 DEF Reqs, Pcs
<1>4. /\ q.pc = "commit" /\ q.kind = req[r].kind /\ q.member = req[r].member
      /\ q.dept = req[r].dept /\ q.actor = req[r].actor /\ q.snap = req[r].snap
      /\ q.out = req[r].out /\ q.resent = req[r].resent /\ q.left = req[r].left
  BY <1>1 DEF Reqs
<1> HIDE DEF q
<1>5. RequestOK(q) /\ Readable(q) /\ PageOK(q, walk[r])
  BY Zenon, <1>1, <1>2, <1>4 DEF Fine, RequestOK, Readable, PageOK, Resolved
<1>6. ReportOK(q)
  BY Zenon, <1>1, <1>2, <1>4 DEF Fine, ReportOK, Resolved, Running, Asking
<1>7. Running(q) /\ Running(req[r]) /\ q.pc # "begun" /\ req[r].pc # "begun"
  BY Zenon, <1>2, <1>4 DEF Running
<1> QED
  BY Zenon, <1>1, <1>2, <1>3, <1>4, <1>5, <1>6, <1>7, RequestMoves DEF Fine

-----------------------------------------------------------------------------
(* The end of a request, and what others commit.                           *)

\* A page that fits keeps the walk exact.
LEMMA ReceivedFine ==
    ASSUME Parts, NEW r \in Request, req[r].pc = "commit", req[r].kind \in {"list", "queue"}
    PROVE  Received(walk[r], r) \in Walks /\ WalkOK(Received(walk[r], r), db)
<1> DEFINE w == walk[r]
           q == req[r]
           page == Range(q.out)
           v == Received(w, r)
<1>1. q \in Reqs /\ w \in Walks /\ WalkOK(w, db) /\ PageOK(q, w)
  BY Zenon DEF Parts, Typed, Fine
<1>2. page \in SUBSET Keys
  BY <1>1 DEF Reqs, Range
<1>3. v = [w EXCEPT !.seen = @ \cup page, !.again = @ \cup (page \cap w.seen),
                    !.cursor = q.next, !.done = q.next = NULL]
  BY Zenon DEF Received
<1>4. q.next \in Keys \cup {NULL}
  BY <1>1 DEF Reqs
<1> HIDE DEF q, page, v, w
<1>5. v \in Walks
  BY Zenon, <1>1, <1>2, <1>3, <1>4 DEF Walks
<1>6. /\ v.kind = w.kind /\ v.member = w.member /\ v.dept = w.dept /\ v.steady = w.steady
      /\ v.seen = w.seen \cup page /\ v.again = w.again \cup (page \cap w.seen)
      /\ v.cursor = q.next /\ v.done = (q.next = NULL)
  BY <1>1, <1>3 DEF Walks
<1>7. q.pc = "commit" /\ q.kind \in {"list", "queue"} /\ page = Range(q.out)
  BY Zenon DEF q, page
<1>8. w.kind = q.kind /\ ~w.done
  BY <1>1, <1>7 DEF PageOK
<1>9. \A k \in v.steady : k \in v.seen \/ (~v.done /\ Ahead(v.kind, v.cursor, k))
  BY Zenon, <1>1, <1>6, <1>7, <1>8 DEF PageOK
<1>10. ASSUME w.kind = "list" PROVE v.again = {}
  <2>1. w.again = {} /\ \A k \in w.seen : w.cursor # NULL /\ ~Less(k, w.cursor)
    BY Zenon, <1>1, <1>8, <1>10 DEF WalkOK
  <2>2. \A k \in page : w.cursor = NULL \/ Less(k, w.cursor)
    BY Zenon, <1>1, <1>7, <1>8, <1>10 DEF PageOK, Ahead
  <2> QED
    BY Zenon, <1>6, <2>1, <2>2
<1>11. ASSUME w.kind = "list", ~v.done, NEW k \in v.seen
       PROVE  v.cursor # NULL /\ ~Less(k, v.cursor)
  <2>1. q.next # NULL /\ q.next \in Keys
    BY Zenon, <1>4, <1>6, <1>11
  <2>2. /\ Ahead("list", w.cursor, q.next)
        /\ \A j \in page : ~Less(j, q.next)
    BY Zenon, <1>1, <1>7, <1>8, <1>11, <2>1 DEF PageOK
  <2>3. CASE k \in page
    BY Zenon, <1>6, <2>1, <2>2, <2>3
  <2>4. CASE k \in w.seen
    <3>1. w.cursor # NULL /\ ~Less(k, w.cursor)
      BY Zenon, <1>1, <1>8, <1>11, <2>4 DEF WalkOK
    <3>2. w.cursor \in Keys /\ k \in Keys
      BY Zenon, <1>1, <2>4, <3>1 DEF Walks
    <3>3. Less(q.next, w.cursor)
      BY Zenon, <2>2, <3>1 DEF Ahead
    <3>4. ~Less(k, q.next)
      BY <2>1, <3>1, <3>2, <3>3, KeyOrder
    <3> QED
      BY Zenon, <1>6, <2>1, <3>4
  <2> QED
    BY <1>6, <1>11, <2>3, <2>4
<1>12. WalkOK(v, db)
  BY Zenon, <1>1, <1>6, <1>9, <1>10, <1>11 DEF WalkOK
<1> QED
  BY <1>5, <1>12 DEF v, w

LEMMA CommitInv ==
    ASSUME Parts, NEW r \in Request, Commit(r)
    PROVE  Parts'
<1> DEFINE q == Idle(r, "ok")
           w == IF req[r].kind \in {"list", "queue"} THEN Received(walk[r], r) ELSE walk[r]
<1>1. /\ req[r].pc = "commit" /\ req' = [req EXCEPT ![r] = q] /\ Release(r)
      /\ UNCHANGED <<db, clock, writes>>
  BY DEF Commit
<1>2. walk \in [Request -> Walks] /\ WalkOK(walk[r], db)
  BY DEF Parts, Typed, Fine
<1>3. walk' = [walk EXCEPT ![r] = w]
  BY Zenon, <1>2 DEF Commit
<1>4. w \in Walks /\ WalkOK(w, db)
  BY <1>1, <1>2, ReceivedFine
<1> HIDE DEF w
<1>5. q \in Reqs /\ q.pc = "done" /\ Fine(q, w, db)
  BY <1>4, IdleFine
<1> HIDE DEF q
<1>6. ~Running(q)
  BY <1>5 DEF Running
<1> QED
  BY Zenon, <1>1, <1>3, <1>4, <1>5, <1>6, ConnsReleased, OneRequest

LEMMA ConnsSame ==
    ASSUME ConnsOK, UNCHANGED <<conns, req>>
    PROVE  ConnsOK'
<1>1. \A r \in Request, k \in Conn :
        (HeldBy(k, r)' <=> HeldBy(k, r)) /\ Binding(r)' = Binding(r)
  BY DEF HeldBy, Binding
<1>2. \A r \in Request : Running(req'[r]) => \E k \in Conn : HeldBy(k, r)'
  BY Zenon, <1>1 DEF ConnsOK
<1>3. ASSUME NEW r \in Request, NEW k \in Conn, HeldBy(k, r)'
      PROVE  /\ Running(req'[r])
             /\ conns'[k].local = IF req'[r].pc = "begun" THEN Unset ELSE Binding(r)'
             /\ \A l \in Conn : HeldBy(l, r)' => l = k
  BY Zenon, <1>1, <1>3 DEF ConnsOK
<1>4. \A k \in Conn :
          /\ conns'[k].session = Unset
          /\ conns'[k].tx = NULL => conns'[k].local = Unset
  BY Zenon DEF ConnsOK
<1> QED
  BY Zenon, <1>2, <1>3, <1>4 DEF ConnsOK

\* Requests in progress, and walks, outlive what others commit.
LEMMA WriteInv ==
    ASSUME Parts, NEW d \in Tables, Write(d)
    PROVE  Parts'
<1>1. /\ Typed /\ ConnsOK /\ writes < MaxWrites /\ writes' = writes + 1 /\ db' = d
      /\ UNCHANGED <<clock, conns, req>>
  BY Zenon DEF Parts, Write
<1>2. ASSUME NEW r \in Request
      PROVE  walk'[r] \in Walks /\ Fine(req[r], walk'[r], d)
  <2> DEFINE w == walk[r]
             scope == Scope(w.kind, w.member, w.dept, d)
             v == [w EXCEPT !.steady = @ \cap scope]
  <2>1. w \in Walks /\ Fine(req[r], w, db)
    BY DEF Parts, Typed
  <2>2. walk'[r] = v
    BY DEF Write
  <2>3. scope = Scope(w.kind, w.member, w.dept, d)
    OBVIOUS
  <2> HIDE DEF scope, w
  <2>4. v \in Walks
    BY <2>1 DEF Walks
  <2>5. /\ v.kind = w.kind /\ v.member = w.member /\ v.dept = w.dept
        /\ v.cursor = w.cursor /\ v.seen = w.seen /\ v.again = w.again /\ v.done = w.done
        /\ v.steady = w.steady \cap scope
    BY <2>1 DEF Walks
  <2> HIDE DEF v
  <2>6. WalkOK(v, d)
    BY Zenon, <2>1, <2>3, <2>5 DEF Fine, WalkOK
  <2>7. PageOK(req[r], v)
    BY Zenon, <2>1, <2>5 DEF Fine, PageOK
  <2> QED
    BY Zenon, <2>1, <2>2, <2>4, <2>6, <2>7 DEF Fine
<1>3. Typed'
  <2>1. writes' \in 0 .. MaxWrites
    BY <1>1, ReadsAssumption DEF Typed
  <2>2. walk' \in [Request -> Walks]
    BY <1>2 DEF Write
  <2> QED
    BY Zenon, <1>1, <2>1, <2>2 DEF Typed
<1>4. ConnsOK'
  BY <1>1, ConnsSame
<1> QED
  BY <1>1, <1>2, <1>3, <1>4 DEF Parts

LEMMA OtherRequestsInv ==
    ASSUME Parts, OtherRequests
    PROVE  Parts'
<1>1. db \in Tables /\ clock \in 0 .. MaxClock /\ 0 \in 0 .. MaxClock
  BY ReadsAssumption DEF Parts, Typed
<1>2. ASSUME NEW c \in Claim, Create(c) \/ Submit(c) \/ Withdraw(c) \/ Approve(c) \/ Discard(c)
      PROVE  Parts'
  <2>1. ASSUME NEW x \in Statuses, NEW t \in 0 .. MaxClock
        PROVE  /\ [db EXCEPT !.status[c] = x] \in Tables
               /\ [db EXCEPT !.status[c] = x, !.submitted[c] = t] \in Tables
    BY Zenon, <1>1 DEF Tables
  <2>2. CASE Create(c)
    BY Zenon, <1>1, <2>1, <2>2, WriteInv DEF Create, Statuses
  <2>3. CASE Submit(c)
    BY Zenon, <1>1, <2>1, <2>3, WriteInv DEF Submit, Statuses
  <2>4. CASE Withdraw(c)
    BY Zenon, <1>1, <2>1, <2>4, WriteInv DEF Withdraw, Statuses
  <2>5. CASE Approve(c)
    BY Zenon, <1>1, <2>1, <2>5, WriteInv DEF Approve, Statuses
  <2>6. CASE Discard(c)
    BY Zenon, <1>1, <2>1, <2>6, WriteInv DEF Discard, Statuses
  <2> QED
    BY <1>2, <2>2, <2>3, <2>4, <2>5, <2>6
<1>3. ASSUME NEW m \in Member, UpdateMember(m) PROVE Parts'
  <2>1. PICK a \in Reassigned : Write([db EXCEPT !.member[m] = a])
    BY <1>3 DEF UpdateMember
  <2>2. [db EXCEPT !.member[m] = a] \in Tables
    BY Zenon, <1>1, ReadsAssumption DEF Tables
  <2> QED
    BY <2>1, <2>2, WriteInv
<1>4. ASSUME NEW t \in Tenant, PlanChanges(t) PROVE Parts'
  <2>1. PICK n \in ExportLimits : Write([db EXCEPT !.exportRows[t] = n])
    BY <1>4 DEF PlanChanges
  <2>2. [db EXCEPT !.exportRows[t] = n] \in Tables
    BY Zenon, <1>1 DEF Tables
  <2> QED
    BY <2>1, <2>2, WriteInv
<1> QED
  BY Zenon, <1>2, <1>3, <1>4 DEF OtherRequests

LEMMA TickInv ==
    ASSUME Parts, Tick
    PROVE  Parts'
<1>1. Typed'
  <2>1. /\ Typed /\ clock < MaxClock /\ clock' = clock + 1
        /\ UNCHANGED <<db, writes, conns, req, walk>>
    BY DEF Parts, Tick
  <2>2. clock' \in 0 .. MaxClock
    BY <2>1, ReadsAssumption DEF Typed
  <2> QED
    BY <2>1, <2>2 DEF Typed
<1>2. ConnsOK' /\ \A r \in Request : Fine(req'[r], walk'[r], db')
  BY ConnsSame DEF Parts, Tick
<1> QED
  BY Zenon, <1>1, <1>2 DEF Parts

LEMMA ReadsStep == Parts /\ [Next]_vars => Parts'
<1> SUFFICES ASSUME Parts, [Next]_vars PROVE Parts'
  OBVIOUS
<1>1. ASSUME NEW r \in Request, Ask(r) \/ Acquire(r) \/ Work(r) PROVE Parts'
  <2>1. CASE Ask(r)
    BY <2>1, AskInv
  <2>2. CASE Acquire(r)
    BY Zenon, <2>2, AcquireInv
  <2>3. CASE Work(r)
    BY Zenon, <2>3, BindInv, ResolveInv, SweepWorkInv, ListInv, QueueInv, OpenInv, StreamInv,
       RowInv, CloseInv, CommitInv, RetryInv, FailInv DEF Work
  <2> QED
    BY <1>1, <2>1, <2>2, <2>3
<1>2. CASE UNCHANGED vars
  <2>1. Typed' /\ \A r \in Request : Fine(req'[r], walk'[r], db')
    BY <1>2 DEF vars, Parts, Typed
  <2>2. ConnsOK'
    BY <1>2, ConnsSame DEF vars, Parts
  <2> QED
    BY Zenon, <2>1, <2>2 DEF Parts
<1> QED
  BY <1>1, <1>2, OtherRequestsInv, TickInv DEF Next

-----------------------------------------------------------------------------
(* What follows.                                                           *)

\* The parts of ReadsInv hold together in every reachable state.
THEOREM ReadsInvariance == Spec => []ReadsInv
<1>1. Spec => []Parts
  BY ReadsInit, ReadsStep, PTL DEF Spec
<1> QED
  BY <1>1, PartsGiveInv, PTL

\* attemptTx and bindSession: a request has exactly one connection from Acquire
\* to Release, bound to its own tenant, and no connection goes back to the pool
\* with a tenant or app.system on it, whichever way the transaction ended and
\* however often it was retried.
THEOREM PooledStaysUnbound == Spec => [](ReadsTypeOK /\ PooledIsUnbound)
<1>1. ASSUME ReadsInv PROVE ReadsTypeOK /\ PooledIsUnbound
  <2>1. ASSUME NEW k \in Conn, NEW r \in Request, HeldBy(k, r)
        PROVE  Setting(conns[k]) = IF req[r].pc = "begun" THEN Unset ELSE Binding(r)
    BY Zenon, <1>1, <2>1 DEF ReadsInv, ConnsOK, Setting
  <2>2. \A k \in Conn : conns[k].tx = NULL => Setting(conns[k]) = Unset
    BY <1>1 DEF ReadsInv, ConnsOK, Setting
  <2> QED
    BY Zenon, <1>1, <2>1, <2>2 DEF ReadsInv, PooledIsUnbound
<1>2. ReadsInv => ReadsTypeOK /\ PooledIsUnbound
  BY <1>1
<1> QED
  BY <1>2, ReadsInvariance, PTL

\* List with NewPage's cursors: the pages of a claim list never repeat a claim,
\* and a list or a queue walked to its end has left out nothing that was there
\* all along, whatever is committed between the pages.
THEOREM WalksAreExact == Spec => []WalkIsExact
<1>1. ReadsInv => WalkIsExact
  BY Zenon DEF ReadsInv, WalkOK, WalkIsExact
<1> QED
  BY <1>1, ReadsInvariance, PTL

\* narrowToScope: nothing is listed that canRead would refuse.
THEOREM ListedStaysReadable == Spec => []ListedIsReadable
<1>1. ReadsInv => ListedIsReadable
  BY DEF ReadsInv
<1> QED
  BY <1>1, ReadsInvariance, PTL

\* StreamExport under REPEATABLE READ: the file of a download that ended well is
\* the report of one instant, complete, in order and within the plan, unless its
\* transaction was run again after rows were sent.
THEOREM FilesAreSnapshots == Spec => []CompleteFileIsOneInstant
<1>1. ASSUME ReadsInv, NEW r \in Request, req[r].kind = "export", req[r].pc = "commit",
             ~req[r].resent
      PROVE  LET then == req[r].snap
                 t == TenantOf[req[r].member]
                 actor == then.member[req[r].member]
                 dept == IF Can(actor, "ExpenseReadAll") THEN req[r].dept ELSE actor.dept
                 file == req[r].out
             IN  /\ MayExport(actor)
                 /\ {file[i][2] : i \in DOMAIN file} =
                         {c \in Rows(then) : ClaimTenant(c) = t /\ dept \in {NULL, Filed[c].dept}}
                 /\ \A i, j \in DOMAIN file : i < j => Less(file[i], file[j])
                 /\ then.exportRows[t] # NoLimit => Len(file) <= then.exportRows[t]
  <2> DEFINE then == req[r].snap
             m == req[r].member
             t == TenantOf[m]
             actor == then.member[m]
             dept == IF Can(actor, "ExpenseReadAll") THEN req[r].dept ELSE actor.dept
             file == req[r].out
             f == narrow(actor, Asking(req[r]))
             C == Found(t, TenantBinding(m), then, f)
  <2>1. req[r] \in Reqs /\ ReportOK(req[r])
    BY <1>1 DEF ReadsInv, ReadsTypeOK
  <2>2. /\ then \in Tables /\ MayExport(actor)
        /\ then.exportRows[t] # NoLimit => Len(file) <= then.exportRows[t]
        /\ file \o req[r].left = exportQuery(t, TenantBinding(m), then, f)
        /\ req[r].left = <<>>
    BY Zenon, <1>1, <2>1 DEF ReportOK, Running, Resolved
  <2>3. file \in Seq(Keys)
    BY Zenon, <2>1 DEF Reqs
  <2>4. file = exportQuery(t, TenantBinding(m), then, f)
    <3> HIDE DEF file, then, t, f
    <3>1. file \o <<>> = file
      BY <2>3
    <3> QED
      BY <2>2, <3>1
  <2>5. /\ Range(file) = ByDate(C)
        /\ \A i, j \in DOMAIN file : i < j => Less(file[i], file[j])
    <3>1. FileOf(file, ByDate(C))
      <4> HIDE DEF file, then, t, f
      <4> QED
        BY Zenon, <2>2, <2>4, ReportRows
    <3> QED
      BY Zenon, <3>1 DEF FileOf
  <2>6. \A c \in Claim : Matches(f, c) <=> dept \in {NULL, Filed[c].dept}
    BY DEF Matches, narrow, Asking
  <2>7. C = {c \in Rows(then) : ClaimTenant(c) = t /\ dept \in {NULL, Filed[c].dept}}
    <3>1. \A c \in Claim : tenant_isolation(TenantBinding(m), c) <=> ClaimTenant(c) = t
      BY Zenon DEF tenant_isolation, TenantBinding
    <3>2. Rows(then) \subseteq Claim
      BY DEF Rows
    <3> QED
      BY Zenon, <2>6, <3>1, <3>2 DEF Found
  <2>8. {file[i][2] : i \in DOMAIN file} = C
    <3> HIDE DEF file, C
    <3>1. Range(file) = {<<Filed[c].spent, c>> : c \in C}
      BY <2>5 DEF ByDate
    <3>2. ASSUME NEW i \in DOMAIN file PROVE file[i][2] \in C
      <4>1. file[i] \in Range(file)
        BY DEF Range
      <4> QED
        BY <3>1, <4>1
    <3>3. ASSUME NEW c \in C PROVE \E i \in DOMAIN file : file[i][2] = c
      <4>1. <<Filed[c].spent, c>> \in Range(file)
        BY <3>1
      <4>2. PICK i \in DOMAIN file : file[i] = <<Filed[c].spent, c>>
        BY <4>1 DEF Range
      <4> QED
        BY <4>2
    <3> QED
      BY Zenon, <3>2, <3>3
  <2> HIDE DEF C
  <2> QED
    BY Zenon, <2>2, <2>5, <2>7, <2>8
<1>2. ReadsInv => CompleteFileIsOneInstant
  BY Zenon, <1>1 DEF CompleteFileIsOneInstant
<1> QED
  BY <1>2, ReadsInvariance, PTL
=============================================================================
